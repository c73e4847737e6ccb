----------------------------- MODULE SplitProofs -----------------------------
(***************************************************************************)
(* Theorems about SplitCheckout, in every environment: any number of       *)
(* friends, late, failed, repeated and overlapping payments, either        *)
(* webhook, crashes, declines, cancellations and the expiry cron.          *)
(***************************************************************************)
EXTENDS SplitCheckout, CheckoutProofs

(***************************************************************************)
(* Only a webhook that processes the success of a share has seen shares;   *)
(* the rows the declines, cancellations and the cron have loaded exist;    *)
(* only a booking that exists has shares.                                  *)
(***************************************************************************)
SeenIsOfShare ==
  \A w \in Workers : seen[w] # Nothing =>
    /\ task[w].op \in {"loaded", "stripe_loaded"}
    /\ task[w].e.part # "full" /\ task[w].e.outcome = "success"
CopiesExist ==
  \A c \in copies :
    /\ booking[c.b].status # "absent"
    /\ c.op = "decline" => splits[c.b][c.f] # "absent"
    /\ c.op # "decline" => c.bk.slot \in Slots /\ c.bk.status # "absent"
AbsentHasNoShares ==
  \A b \in Bookings : booking[b].status = "absent" =>
    \A f \in Friends : splits[b][f] = "absent"

SInv == STypeOK /\ LockInv /\ SeenIsOfShare /\ CopiesExist /\ AbsentHasNoShares

USE DEF NoHold
-----------------------------------------------------------------------------
(* Types of what the split code reads and writes.                          *)

LEMMA CopyKinds ==
  ASSUME NEW c \in Copy
  PROVE  /\ c.b \in Bookings
         /\ c.op = "decline" => c.f \in Friends /\ c.link \in Link
         /\ c.op \in {"cancel", "expire"} => c.bk \in BookingRow
         /\ c.op \in {"cancel", "expire", "decline"}
BY DEF Copy

LEMMA MarkType ==
  ASSUME NEW t \in Loaded, NEW S \in [Friends -> SplitState]
  PROVE  /\ Mark(t, S) \in [Friends -> SplitState]
         /\ \A f \in Friends : Mark(t, S)[f] = IF t.e.part = f THEN "paid" ELSE S[f]
BY DEF Mark, SplitState

LEMMA SplitRowsType ==
  ASSUME NEW t \in Loaded, NEW U
  PROVE  /\ SplitSlot(t, U) \in SlotRow
         /\ HostMarked(t) \in BookingRow /\ SplitBooking(t, U) \in BookingRow
         /\ HostMarked(t).slot = t.bk.slot /\ SplitBooking(t, U).slot = t.bk.slot
         /\ HostMarked(t).kind = t.bk.kind /\ SplitBooking(t, U).kind = t.bk.kind
         /\ HostMarked(t).bookedAt = t.bk.bookedAt
         /\ SplitBooking(t, U).bookedAt = t.bk.bookedAt
         /\ HostMarked(t).status = t.bk.status
         /\ SplitBooking(t, U).status = IF AllPaid(t, U) THEN "confirmed" ELSE t.bk.status
         /\ HostMarked(t).primaryPaid = (t.bk.primaryPaid \/ t.e.part = "primary")
         /\ SplitBooking(t, U).primaryPaid = HostMarked(t).primaryPaid
<1>1. t.sl \in SlotRow /\ t.bk \in BookingRow
  BY DEF Loaded
<1>2. SplitSlot(t, U) \in SlotRow
  BY <1>1 DEF SplitSlot, SlotRow
<1>3. /\ HostMarked(t) \in BookingRow
      /\ HostMarked(t).slot = t.bk.slot /\ HostMarked(t).kind = t.bk.kind
      /\ HostMarked(t).bookedAt = t.bk.bookedAt
      /\ HostMarked(t).status = t.bk.status
      /\ HostMarked(t).primaryPaid = (t.bk.primaryPaid \/ t.e.part = "primary")
  BY <1>1 DEF HostMarked, BookingRow
<1>4. /\ SplitBooking(t, U) \in BookingRow
      /\ SplitBooking(t, U).slot = HostMarked(t).slot
      /\ SplitBooking(t, U).kind = HostMarked(t).kind
      /\ SplitBooking(t, U).bookedAt = HostMarked(t).bookedAt
      /\ SplitBooking(t, U).status = IF AllPaid(t, U) THEN "confirmed"
                                                      ELSE HostMarked(t).status
      /\ SplitBooking(t, U).primaryPaid = HostMarked(t).primaryPaid
  BY <1>3 DEF SplitBooking, BookingRow, Status
<1> QED BY <1>2, <1>3, <1>4

(* What a decline, a cancellation or the cron saves of a row it loaded.    *)
LEMMA ClosedRowType ==
  ASSUME NEW bk \in BookingRow
  PROVE  LET c == [bk EXCEPT !.status = "cancelled"]
             x == [bk EXCEPT !.status = "expired", !.splitStatus = "expired"]
         IN  /\ c \in BookingRow /\ c.slot = bk.slot /\ c.kind = bk.kind
             /\ c.status = "cancelled" /\ c.primaryPaid = bk.primaryPaid
             /\ c.bookedAt = bk.bookedAt
             /\ x \in BookingRow /\ x.slot = bk.slot /\ x.kind = bk.kind
             /\ x.status = "expired" /\ x.primaryPaid = bk.primaryPaid
             /\ x.bookedAt = bk.bookedAt
BY DEF BookingRow, Status

LEMMA FreeSlotType ==
  ASSUME TypeOK, NEW s \in Slots
  PROVE  FreeSlot(s) \in [Slots -> SlotRow]
         /\ \A x \in Slots : x # s => FreeSlot(s)[x] = slot[x]
BY DEF TypeOK, FreeSlot, SlotRow

LEMMA RefundsDueType ==
  ASSUME NEW c \in Copy
  PROVE  RefundsDue(c) \subseteq Bookings \X Shares
BY CopyKinds DEF RefundsDue, Shares
-----------------------------------------------------------------------------
(* Type correctness.                                                       *)

(* A step of Checkout leaves a webhook that processes a share where it is, *)
(* or breaks it off.                                                       *)
LEMMA ShareTaskStays ==
  ASSUME TypeInv, [Next]_vars, NEW w \in Workers,
         task[w].op \in {"loaded", "stripe_loaded"}, task[w].e.part # "full"
  PROVE  task'[w] = task[w] \/ task'[w] = Idle
<1>1. TypeOK
  BY DEF TypeInv
<1>2. ASSUME NEW v \in Workers, Step(v) \/ Failure(v)
      PROVE  task'[w] = task[w] \/ task'[w] = Idle
  <2>1. CASE v = w
    BY <1>1, <1>2, <2>1
    DEF Step, Failure, CreateBookingCommit, PaymentWebhookLoad, PaymentWebhookTicket,
        PaymentWebhookCommit, StripeWebhookSaveSlot, StripeWebhookSaveBooking,
        CreateBookingRollback, PaymentWebhookAbort, StripeWebhookAbort, Finish, TypeOK
  <2>2. CASE v # w
    BY <1>1, <1>2, <2>2
    DEF Step, Failure, CreateBookingCommit, PaymentWebhookLoad, PaymentWebhookTicket,
        PaymentWebhookCommit, StripeWebhookSaveSlot, StripeWebhookSaveBooking,
        CreateBookingRollback, PaymentWebhookAbort, StripeWebhookAbort, Finish, TypeOK
  <2> QED BY <2>1, <2>2
<1>3. ASSUME NEW v \in Workers, task[v] = Idle, NEW t, task' = [task EXCEPT ![v] = t]
      PROVE  task'[w] = task[w]
  <2>1. v # w
    BY <1>3 DEF Idle
  <2> QED BY <1>1, <1>3, <2>1 DEF TypeOK
<1>4. CASE Start
  BY <1>3, <1>4 DEF Start, CreateBookingLock, Deliver, PaymentWebhookSkip,
                    PaymentWebhookCheck, StripeWebhookLoad, ReminderLoad
<1>5. CASE Environment \/ ReminderSave \/ UNCHANGED vars
  BY <1>5 DEF Environment, Tick, PayInFull, Produce, GetDigitalTicket, ReminderSave, vars
<1> QED BY <1>2, <1>4, <1>5 DEF Next, Continue

(* A step of Checkout writes the shares of no booking that exists.         *)
LEMMA CheckoutKeepsShares ==
  ASSUME LockInv, [Next]_vars, NEW b \in Bookings
  PROVE  /\ booking[b].status # "absent" =>
              /\ booking'[b].status # "absent" /\ splits'[b] = splits[b]
         /\ booking'[b].status = "absent" =>
              /\ booking[b].status = "absent" /\ splits'[b] = splits[b]
<1>1. TypeInv /\ TypeOK
  BY DEF LockInv, TypeInv
<1>2. ASSUME NEW w \in Workers, CreateBookingCommit(w)
      PROVE  /\ task[w].b \in Bookings /\ booking[task[w].b].status = "absent"
             /\ booking'[task[w].b].status = "pending"
             /\ task[w].b # b => splits'[b] = splits[b] /\ booking'[b] = booking[b]
  <2>1. task[w].b \in Bookings /\ booking[task[w].b].status = "absent"
    BY <1>1, <1>2, CreatingTask DEF LockInv, CopyIsCurrent, CreateBookingCommit
  <2>2. booking'[task[w].b].status = "pending"
    BY <1>1, <1>2, <2>1, AbsentType DEF CreateBookingCommit, TypeOK, BookingRow
  <2> QED BY <1>1, <1>2, <2>1, <2>2 DEF CreateBookingCommit, TypeOK
<1>3. ASSUME NEW w \in Workers,
             PaymentWebhookCommit(w) \/ StripeWebhookSaveBooking(w)
      PROVE  /\ splits' = splits /\ booking[task[w].e.b].status # "absent"
             /\ booking'[task[w].e.b].status # "absent"
             /\ task[w].e.b # b => booking'[b] = booking[b]
  <2>1. /\ task[w].e.b \in Bookings /\ booking[task[w].e.b].status # "absent"
        /\ NewBooking(task[w]).status # "absent"
    BY <1>1, <1>3, LoadedTask
    DEF PaymentWebhookCommit, StripeWebhookSaveBooking, TypeInv, ForeignKeys
  <2> QED BY <1>1, <1>3, <2>1 DEF PaymentWebhookCommit, StripeWebhookSaveBooking, TypeOK
<1>4. CASE ReminderSave
  <2>1. PICK r \in reminding :
          /\ booking' = [booking EXCEPT ![r.b] = [r.bk EXCEPT !.reminded = TRUE]]
          /\ splits' = splits
    BY <1>4 DEF ReminderSave
  <2>2. /\ r.b \in Bookings /\ r.bk \in BookingRow /\ r.bk.status # "absent"
        /\ booking[r.b].status # "absent"
    BY <1>1 DEF TypeInv, TypeOK, ForeignKeys
  <2>3. booking'[r.b].status # "absent" /\ (r.b # b => booking'[b] = booking[b])
    BY <1>1, <2>1, <2>2 DEF TypeOK, BookingRow
  <2> QED BY <2>1, <2>2, <2>3
<1>5. CASE UNCHANGED <<booking, splits>>
  BY <1>5
<1> QED BY <1>2, <1>3, <1>4, <1>5
        DEF Next, Environment, Start, Continue, Tick, CreateBookingLock, PayInFull,
            Produce, GetDigitalTicket, Deliver, PaymentWebhookSkip, PaymentWebhookCheck,
            StripeWebhookLoad, Step, PaymentWebhookLoad, PaymentWebhookTicket,
            StripeWebhookSaveSlot, Failure, CreateBookingRollback, PaymentWebhookAbort,
            StripeWebhookAbort, ReminderLoad, vars, rows

(* The rest of the split code saves rows that exist, of slots that are not *)
(* locked: what CreateBooking relies on stays as it is.                    *)
LEMMA SaveKeepsLock ==
  ASSUME LockInv, NEW b \in Bookings, NEW row \in BookingRow,
         booking[b].status # "absent", row.status # "absent", row.slot \in Slots,
         booking' = [booking EXCEPT ![b] = row] \/ booking' = booking,
         slot' \in [Slots -> SlotRow],
         \A x \in Slots : Locked(x) => slot'[x] = slot[x],
         splits' \in [Bookings -> [Friends -> SplitState]],
         acked' \subseteq Result,
         task' = task \/ \E w \in Workers : task' = [task EXCEPT ![w] = Idle],
         UNCHANGED <<now, ledger, ticket, sent, events, reminding>>
  PROVE  LockInv'
<1>1. TypeInv /\ TypeOK /\ ForeignKeys
  BY DEF LockInv, TypeInv
<1>2. booking' \in [Bookings -> BookingRow] /\ task' \in [Workers -> Task]
  BY <1>1 DEF TypeOK, Task
<1>3. /\ \A x \in Bookings : booking[x].status = "absent" <=> booking'[x].status = "absent"
      /\ \A x \in Bookings : booking[x].slot \in Slots => booking'[x].slot \in Slots
  BY <1>1 DEF TypeOK
<1>4. \A w \in Workers : task'[w] = task[w] \/ task'[w] = Idle
  BY <1>1 DEF TypeOK
<1>5. TypeOK'
  BY <1>1, <1>2 DEF TypeOK
<1>6. ForeignKeys'
  <2>1. \A x \in Bookings : booking'[x].status # "absent" => booking'[x].slot \in Slots
    BY <1>1, <1>3 DEF ForeignKeys
  <2>2. \A e \in sent : e.b \in Bookings /\ booking[e.b].status # "absent"
    BY <1>1 DEF ForeignKeys, TypeOK, Result
  <2>3. \A r \in reminding : r.b \in Bookings /\ booking'[r.b].status # "absent"
    BY <1>1, <1>3 DEF ForeignKeys, TypeOK
  <2>4. \A w \in Workers : task'[w].op # "idle" => task'[w] = task[w]
    BY <1>4 DEF Idle
  <2>5. \A e \in sent' : booking'[e.b].status # "absent"
    BY <1>3, <2>2
  <2> QED BY <1>1, <2>1, <2>3, <2>4, <2>5 DEF ForeignKeys
<1>7. CopyIsCurrent'
  BY <1>1, <1>3, <1>4, CreatingTask DEF LockInv, CopyIsCurrent, Idle, Locked
<1>8. LockIsExclusive' /\ RemindsConfirmed'
  BY <1>4 DEF LockInv, LockIsExclusive, RemindsConfirmed, Idle
<1> QED BY <1>5, <1>6, <1>7, <1>8 DEF LockInv, TypeInv

LEMMA SInitInv == ASSUME SInit PROVE SInv
<1>1. LockInv
  BY LockInit DEF SInit
<1>2. STypeOK
  BY <1>1 DEF SInit, STypeOK, LockInv, TypeInv, Nothing, Look, Link
<1> QED BY <1>1, <1>2 DEF SInit, SInv, SeenIsOfShare, CopiesExist, AbsentHasNoShares, Init

LEMMA CheckoutStepInv == ASSUME SInv, CheckoutStep PROVE SInv'
<1>1. LockInv /\ TypeInv /\ LockInv' /\ [Next]_vars /\ TypeInv' /\ TypeOK'
  BY LockNext DEF SInv, LockInv, TypeInv, CheckoutStep
<1>2. STypeOK'
  BY <1>1 DEF SInv, STypeOK, CheckoutStep, Nothing, Look
<1>3. SeenIsOfShare'
  <2> SUFFICES ASSUME NEW w \in Workers, seen'[w] # Nothing
               PROVE  /\ task'[w].op \in {"loaded", "stripe_loaded"}
                      /\ task'[w].e.part # "full" /\ task'[w].e.outcome = "success"
    BY DEF SeenIsOfShare
  <2>1. task'[w] # Idle /\ seen[w] # Nothing
    BY DEF CheckoutStep
  <2>2. task'[w] = task[w]
    BY <1>1, <2>1, ShareTaskStays DEF SInv, SeenIsOfShare
  <2> QED BY <2>1, <2>2 DEF SInv, SeenIsOfShare
<1>4. CopiesExist'
  <2>1. copies' = copies /\ \A c \in copies : c.b \in Bookings
    BY CopyKinds DEF CheckoutStep, SInv, STypeOK
  <2> QED BY <1>1, <2>1, CheckoutKeepsShares DEF SInv, CopiesExist
<1>5. AbsentHasNoShares'
  BY <1>1, CheckoutKeepsShares DEF SInv, AbsentHasNoShares
<1> QED BY <1>1, <1>2, <1>3, <1>4, <1>5 DEF SInv

(* Steps that leave the tables, the gateway and the goroutines alone.      *)
LEMMA LooksKeepInv ==
  ASSUME SInv, UNCHANGED vars,
         STypeOK', SeenIsOfShare', CopiesExist'
  PROVE  SInv'
<1>1. LockInv'
  BY LockNext DEF SInv
<1> QED BY <1>1 DEF SInv, AbsentHasNoShares, vars, rows

LEMMA CustomersInv == ASSUME SInv, Customers PROVE SInv'
<1>1. /\ STypeOK /\ TypeOK /\ TypeInv /\ LockInv /\ ForeignKeys
      /\ SeenIsOfShare /\ CopiesExist /\ AbsentHasNoShares
  BY DEF SInv, LockInv, TypeInv
<1>2. ASSUME NEW b \in Bookings, NEW f \in Friends, VerifySplitToken(b, f)
      PROVE  SInv'
  <2>1. STypeOK'
    BY <1>1, <1>2, LockNext DEF VerifySplitToken, STypeOK, Link, LockInv, TypeInv
  <2>2. SeenIsOfShare' /\ CopiesExist'
    BY <1>1, <1>2 DEF VerifySplitToken, SeenIsOfShare, CopiesExist, vars, rows
  <2> QED BY <1>2, <2>1, <2>2, LooksKeepInv DEF VerifySplitToken
<1>3. ASSUME NEW b \in Bookings, NEW f \in Friends, DeclineLoad(b, f)
      PROVE  SInv'
  <2> DEFINE c == [op |-> "decline", b |-> b, f |-> f, link |-> link[b][f]]
  <2>1. copies' = copies \cup {c} /\ UNCHANGED <<vars, seen, link, refunded>>
    BY <1>3 DEF DeclineLoad, Copying
  <2>2. c \in Copy
    BY <1>1 DEF STypeOK, Copy
  <2>3. booking[b].status # "absent" /\ splits[b][f] # "absent"
    BY <1>1, <1>3 DEF DeclineLoad, AbsentHasNoShares
  <2>4. STypeOK'
    BY <1>1, <2>1, <2>2, LockNext DEF STypeOK, LockInv, TypeInv
  <2>5. SeenIsOfShare' /\ CopiesExist'
    BY <1>1, <2>1, <2>3 DEF SeenIsOfShare, CopiesExist, vars, rows
  <2> QED BY <2>1, <2>4, <2>5, LooksKeepInv
<1>4. ASSUME NEW b \in Bookings, CancelLoad(b)
      PROVE  SInv'
  <2> DEFINE c == [op |-> "cancel", b |-> b, bk |-> booking[b]]
  <2>1. copies' = copies \cup {c} /\ UNCHANGED <<vars, seen, link, refunded>>
    BY <1>4 DEF CancelLoad, Copying
  <2>2. c \in Copy
    BY <1>1 DEF TypeOK, Copy
  <2>3. booking[b].status # "absent" /\ booking[b].slot \in Slots
    BY <1>1, <1>4 DEF CancelLoad, ForeignKeys
  <2>4. STypeOK'
    BY <1>1, <2>1, <2>2, LockNext DEF STypeOK, LockInv, TypeInv
  <2>5. SeenIsOfShare' /\ CopiesExist'
    BY <1>1, <2>1, <2>3 DEF SeenIsOfShare, CopiesExist, vars, rows
  <2> QED BY <2>1, <2>4, <2>5, LooksKeepInv
<1>5. ASSUME NEW b \in Bookings, NEW p \in Shares, NEW o \in {"success", "failed"},
             PayShare(b, p, o)
      PROVE  SInv'
  <2> DEFINE e == [b |-> b, part |-> p, outcome |-> o]
  <2>1. /\ sent' = sent \cup {e} /\ e \in Result /\ booking[b].status # "absent"
        /\ UNCHANGED <<now, rows, acked, events, task, reminding, seen, link,
                       copies, refunded>>
    BY <1>5 DEF PayShare, Produce, Result, Shares
  <2> HIDE DEF e
  <2>2. e.b = b
    BY DEF e
  <2>3. TypeOK' /\ STypeOK'
    BY <1>1, <2>1 DEF STypeOK, TypeOK, rows
  <2>4. ForeignKeys'
    BY <1>1, <2>1, <2>2 DEF ForeignKeys, rows
  <2>5. CopyIsCurrent' /\ LockIsExclusive' /\ RemindsConfirmed'
    BY <1>1, <2>1 DEF LockInv, CopyIsCurrent, LockIsExclusive, RemindsConfirmed, rows
  <2>6. SeenIsOfShare' /\ CopiesExist' /\ AbsentHasNoShares'
    BY <1>1, <2>1 DEF SeenIsOfShare, CopiesExist, AbsentHasNoShares, rows
  <2> QED BY <2>3, <2>4, <2>5, <2>6 DEF SInv, LockInv, TypeInv
<1> QED BY <1>2, <1>3, <1>4, <1>5 DEF Customers

(* Steps of a webhook that processes a share.                              *)
LEMMA SplitStepInv == ASSUME SInv, NEW w \in Workers, SplitStep(w) PROVE SInv'
<1> DEFINE t == task[w]
           U == seen[w].unpaid
<1>1. /\ STypeOK /\ TypeOK /\ TypeInv /\ LockInv /\ ForeignKeys
      /\ SeenIsOfShare /\ CopiesExist /\ AbsentHasNoShares
  BY DEF SInv, LockInv, TypeInv
<1>2. t.op \in {"loaded", "stripe_loaded"}
  BY DEF SplitStep, PaymentSplitMark, PaymentSplitCommit, PaymentSplitFailed,
         StripeSplitMark, StripeSplitRead, StripeSplitFinish
<1>3. /\ t \in Loaded /\ t.e \in Result /\ t.e.b \in Bookings
      /\ t.bk \in BookingRow /\ t.bk.slot \in Slots /\ t.bk.status # "absent"
      /\ t.sl \in SlotRow /\ booking[t.e.b].status # "absent"
      /\ U \subseteq Friends
  BY <1>1, <1>2, LoadedTask DEF ForeignKeys, STypeOK
<1>4. \A S \in [Friends -> SplitState] : Mark(t, S) \in [Friends -> SplitState]
  BY <1>3, MarkType
<1>5. ASSUME splits' \in [Bookings -> [Friends -> SplitState]],
             \A b \in Bookings : booking'[b].status = "absent" <=> booking[b].status = "absent",
             \A b \in Bookings : b # t.e.b => splits'[b] = splits[b],
             \A f \in Friends : splits[t.e.b][f] # "absent" => splits'[t.e.b][f] # "absent",
             copies' = copies
      PROVE  CopiesExist' /\ AbsentHasNoShares'
  <2>1. \A c \in copies : c.b \in Bookings /\ (c.op = "decline" => c.f \in Friends)
    BY <1>1, CopyKinds DEF STypeOK
  <2> QED BY <1>1, <1>3, <1>5, <2>1 DEF CopiesExist, AbsentHasNoShares
<1>6. CASE PaymentSplitMark(w)
  <2>1. /\ UNCHANGED <<vars, link, copies, refunded>>
        /\ t.e.part # "full" /\ t.e.outcome = "success"
        /\ \A v \in Workers : v # w => seen'[v] = seen[v]
    BY <1>1, <1>6 DEF PaymentSplitMark, STypeOK
  <2>2. seen' = [seen EXCEPT ![w] = Look("read", Unpaid(Mark(t, splits[t.e.b])))]
    BY <1>6 DEF PaymentSplitMark
  <2>3. Look("read", Unpaid(Mark(t, splits[t.e.b])))
          \in [stage : {"none", "marked", "read"}, unpaid : SUBSET Friends]
    BY DEF Look, Unpaid
  <2>4. STypeOK'
    BY <1>1, <2>1, <2>2, <2>3, LockNext DEF STypeOK, LockInv, TypeInv
  <2>5. SeenIsOfShare' /\ CopiesExist'
    BY <1>1, <1>2, <2>1 DEF SeenIsOfShare, CopiesExist, vars, rows
  <2> QED BY <2>1, <2>4, <2>5, LooksKeepInv
<1>7. CASE StripeSplitRead(w)
  <2>1. /\ UNCHANGED <<vars, link, copies, refunded>>
        /\ seen[w] # Nothing
        /\ \A v \in Workers : v # w => seen'[v] = seen[v]
    BY <1>1, <1>7 DEF StripeSplitRead, STypeOK, Nothing, Look
  <2>2. seen' = [seen EXCEPT ![w] = Look("read", Unpaid(splits[t.e.b]))]
    BY <1>7 DEF StripeSplitRead
  <2>3. Look("read", Unpaid(splits[t.e.b]))
          \in [stage : {"none", "marked", "read"}, unpaid : SUBSET Friends]
    BY DEF Look, Unpaid
  <2>4. STypeOK'
    BY <1>1, <2>1, <2>2, <2>3, LockNext DEF STypeOK, LockInv, TypeInv
  <2>5. SeenIsOfShare' /\ CopiesExist'
    BY <1>1, <1>2, <2>1 DEF SeenIsOfShare, CopiesExist, vars, rows
  <2> QED BY <2>1, <2>4, <2>5, LooksKeepInv
<1>8. CASE StripeSplitMark(w)
  <2>1. /\ HostMarked(t) \in BookingRow /\ HostMarked(t).status # "absent"
        /\ HostMarked(t).slot \in Slots
    BY <1>3, SplitRowsType
  <2>2. /\ splits' = [splits EXCEPT ![t.e.b] = Mark(t, splits[t.e.b])]
        /\ booking' = [booking EXCEPT ![t.e.b] = HostMarked(t)] \/ booking' = booking
        /\ seen' = [seen EXCEPT ![w] = Look("marked", {})]
        /\ t.e.part # "full" /\ t.e.outcome = "success"
        /\ UNCHANGED <<now, slot, ledger, ticket, gateway, events, task, reminding, link,
                       copies, refunded>>
    BY <1>8 DEF StripeSplitMark
  <2>3. splits[t.e.b] \in [Friends -> SplitState]
    BY <1>1, <1>3 DEF TypeOK
  <2>4. splits' \in [Bookings -> [Friends -> SplitState]]
    BY <1>1, <1>3, <1>4, <2>2, <2>3 DEF TypeOK
  <2>5. LockInv'
    BY <1>1, <1>3, <2>1, <2>2, <2>4, SaveKeepsLock DEF gateway, TypeOK
  <2>6. STypeOK'
    BY <1>1, <2>2, <2>5 DEF STypeOK, LockInv, TypeInv, Look
  <2>7. SeenIsOfShare'
    BY <1>1, <1>2, <2>2 DEF SeenIsOfShare, STypeOK
  <2>8. CopiesExist' /\ AbsentHasNoShares'
    <3>1. \A b \in Bookings : booking'[b].status = "absent" <=> booking[b].status = "absent"
      BY <1>1, <1>3, <2>1, <2>2 DEF TypeOK
    <3>2. /\ \A b \in Bookings : b # t.e.b => splits'[b] = splits[b]
          /\ splits'[t.e.b] = Mark(t, splits[t.e.b])
      BY <1>1, <1>3, <2>2 DEF TypeOK
    <3>3. \A f \in Friends : splits[t.e.b][f] # "absent" => splits'[t.e.b][f] # "absent"
      BY <1>3, <2>3, <3>2, MarkType
    <3> QED BY <1>5, <2>2, <2>4, <3>1, <3>2, <3>3
  <2> QED BY <2>5, <2>6, <2>7, <2>8 DEF SInv
<1>9. ASSUME NEW row \in BookingRow, row.status # "absent", row.slot \in Slots,
             booking' = [booking EXCEPT ![t.e.b] = row] \/ booking' = booking,
             NEW sl \in SlotRow,
             \/ ~Locked(t.bk.slot) /\ slot' = [slot EXCEPT ![t.bk.slot] = sl]
             \/ slot' = slot,
             splits' = [splits EXCEPT ![t.e.b] = Mark(t, splits[t.e.b])] \/ splits' = splits,
             task' = [task EXCEPT ![w] = Idle],
             seen' = [seen EXCEPT ![w] = Nothing],
             acked' = acked \cup {t.e},
             UNCHANGED <<now, ledger, ticket, sent, events, reminding, link, copies, refunded>>
      PROVE  SInv'
  <2>1. splits[t.e.b] \in [Friends -> SplitState]
    BY <1>1, <1>3 DEF TypeOK
  <2>2. splits' \in [Bookings -> [Friends -> SplitState]]
    BY <1>1, <1>3, <1>4, <1>9, <2>1 DEF TypeOK
  <2>3. slot' \in [Slots -> SlotRow] /\ \A x \in Slots : Locked(x) => slot'[x] = slot[x]
    BY <1>1, <1>3, <1>9 DEF TypeOK
  <2>4. LockInv'
    BY <1>1, <1>3, <1>9, <2>2, <2>3, SaveKeepsLock DEF TypeOK
  <2>5. STypeOK'
    BY <1>1, <1>9, <2>4 DEF STypeOK, LockInv, TypeInv, Nothing, Look
  <2>6. SeenIsOfShare'
    BY <1>1, <1>9 DEF SeenIsOfShare, STypeOK, TypeOK
  <2>7. CopiesExist' /\ AbsentHasNoShares'
    <3>1. \A b \in Bookings : booking'[b].status = "absent" <=> booking[b].status = "absent"
      BY <1>1, <1>3, <1>9 DEF TypeOK
    <3>2. /\ \A b \in Bookings : b # t.e.b => splits'[b] = splits[b]
          /\ splits'[t.e.b] \in {splits[t.e.b], Mark(t, splits[t.e.b])}
      BY <1>1, <1>3, <1>9 DEF TypeOK
    <3>3. \A f \in Friends : splits[t.e.b][f] # "absent" => splits'[t.e.b][f] # "absent"
      BY <1>3, <2>1, <3>2, MarkType
    <3> QED BY <1>5, <1>9, <2>2, <3>1, <3>2, <3>3
  <2> QED BY <2>4, <2>5, <2>6, <2>7 DEF SInv
<1>10. /\ SplitBooking(t, U) \in BookingRow /\ SplitBooking(t, U).status # "absent"
       /\ SplitBooking(t, U).slot \in Slots /\ SplitSlot(t, U) \in SlotRow
  BY <1>3, SplitRowsType
<1>11. CASE PaymentSplitCommit(w)
  BY <1>9, <1>10, <1>11 DEF PaymentSplitCommit, Finish
<1>12. CASE PaymentSplitFailed(w)
  <2>1. seen[w] = Nothing
    BY <1>1, <1>12 DEF PaymentSplitFailed, SeenIsOfShare
  <2>2. seen' = [seen EXCEPT ![w] = Nothing]
    BY <1>1, <1>12, <2>1 DEF PaymentSplitFailed, STypeOK
  <2> QED BY <1>3, <1>9, <1>12, <2>2 DEF PaymentSplitFailed, Finish
<1>13. CASE StripeSplitFinish(w)
  <2>1. /\ task' = [task EXCEPT ![w] = Idle] /\ seen' = [seen EXCEPT ![w] = Nothing]
        /\ acked' = acked \cup {t.e}
        /\ UNCHANGED <<now, splits, ledger, ticket, sent, events, reminding, link, copies,
                       refunded>>
        /\ \/ /\ ~Locked(t.bk.slot)
              /\ slot' = [slot EXCEPT ![t.bk.slot] = SplitSlot(t, U)]
              /\ booking' = [booking EXCEPT ![t.e.b] = SplitBooking(t, U)]
           \/ UNCHANGED <<slot, booking>>
    BY <1>13 DEF StripeSplitFinish, Finish
  <2> QED BY <1>9, <1>10, <2>1
<1> QED BY <1>6, <1>7, <1>8, <1>11, <1>12, <1>13 DEF SplitStep

(* Steps that save or drop a copy.                                         *)
LEMMA CopyStepInv ==
  ASSUME SInv, DeclineSave \/ CancelCommit \/ ExpireLoad \/ ExpireCommit \/ CopyAbort
  PROVE  SInv'
<1>1. /\ STypeOK /\ TypeOK /\ TypeInv /\ LockInv /\ ForeignKeys
      /\ SeenIsOfShare /\ CopiesExist /\ AbsentHasNoShares
  BY DEF SInv, LockInv, TypeInv
<1>2. \A c \in copies :
        /\ c \in Copy /\ c.b \in Bookings /\ booking[c.b].status # "absent"
        /\ c.op = "decline" => c.f \in Friends /\ splits[c.b][c.f] # "absent"
        /\ c.op \in {"cancel", "expire"} =>
             c.bk \in BookingRow /\ c.bk.slot \in Slots /\ c.bk.status # "absent"
        /\ c.op \in {"cancel", "expire", "decline"}
  BY <1>1, CopyKinds DEF STypeOK, CopiesExist
<1>3. ASSUME NEW c \in copies, copies' = copies \ {c},
             splits' \in [Bookings -> [Friends -> SplitState]],
             \A b \in Bookings : booking'[b].status = "absent" <=> booking[b].status = "absent",
             \A b \in Bookings : b # c.b => splits'[b] = splits[b],
             \A f \in Friends : splits[c.b][f] # "absent" => splits'[c.b][f] # "absent"
      PROVE  CopiesExist' /\ AbsentHasNoShares'
  BY <1>1, <1>2, <1>3 DEF CopiesExist, AbsentHasNoShares
<1>4. CASE DeclineSave
  <2>1. PICK c \in copies :
          /\ c.op = "decline"
          /\ splits' = [splits EXCEPT ![c.b][c.f] = "declined"]
          /\ link' = [link EXCEPT ![c.b][c.f] =
                        IF c.link = "none" /\ @ = "saved" THEN "lost" ELSE @]
          /\ copies' = copies \ {c}
          /\ UNCHANGED <<now, slot, booking, ledger, ticket, gateway, events, task,
                         reminding, seen, refunded>>
    BY <1>4 DEF DeclineSave
  <2>2. c.b \in Bookings /\ c.f \in Friends /\ splits[c.b] \in [Friends -> SplitState]
    BY <1>1, <1>2, <2>1 DEF TypeOK
  <2>3. /\ splits' \in [Bookings -> [Friends -> SplitState]]
        /\ \A b \in Bookings : b # c.b => splits'[b] = splits[b]
        /\ \A f \in Friends : splits[c.b][f] # "absent" => splits'[c.b][f] # "absent"
    BY <1>1, <1>2, <2>1, <2>2 DEF TypeOK, SplitState
  <2>4. LockInv'
    <3>1. /\ booking[c.b] \in BookingRow /\ booking[c.b].status # "absent"
          /\ booking[c.b].slot \in Slots
      BY <1>1, <1>2, <2>2 DEF TypeOK, ForeignKeys
    <3> QED BY <1>1, <2>1, <2>2, <2>3, <3>1, SaveKeepsLock DEF TypeOK, gateway
  <2>5. link' \in [Bookings -> [Friends -> Link]]
    BY <1>1, <2>1, <2>2 DEF STypeOK, Link
  <2>6. STypeOK'
    BY <1>1, <2>1, <2>4, <2>5 DEF STypeOK, LockInv, TypeInv
  <2>7. SeenIsOfShare'
    BY <1>1, <2>1 DEF SeenIsOfShare
  <2>8. CopiesExist' /\ AbsentHasNoShares'
    BY <1>3, <2>1, <2>3
  <2> QED BY <2>4, <2>6, <2>7, <2>8 DEF SInv
<1>5. ASSUME NEW c \in copies, c.op \in {"cancel", "expire"}, copies' = copies \ {c},
             NEW row \in BookingRow, row.status # "absent", row.slot \in Slots,
             booking' = [booking EXCEPT ![c.b] = row],
             ~Locked(c.bk.slot), slot' = FreeSlot(c.bk.slot),
             NEW S \in [Friends -> SplitState], splits' = [splits EXCEPT ![c.b] = S],
             \A f \in Friends : splits[c.b][f] # "absent" => S[f] # "absent",
             refunded' = refunded \cup RefundsDue(c),
             UNCHANGED <<now, ledger, ticket, gateway, events, task, reminding, seen, link>>
      PROVE  SInv'
  <2>1. /\ splits' \in [Bookings -> [Friends -> SplitState]]
        /\ \A b \in Bookings : b # c.b => splits'[b] = splits[b]
        /\ \A f \in Friends : splits[c.b][f] # "absent" => splits'[c.b][f] # "absent"
    BY <1>1, <1>2, <1>5 DEF TypeOK
  <2>2. slot' \in [Slots -> SlotRow] /\ \A x \in Slots : Locked(x) => slot'[x] = slot[x]
    BY <1>1, <1>2, <1>5, FreeSlotType
  <2>3. LockInv'
    BY <1>1, <1>2, <1>5, <2>1, <2>2, SaveKeepsLock DEF TypeOK, gateway
  <2>4. refunded' \subseteq Bookings \X Shares
    BY <1>1, <1>2, <1>5, RefundsDueType DEF STypeOK
  <2>5. STypeOK'
    BY <1>1, <1>5, <2>3, <2>4 DEF STypeOK, LockInv, TypeInv
  <2>6. SeenIsOfShare'
    BY <1>1, <1>5 DEF SeenIsOfShare
  <2>7. \A b \in Bookings : booking'[b].status = "absent" <=> booking[b].status = "absent"
    BY <1>1, <1>2, <1>5 DEF TypeOK
  <2>8. CopiesExist' /\ AbsentHasNoShares'
    BY <1>3, <1>5, <2>1, <2>7
  <2> QED BY <2>3, <2>5, <2>6, <2>8 DEF SInv
<1>6. CASE CancelCommit
  <2> DEFINE F(c) == {f \in Friends : <<c.b, f>> \in RefundsDue(c)}
             S(c) == [f \in Friends |-> IF f \in F(c) THEN "refunded" ELSE splits[c.b][f]]
  <2>1. PICK c \in copies :
          /\ c.op = "cancel" /\ ~Locked(c.bk.slot)
          /\ booking' = [booking EXCEPT ![c.b] = [c.bk EXCEPT !.status = "cancelled"]]
          /\ slot' = FreeSlot(c.bk.slot)
          /\ splits' = [splits EXCEPT ![c.b] = S(c)]
          /\ refunded' = refunded \cup RefundsDue(c)
          /\ copies' = copies \ {c}
          /\ UNCHANGED <<now, ledger, ticket, gateway, events, task, reminding, seen, link>>
    BY <1>6 DEF CancelCommit
  <2>2. splits[c.b] \in [Friends -> SplitState]
    BY <1>1, <1>2 DEF TypeOK
  <2>3. /\ S(c) \in [Friends -> SplitState]
        /\ \A f \in Friends : splits[c.b][f] # "absent" => S(c)[f] # "absent"
    BY <2>2 DEF SplitState
  <2>4. [c.bk EXCEPT !.status = "cancelled"] \in BookingRow
        /\ [c.bk EXCEPT !.status = "cancelled"].status # "absent"
        /\ [c.bk EXCEPT !.status = "cancelled"].slot \in Slots
    BY <1>2, <2>1, ClosedRowType
  <2> HIDE DEF S
  <2> QED BY <1>5, <2>1, <2>3, <2>4
<1>7. CASE ExpireCommit
  <2> DEFINE S(c) == [f \in Friends |-> IF splits[c.b][f] = "absent" THEN "absent"
                                                                     ELSE "expired"]
  <2>1. PICK c \in copies :
          /\ c.op = "expire" /\ ~Locked(c.bk.slot)
          /\ booking' = [booking EXCEPT ![c.b] =
                           [c.bk EXCEPT !.status = "expired", !.splitStatus = "expired"]]
          /\ slot' = FreeSlot(c.bk.slot)
          /\ splits' = [splits EXCEPT ![c.b] = S(c)]
          /\ refunded' = refunded \cup RefundsDue(c)
          /\ copies' = copies \ {c}
          /\ UNCHANGED <<now, ledger, ticket, gateway, events, task, reminding, seen, link>>
    BY <1>7 DEF ExpireCommit, Expirable
  <2>2. /\ S(c) \in [Friends -> SplitState]
        /\ \A f \in Friends : splits[c.b][f] # "absent" => S(c)[f] # "absent"
    BY DEF SplitState
  <2>3. LET x == [c.bk EXCEPT !.status = "expired", !.splitStatus = "expired"]
        IN  x \in BookingRow /\ x.status # "absent" /\ x.slot \in Slots
    BY <1>2, <2>1, ClosedRowType
  <2> HIDE DEF S
  <2> QED BY <1>5, <2>1, <2>2, <2>3
<1>8. CASE ExpireLoad
  <2>1. /\ copies' = copies \cup {[op |-> "expire", b |-> b, bk |-> booking[b]] :
                                    b \in {x \in Bookings : Overdue(x)}}
        /\ UNCHANGED <<vars, seen, link, refunded>>
    BY <1>8 DEF ExpireLoad
  <2>2. \A b \in Bookings : Overdue(b) =>
          /\ [op |-> "expire", b |-> b, bk |-> booking[b]] \in Copy
          /\ booking[b].status # "absent" /\ booking[b].slot \in Slots
    BY <1>1 DEF Overdue, TypeOK, ForeignKeys, Copy
  <2>3. STypeOK'
    BY <1>1, <2>1, <2>2, LockNext DEF STypeOK, LockInv, TypeInv
  <2>4. SeenIsOfShare' /\ CopiesExist'
    BY <1>1, <2>1, <2>2 DEF SeenIsOfShare, CopiesExist, vars, rows
  <2> QED BY <2>1, <2>3, <2>4, LooksKeepInv
<1>9. CASE CopyAbort
  <2>1. PICK c \in copies :
          /\ refunded' \in {refunded, refunded \cup RefundsDue(c)}
          /\ copies' = copies \ {c}
          /\ UNCHANGED <<vars, seen, link>>
    BY <1>9 DEF CopyAbort
  <2>2. refunded' \subseteq Bookings \X Shares
    BY <1>1, <1>2, <2>1, RefundsDueType DEF STypeOK
  <2>3. STypeOK'
    BY <1>1, <2>1, <2>2, LockNext DEF STypeOK, LockInv, TypeInv
  <2>4. SeenIsOfShare' /\ CopiesExist'
    BY <1>1, <2>1 DEF SeenIsOfShare, CopiesExist, vars, rows
  <2> QED BY <2>1, <2>3, <2>4, LooksKeepInv
<1> QED BY <1>4, <1>6, <1>7, <1>8, <1>9

LEMMA SNextInv == SInv /\ [SNext]_svars => SInv'
<1> SUFFICES ASSUME SInv, [SNext]_svars PROVE SInv'
  OBVIOUS
<1>1. CASE UNCHANGED svars
  <2>1. UNCHANGED <<vars, seen, link, copies, refunded>> /\ STypeOK'
    BY <1>1, LockNext DEF svars, SInv, STypeOK, LockInv, TypeInv
  <2> QED BY <2>1, LooksKeepInv DEF SInv, SeenIsOfShare, CopiesExist, vars, rows
<1> QED BY <1>1, CheckoutStepInv, CustomersInv, SplitStepInv, CopyStepInv DEF SNext

LEMMA SInvariant == SSpec => []SInv
BY SInitInv, SNextInv, PTL DEF SSpec

(* The rows of split bookings, what the webhooks have seen of them and the *)
(* copies the declines, cancellations and the cron will save keep their    *)
(* types, in every environment.                                            *)
THEOREM SplitTypeCorrect == SSpec => []STypeOK
<1>1. SInv => STypeOK
  BY DEF SInv
<1> QED BY <1>1, SInvariant, PTL
-----------------------------------------------------------------------------
(* No checkout takes a held slot.                                          *)

(* Customers pay and load copies, and change no row but a link.            *)
LEMMA CustomersKeep ==
  Customers => UNCHANGED <<now, slot, booking, splits, ledger, ticket, acked, events, task,
                           reminding, seen, refunded>>
<1> SUFFICES ASSUME NEW b \in Bookings,
                    \/ \E f \in Friends : VerifySplitToken(b, f) \/ DeclineLoad(b, f)
                    \/ \E p \in Shares, o \in {"success", "failed"} : PayShare(b, p, o)
                    \/ CancelLoad(b)
             PROVE  UNCHANGED <<now, slot, booking, splits, ledger, ticket, acked, events,
                                task, reminding, seen, refunded>>
  BY DEF Customers
<1>1. ASSUME NEW f \in Friends, VerifySplitToken(b, f) \/ DeclineLoad(b, f)
      PROVE  UNCHANGED <<vars, seen, refunded>>
  BY <1>1 DEF VerifySplitToken, DeclineLoad
<1>2. ASSUME NEW p \in Shares, NEW o \in {"success", "failed"}, PayShare(b, p, o)
      PROVE  UNCHANGED <<now, rows, acked, events, task, reminding, seen, refunded>>
  BY <1>2 DEF PayShare, Produce
<1>3. CASE CancelLoad(b)
  BY <1>3 DEF CancelLoad, vars, rows, gateway
<1>4. CASE \E f \in Friends : VerifySplitToken(b, f) \/ DeclineLoad(b, f)
  BY <1>1, <1>4 DEF vars, rows, gateway
<1>5. CASE \E p \in Shares, o \in {"success", "failed"} : PayShare(b, p, o)
  BY <1>2, <1>5 DEF rows
<1> QED BY <1>3, <1>4, <1>5

(* Saving a decline, loading and giving up a copy change no other row.     *)
LEMMA CopyingKeeps ==
  DeclineSave \/ ExpireLoad \/ CopyAbort \/ UNCHANGED svars =>
    UNCHANGED <<now, slot, booking, ledger, ticket, sent, acked, events, task, reminding, seen>>
<1>1. CASE DeclineSave
  BY <1>1 DEF DeclineSave, gateway
<1>2. CASE ExpireLoad \/ CopyAbort
  BY <1>2 DEF ExpireLoad, CopyAbort, vars, rows, gateway
<1>3. CASE UNCHANGED svars
  BY <1>3 DEF svars, vars, rows, gateway
<1> QED BY <1>1, <1>2, <1>3

(* Nothing but CreateBooking makes a booking.                              *)
LEMMA OnlyCheckoutCreates ==
  ASSUME SInv, [SNext]_svars, NEW b \in Bookings, booking[b].status = "absent"
  PROVE  [Next]_vars \/ booking'[b] = booking[b]
<1>1. STypeOK /\ TypeOK /\ TypeInv /\ ForeignKeys
  BY DEF SInv, LockInv, TypeInv
<1>2. ASSUME NEW w \in Workers, SplitStep(w) PROVE booking'[b] = booking[b]
  <2>1. task[w].op \in {"loaded", "stripe_loaded"}
    BY <1>2 DEF SplitStep, PaymentSplitMark, PaymentSplitCommit, PaymentSplitFailed,
                StripeSplitMark, StripeSplitRead, StripeSplitFinish
  <2>2. task[w].e.b \in Bookings /\ task[w].e.b # b
    BY <1>1, <2>1, LoadedTask DEF ForeignKeys
  <2> QED BY <1>1, <1>2, <2>2
          DEF SplitStep, PaymentSplitMark, PaymentSplitCommit, PaymentSplitFailed,
              StripeSplitMark, StripeSplitRead, StripeSplitFinish, TypeOK, vars, rows
<1>3. CASE CancelCommit \/ ExpireCommit
  <2>1. \A c \in copies : c.b # b
    BY DEF SInv, CopiesExist
  <2> QED BY <1>1, <1>3, <2>1 DEF CancelCommit, ExpireCommit, Expirable, TypeOK
<1>4. CASE \/ Customers \/ DeclineSave \/ ExpireLoad \/ CopyAbort \/ UNCHANGED svars
  BY <1>4, CustomersKeep, CopyingKeeps
<1> QED BY <1>2, <1>3, <1>4 DEF SNext, CheckoutStep

(* CreateBooking takes no slot that is sold or under a live hold, although *)
(* webhooks of shares, cancellations and the expiry cron save the same     *)
(* rows from copies they loaded earlier.                                   *)
THEOREM HoldIsNotStolenBySplits == SSpec => NoHoldStolen
<1>1. ASSUME SInv, [SNext]_svars
      PROVE  [TakesFreeSlots]_vars
  <2>1. CASE [Next]_vars
    BY <1>1, <2>1, NextTakesFreeSlots DEF SInv
  <2>2. CASE ~[Next]_vars
    <3>1. \A b \in Bookings : booking[b].status = "absent" => booking'[b] = booking[b]
      BY <1>1, <2>2, OnlyCheckoutCreates
    <3> QED BY <3>1 DEF TakesFreeSlots
  <2> QED BY <2>1, <2>2
<1> QED BY <1>1, SInvariant, PTL DEF SSpec, NoHoldStolen, TakesFreeSlots
-----------------------------------------------------------------------------
(* A confirmed split booking is paid.                                      *)

(***************************************************************************)
(* InFlight: a row of booking b that is in the table, or that a webhook,   *)
(* the reminder, a cancellation or the cron has loaded and may save.  A    *)
(* row is good when what it says of payments is true.  No row that is in   *)
(* flight goes bad, because a share that is paid stays paid for, and every *)
(* save writes a good row.                                                 *)
(***************************************************************************)
Settled(b, f) == splits[b][f] = "absent" \/ HasPaid(b, f)
BillPaid(b) == HasPaid(b, "primary") /\ \A f \in Friends : Settled(b, f)

LoadedOps == {"loaded", "ticketed", "stripe_loaded", "stripe_saved"}
InFlight(b, row) ==
  \/ row = booking[b]
  \/ \E w \in Workers : task[w].op \in LoadedOps /\ task[w].e.b = b /\ task[w].bk = row
  \/ \E r \in reminding : r.b = b /\ r.bk = row
  \/ \E c \in copies : c.op # "decline" /\ c.b = b /\ c.bk = row

SameOrder(x, y) == x.kind = y.kind /\ x.bookedAt = y.bookedAt
GoodRow(b, row) == row.status # "absent" =>
  /\ SameOrder(row, booking[b])
  /\ row.primaryPaid => HasPaid(b, "primary")
  /\ row.status = "confirmed" /\ row.kind = "split" => BillPaid(b)
RowsAreGood ==
  \A b \in Bookings, row \in BookingRow : InFlight(b, row) => GoodRow(b, row)

\* A result is of the whole price or of a share, as its booking is.
PartsMatch == \A e \in sent : e.part = "full" <=> booking[e.b].kind # "split"

\* A share marked paid was paid, and a share a webhook did not find unpaid
\* was paid or there is none.
SharesPaid ==
  \A b \in Bookings, f \in Friends : splits[b][f] = "paid" => HasPaid(b, f)
SeenPaid ==
  \A w \in Workers : seen[w].stage = "read" =>
    \A f \in Friends \ seen[w].unpaid : Settled(task[w].e.b, f)

BillInv == SInv /\ RowsAreGood /\ PartsMatch /\ SharesPaid /\ SeenPaid

(* What a step does not take back, and which rows it may bring in.         *)
Grows ==
  /\ sent \subseteq sent'
  /\ \A b \in Bookings : booking[b].status # "absent" =>
       /\ SameOrder(booking'[b], booking[b])
       /\ \A f \in Friends : Settled(b, f) => Settled(b, f)'
Brings ==
  \A b \in Bookings, row \in BookingRow :
    InFlight(b, row)' => InFlight(b, row) \/ GoodRow(b, row)'

LEMMA FlightsExist ==
  ASSUME SInv, NEW b \in Bookings, NEW row, InFlight(b, row)
  PROVE  row = booking[b] \/ booking[b].status # "absent"
<1>1. TypeInv /\ ForeignKeys
  BY DEF SInv, LockInv, TypeInv
<1>2. \A w \in Workers : task[w].op \in LoadedOps => booking[task[w].e.b].status # "absent"
  BY <1>1, LoadedTask DEF ForeignKeys, LoadedOps
<1> QED BY <1>1, <1>2 DEF InFlight, ForeignKeys, SInv, CopiesExist

LEMMA GoodStays ==
  ASSUME Grows, NEW b \in Bookings, NEW row \in BookingRow, GoodRow(b, row),
         booking[b].status # "absent" \/ row.status = "absent"
  PROVE  GoodRow(b, row)'
BY DEF GoodRow, SameOrder, Grows, BillPaid, HasPaid

LEMMA RowsStayGood ==
  ASSUME SInv, RowsAreGood, Grows, Brings
  PROVE  RowsAreGood'
<1> SUFFICES ASSUME NEW b \in Bookings, NEW row \in BookingRow, InFlight(b, row)'
             PROVE  GoodRow(b, row)'
  BY DEF RowsAreGood
<1>1. CASE InFlight(b, row)
  <2>1. booking[b].status # "absent" \/ row.status = "absent"
    BY <1>1, FlightsExist
  <2> QED BY <1>1, <2>1, GoodStays DEF RowsAreGood
<1>2. CASE GoodRow(b, row)'
  BY <1>2
<1> QED BY <1>1, <1>2 DEF Brings

LEMMA BillKept ==
  ASSUME BillInv, SInv', Grows, Brings, SharesPaid',
         \A e \in sent' : e \in sent \/
           (booking[e.b].status # "absent" /\ (e.part = "full" <=> booking[e.b].kind # "split")),
         \A w \in Workers : seen'[w].stage = "read" =>
           \/ seen'[w] = seen[w] /\ task'[w].e = task[w].e
           \/ (\A f \in Friends \ seen[w].unpaid : Settled(task[w].e.b, f))'
  PROVE  BillInv'
<1>1. /\ SInv /\ STypeOK /\ TypeOK /\ TypeInv /\ ForeignKeys /\ SeenIsOfShare
      /\ TypeOK' /\ ForeignKeys'
  BY DEF BillInv, SInv, LockInv, TypeInv
<1>2. RowsAreGood'
  BY <1>1, RowsStayGood DEF BillInv
<1>3. PartsMatch'
  <2>1. \A e \in sent' : e.b \in Bookings
    BY <1>1 DEF TypeOK, Result
  <2>2. \A e \in sent : booking[e.b].status # "absent"
    BY <1>1 DEF ForeignKeys
  <2> QED BY <2>1, <2>2 DEF BillInv, PartsMatch, Grows, SameOrder
<1>4. SeenPaid'
  <2> SUFFICES ASSUME NEW w \in Workers, seen'[w].stage = "read",
                      seen'[w] = seen[w], task'[w].e = task[w].e,
                      NEW f \in Friends \ seen[w].unpaid
               PROVE  Settled(task[w].e.b, f)'
    BY DEF SeenPaid
  <2>1. seen[w] # Nothing
    BY DEF Nothing, Look
  <2>2. task[w].op \in LoadedOps
    BY <1>1, <2>1 DEF SeenIsOfShare, LoadedOps
  <2>3. task[w].e.b \in Bookings /\ booking[task[w].e.b].status # "absent"
    BY <1>1, <2>2, LoadedTask DEF ForeignKeys, LoadedOps
  <2>4. Settled(task[w].e.b, f)
    BY DEF BillInv, SeenPaid
  <2> QED BY <2>3, <2>4 DEF Grows
<1> QED BY <1>2, <1>3, <1>4 DEF BillInv

LEMMA BillInit == ASSUME SInit PROVE BillInv
<1>1. SInv
  BY SInitInv
<1>2. RowsAreGood
  BY DEF SInit, Init, RowsAreGood, InFlight, GoodRow, Absent, Idle, LoadedOps
<1> QED BY <1>1, <1>2
        DEF SInit, Init, BillInv, PartsMatch, SharesPaid, SeenPaid, Nothing, Look

(* A row that a step writes is the row of its booking afterwards, and a    *)
(* copy that stays with its owner was in flight before.                    *)
LEMMA WriteFlights ==
  ASSUME SInv, NEW b \in Bookings, NEW row \in BookingRow,
         booking' = [booking EXCEPT ![b] = row] \/ booking' = booking,
         \A w \in Workers : task'[w].op \in LoadedOps =>
           \/ InFlight(task'[w].e.b, task'[w].bk)
           \/ task[w].op \in LoadedOps /\ task'[w].e = task[w].e /\ task'[w].bk = task[w].bk,
         \A r \in reminding' : r \in reminding \/ InFlight(r.b, r.bk),
         \A c \in copies' : c \in copies \/ c.op = "decline" \/ InFlight(c.b, c.bk)
  PROVE  \A x \in Bookings, z \in BookingRow :
           InFlight(x, z)' => \/ InFlight(x, z)
                              \/ /\ booking' = [booking EXCEPT ![b] = row]
                                 /\ x = b /\ z = row /\ z = booking'[x]
<1>1. TypeOK
  BY DEF SInv, LockInv, TypeInv
<1> SUFFICES ASSUME NEW x \in Bookings, NEW z \in BookingRow, InFlight(x, z)'
             PROVE  \/ InFlight(x, z)
                    \/ /\ booking' = [booking EXCEPT ![b] = row]
                       /\ x = b /\ z = row /\ z = booking'[x]
  OBVIOUS
<1>2. CASE z = booking'[x]
  <2>1. CASE booking' = [booking EXCEPT ![b] = row] /\ x = b
    BY <1>1, <1>2, <2>1 DEF InFlight, TypeOK
  <2>2. CASE booking' = booking \/ x # b
    BY <1>1, <1>2, <2>2 DEF InFlight, TypeOK
  <2> QED BY <2>1, <2>2
<1>3. ASSUME NEW w \in Workers, task'[w].op \in LoadedOps, task'[w].e.b = x, task'[w].bk = z
      PROVE  InFlight(x, z)
  BY <1>3 DEF InFlight
<1>4. ASSUME NEW r \in reminding', r.b = x, r.bk = z PROVE InFlight(x, z)
  BY <1>4 DEF InFlight
<1>5. ASSUME NEW c \in copies', c.op # "decline", c.b = x, c.bk = z PROVE InFlight(x, z)
  BY <1>5 DEF InFlight
<1> QED BY <1>2, <1>3, <1>4, <1>5 DEF InFlight

LEMMA WriteBrings ==
  ASSUME SInv, NEW b \in Bookings, NEW row \in BookingRow,
         \/ booking' = [booking EXCEPT ![b] = row] /\ (row = booking[b] \/ GoodRow(b, row)')
         \/ booking' = booking,
         \A w \in Workers : task'[w].op \in LoadedOps =>
           \/ InFlight(task'[w].e.b, task'[w].bk)
           \/ task[w].op \in LoadedOps /\ task'[w].e = task[w].e /\ task'[w].bk = task[w].bk,
         \A r \in reminding' : r \in reminding \/ InFlight(r.b, r.bk),
         \A c \in copies' : c \in copies \/ c.op = "decline" \/ InFlight(c.b, c.bk)
  PROVE  Brings
<1>1. \A x \in Bookings, z \in BookingRow :
        InFlight(x, z)' => \/ InFlight(x, z)
                           \/ /\ booking' = [booking EXCEPT ![b] = row]
                              /\ x = b /\ z = row /\ z = booking'[x]
  BY WriteFlights
<1>2. booking[b] = row => InFlight(b, row)
  BY DEF InFlight
<1>3. booking' = booking /\ row = booking'[b] => row = booking[b]
  OBVIOUS
<1> QED BY <1>1, <1>2, <1>3 DEF Brings

(***************************************************************************)
(* A step of Checkout writes a new booking, or saves a row that was in     *)
(* flight: it changes the status of none that is of a split booking.       *)
(***************************************************************************)
Saved(b, row) ==
  \E old \in BookingRow :
    /\ InFlight(b, old) /\ old.status # "absent"
    /\ SameOrder(row, old) /\ row.primaryPaid = old.primaryPaid
    /\ row.status = old.status \/ (row.kind # "split" /\ booking[b].kind # "split")
Created(b, row) ==
  /\ booking[b].status = "absent" /\ row = booking'[b]
  /\ row.status = "pending" /\ ~row.primaryPaid
Flights ==
  \A b \in Bookings, row \in BookingRow :
    InFlight(b, row)' => InFlight(b, row) \/ Saved(b, row) \/ Created(b, row)

LEMMA CheckoutFlights ==
  ASSUME BillInv, [Next]_vars, copies' = copies
  PROVE  Flights
<1>1. /\ SInv /\ LockInv /\ TypeOK /\ TypeInv /\ ForeignKeys
      /\ RowsAreGood /\ PartsMatch
  BY DEF BillInv, SInv, LockInv, TypeInv
<1>2. ASSUME NEW b \in Bookings, NEW row \in BookingRow,
             booking' = [booking EXCEPT ![b] = row],
             Saved(b, row) \/ Created(b, row),
             \A w \in Workers : task'[w].op \in LoadedOps => task'[w] = task[w],
             reminding' \subseteq reminding
      PROVE  Flights
  <2>1. \A x \in Bookings, z \in BookingRow :
          InFlight(x, z)' => InFlight(x, z) \/ (x = b /\ z = row)
    BY <1>1, <1>2, WriteFlights
  <2> QED BY <1>2, <2>1 DEF Flights
<1>3. ASSUME booking' = booking,
             \A w \in Workers : task'[w].op \in LoadedOps =>
               \/ InFlight(task'[w].e.b, task'[w].bk)
               \/ task[w].op \in LoadedOps /\ task'[w].e = task[w].e
                  /\ task'[w].bk = task[w].bk,
             \A r \in reminding' : r \in reminding \/ InFlight(r.b, r.bk)
      PROVE  Flights
  <2>1. ASSUME NEW x \in Bookings, NEW z \in BookingRow, InFlight(x, z)'
        PROVE  InFlight(x, z)
    <3>1. booking[x] \in BookingRow /\ (booking[x] = z => InFlight(x, z))
      BY <1>1 DEF TypeOK, InFlight
    <3>2. InFlight(x, z) \/ z = booking'[x]
      BY <1>1, <1>3, <2>1, <3>1, WriteFlights
    <3> QED BY <1>3, <3>1, <3>2
  <2> QED BY <2>1 DEF Flights
<1>4. ASSUME NEW w \in Workers, task[w].op \in LoadedOps,
             task[w].e.part = "full",
             booking' = [booking EXCEPT ![task[w].e.b] = NewBooking(task[w])],
             \A v \in Workers : task'[v].op \in LoadedOps => task'[v] = task[v],
             reminding' = reminding
      PROVE  Flights
  <2>1. /\ task[w].e.b \in Bookings /\ task[w].e \in sent /\ task[w].bk \in BookingRow
        /\ NewBooking(task[w]) \in BookingRow /\ task[w].bk.status # "absent"
    BY <1>1, <1>4, LoadedTask DEF ForeignKeys, LoadedOps
  <2>2. PICK b \in Bookings, bk \in BookingRow, row \in BookingRow :
          b = task[w].e.b /\ bk = task[w].bk /\ row = NewBooking(task[w])
    BY <2>1
  <2>3. InFlight(b, bk)
    BY <1>4, <2>2 DEF InFlight
  <2>4. bk.status # "absent" /\ bk.kind = booking[b].kind /\ booking[b].kind # "split"
    BY <1>1, <1>4, <2>1, <2>2, <2>3 DEF RowsAreGood, GoodRow, PartsMatch, SameOrder
  <2>5. SameOrder(row, bk) /\ row.primaryPaid = bk.primaryPaid
    BY <2>2 DEF NewBooking, BookingRow, SameOrder
  <2>6. Saved(b, row)
    BY <2>3, <2>4, <2>5 DEF Saved, SameOrder
  <2>7. booking' = [booking EXCEPT ![b] = row]
    BY <1>4, <2>2
  <2> QED BY <1>2, <1>4, <2>6, <2>7
<1>5. ASSUME NEW w \in Workers, CreateBookingCommit(w) PROVE Flights
  <2>1. /\ task[w].b \in Bookings /\ task[w].s \in Slots /\ task[w].kind \in AllKinds
        /\ booking[task[w].b].status = "absent"
    BY <1>1, <1>5, CreatingTask DEF CreateBookingCommit, LockInv, CopyIsCurrent
  <2>2. PICK b \in Bookings, row \in BookingRow :
          /\ b = task[w].b
          /\ row = [Absent EXCEPT !.slot = task[w].s, !.kind = task[w].kind,
                      !.status = "pending", !.bookedAt = now,
                      !.splitStatus = IF task[w].kind = "split" THEN "pending"
                                                                ELSE "none"]
    BY <1>1, <2>1 DEF Absent, BookingRow, Status, TypeOK
  <2>3. booking' = [booking EXCEPT ![b] = row] /\ booking'[b] = row
    BY <1>1, <1>5, <2>2 DEF CreateBookingCommit, TypeOK
  <2>4. row.status = "pending" /\ ~row.primaryPaid
    BY <2>2 DEF Absent
  <2>5. Created(b, row)
    BY <2>1, <2>2, <2>3, <2>4 DEF Created
  <2>6. \A v \in Workers : task'[v].op \in LoadedOps => task'[v] = task[v]
    BY <1>1, <1>5 DEF CreateBookingCommit, Finish, Idle, LoadedOps, TypeOK
  <2> QED BY <1>2, <1>5, <2>3, <2>5, <2>6 DEF CreateBookingCommit
<1>6. ASSUME NEW w \in Workers, PaymentWebhookCommit(w) \/ StripeWebhookSaveBooking(w)
      PROVE  Flights
  <2>1. \A v \in Workers : task'[v].op \in LoadedOps => task'[v] = task[v]
    BY <1>1, <1>6 DEF PaymentWebhookCommit, StripeWebhookSaveBooking, Finish, Idle,
                      LoadedOps, TypeOK
  <2> QED BY <1>4, <1>6, <2>1
          DEF PaymentWebhookCommit, StripeWebhookSaveBooking, LoadedOps
<1>7. CASE ReminderSave
  <2>1. PICK r \in reminding :
          /\ booking' = [booking EXCEPT ![r.b] = [r.bk EXCEPT !.reminded = TRUE]]
          /\ reminding' = reminding \ {r}
          /\ UNCHANGED <<now, slot, splits, ledger, ticket, gateway, events, task>>
    BY <1>7 DEF ReminderSave
  <2>2. r.b \in Bookings /\ r.bk \in BookingRow /\ InFlight(r.b, r.bk)
        /\ r.bk.status # "absent"
    BY <1>1, <2>1 DEF TypeOK, ForeignKeys, InFlight
  <2>3. PICK row \in BookingRow : row = [r.bk EXCEPT !.reminded = TRUE]
    BY <2>2 DEF BookingRow
  <2>4. /\ SameOrder(row, r.bk) /\ row.status = r.bk.status
        /\ row.primaryPaid = r.bk.primaryPaid
    BY <2>2, <2>3 DEF BookingRow, SameOrder
  <2>5. PICK b \in Bookings, old \in BookingRow : b = r.b /\ old = r.bk
    BY <2>2
  <2>6. Saved(b, row)
    BY <2>2, <2>4, <2>5 DEF Saved
  <2>7. booking' = [booking EXCEPT ![b] = row]
    BY <2>1, <2>3, <2>5, Zenon
  <2> QED BY <1>2, <2>1, <2>6, <2>7
<1>8. ASSUME NEW w \in Workers, NEW t, booking' = booking, reminding' = reminding,
             task' = [task EXCEPT ![w] = t],
             t.op \in LoadedOps =>
               \/ InFlight(t.e.b, t.bk)
               \/ task[w].op \in LoadedOps /\ t.e = task[w].e /\ t.bk = task[w].bk
      PROVE  Flights
  <2>1. \A v \in Workers : task'[v].op \in LoadedOps =>
          \/ InFlight(task'[v].e.b, task'[v].bk)
          \/ task[v].op \in LoadedOps /\ task'[v].e = task[v].e /\ task'[v].bk = task[v].bk
    BY <1>1, <1>8 DEF TypeOK
  <2> QED BY <1>3, <1>8, <2>1
<1>9. ASSUME NEW w \in Workers,
             \/ PaymentWebhookLoad(w) \/ PaymentWebhookTicket(w)
             \/ StripeWebhookSaveSlot(w) \/ Failure(w)
             \/ \E e \in sent : Deliver(w, e)
             \/ \E b \in Bookings, s \in Slots, k \in Kinds, F \in SUBSET Friends :
                  CreateBookingLock(w, b, s, k, F)
      PROVE  Flights
  <2>1. CASE PaymentWebhookLoad(w)
    BY <1>8, <2>1 DEF PaymentWebhookLoad, InFlight, rows
  <2>2. CASE StripeWebhookSaveSlot(w)
    <3>1. task[w] \in Loaded
      BY <1>1, <2>2, LoadedTask DEF StripeWebhookSaveSlot
    <3> QED BY <1>8, <2>2, <3>1 DEF StripeWebhookSaveSlot, LoadedOps, Loaded
  <2>3. CASE Failure(w)
    BY <1>8, <2>3 DEF Failure, CreateBookingRollback, PaymentWebhookAbort,
                      StripeWebhookAbort, Finish, Idle, LoadedOps, rows
  <2>4. CASE \E e \in sent : Deliver(w, e)
    <3>1. PICK e \in sent : Deliver(w, e)
      BY <2>4
    <3>2. CASE PaymentWebhookSkip(w, e)
      BY <1>3, <3>2 DEF PaymentWebhookSkip, rows
    <3>3. CASE PaymentWebhookCheck(w, e)
      BY <1>8, <3>3 DEF PaymentWebhookCheck, LoadedOps, rows
    <3>4. CASE StripeWebhookLoad(w, e)
      BY <1>8, <3>4 DEF StripeWebhookLoad, InFlight, rows
    <3> QED BY <3>1, <3>2, <3>3, <3>4 DEF Deliver
  <2>5. CASE \E b \in Bookings, s \in Slots, k \in Kinds, F \in SUBSET Friends :
               CreateBookingLock(w, b, s, k, F)
    BY <1>8, <2>5 DEF CreateBookingLock, LoadedOps, rows
  <2>6. CASE PaymentWebhookTicket(w)
    <3>1. task[w] \in Loaded /\ task[w].op = "loaded"
      BY <1>1, <2>6, LoadedTask DEF PaymentWebhookTicket
    <3> QED BY <1>8, <2>6, <3>1 DEF PaymentWebhookTicket, LoadedOps, Loaded
  <2> QED BY <1>9, <2>1, <2>2, <2>3, <2>4, <2>5, <2>6
<1>10. CASE ReminderLoad
  BY <1>3, <1>10 DEF ReminderLoad, InFlight, rows
<1>11. CASE Environment \/ UNCHANGED vars
  BY <1>3, <1>11 DEF Environment, Tick, PayInFull, Produce, GetDigitalTicket, vars, rows
<1> QED BY <1>5, <1>6, <1>7, <1>9, <1>10, <1>11 DEF Next, Start, Continue, Step

(* What the webhooks of full payments and the reminder write is good.      *)
LEMMA CheckoutBrings ==
  ASSUME BillInv, [Next]_vars, copies' = copies, sent \subseteq sent',
         \A b \in Bookings : booking[b].status # "absent" => splits'[b] = splits[b]
  PROVE  /\ Brings
         /\ \A b \in Bookings : booking[b].status # "absent" =>
              SameOrder(booking'[b], booking[b])
<1>1. /\ SInv /\ LockInv /\ TypeOK /\ TypeOK' /\ RowsAreGood /\ Flights
  BY LockNext, CheckoutFlights DEF BillInv, SInv, LockInv, TypeInv
<1>2. ASSUME NEW b \in Bookings, NEW row \in BookingRow, Saved(b, row)
      PROVE  /\ booking[b].status # "absent" /\ SameOrder(row, booking[b])
             /\ row.primaryPaid => HasPaid(b, "primary")
             /\ row.status = "confirmed" /\ row.kind = "split" => BillPaid(b)
  <2>1. PICK old \in BookingRow :
          /\ InFlight(b, old) /\ old.status # "absent" /\ GoodRow(b, old)
          /\ SameOrder(row, old) /\ row.primaryPaid = old.primaryPaid
          /\ row.status = old.status \/ row.kind # "split"
    BY <1>1, <1>2 DEF Saved, RowsAreGood
  <2>2. booking[b].status # "absent"
    BY <1>1, <2>1, FlightsExist
  <2> QED BY <2>1, <2>2 DEF GoodRow, SameOrder
<1>3. \A b \in Bookings : booking[b].status # "absent" =>
        /\ booking'[b].status # "absent" /\ SameOrder(booking'[b], booking[b])
  <2> SUFFICES ASSUME NEW b \in Bookings, booking[b].status # "absent"
               PROVE  booking'[b].status # "absent" /\ SameOrder(booking'[b], booking[b])
    OBVIOUS
  <2>1. booking'[b].status # "absent" /\ booking'[b] \in BookingRow
    BY <1>1, CheckoutKeepsShares DEF TypeOK
  <2>2. InFlight(b, booking'[b]) \/ Saved(b, booking'[b])
    BY <1>1, <2>1 DEF Flights, InFlight, Created
  <2> QED BY <1>1, <1>2, <2>1, <2>2 DEF RowsAreGood, GoodRow
<1>4. ASSUME NEW b \in Bookings, NEW row \in BookingRow, Saved(b, row) \/ Created(b, row)
      PROVE  GoodRow(b, row)'
  <2>1. CASE Saved(b, row)
    <3>1. /\ booking[b].status # "absent" /\ SameOrder(row, booking[b])
          /\ row.primaryPaid => HasPaid(b, "primary")
          /\ row.status = "confirmed" /\ row.kind = "split" => BillPaid(b)
      BY <1>2, <2>1
    <3>2. SameOrder(row, booking'[b]) /\ splits'[b] = splits[b]
      BY <1>3, <3>1 DEF SameOrder
    <3> QED BY <3>1, <3>2 DEF GoodRow, BillPaid, Settled, HasPaid
  <2>2. CASE Created(b, row)
    BY <2>2 DEF Created, GoodRow, SameOrder
  <2> QED BY <1>4, <2>1, <2>2
<1> QED BY <1>1, <1>3, <1>4 DEF Flights, Brings

(* What a step of Checkout does to the results and the shares.             *)
LEMMA CheckoutSends ==
  ASSUME TypeOK, [Next]_vars
  PROVE  /\ sent \subseteq sent'
         /\ \A e \in sent' : e \in sent \/
              (booking[e.b].status # "absent" /\ booking[e.b].kind # "split"
                 /\ e.part = "full")
         /\ \A b \in Bookings, f \in Friends :
              splits'[b][f] = "paid" => splits[b][f] = "paid"
<1>1. CASE Environment
  <2>1. CASE Tick
    BY <2>1 DEF Tick, rows, gateway
  <2>2. CASE \E b \in Bookings, o \in {"success", "failed"} : PayInFull(b, o)
    <3>1. PICK b \in Bookings, o \in {"success", "failed"} : PayInFull(b, o)
      BY <2>2
    <3>2. /\ sent' = sent \cup {[b |-> b, part |-> "full", outcome |-> o]}
          /\ booking[b].kind # "split" /\ booking[b].status # "absent"
          /\ splits' = splits
      BY <3>1 DEF PayInFull, Produce, rows
    <3> QED BY <3>2
  <2>3. CASE \E b \in Bookings : GetDigitalTicket(b)
    BY <2>3 DEF GetDigitalTicket, gateway
  <2> QED BY <1>1, <2>1, <2>2, <2>3 DEF Environment
<1>2. ASSUME NEW w \in Workers, CreateBookingCommit(w)
      PROVE  /\ sent' = sent
             /\ \A b \in Bookings, f \in Friends :
                  splits'[b][f] = "paid" => splits[b][f] = "paid"
  <2>1. PICK x \in Bookings, y \in SUBSET Friends :
          splits' = [splits EXCEPT ![x] = [f \in Friends |-> IF f \in y THEN "pending"
                                                                      ELSE "absent"]]
    <3>1. task[w].b \in Bookings /\ task[w].friends \in SUBSET Friends
      BY <1>2, CreatingTask DEF CreateBookingCommit
    <3> QED BY <1>2, <3>1 DEF CreateBookingCommit
  <2>2. ASSUME NEW b \in Bookings, NEW f \in Friends, splits'[b][f] = "paid"
        PROVE  splits[b][f] = "paid"
    <3>1. CASE b = x
      BY <2>1, <2>2, <3>1 DEF TypeOK
    <3>2. CASE b # x
      BY <2>1, <2>2, <3>2 DEF TypeOK
    <3> QED BY <3>1, <3>2
  <2> QED BY <1>2, <2>2 DEF CreateBookingCommit, gateway
<1>3. CASE Start \/ UNCHANGED vars
  BY <1>3 DEF Start, CreateBookingLock, Deliver, PaymentWebhookSkip,
              PaymentWebhookCheck, StripeWebhookLoad, ReminderLoad, vars, rows, gateway
<1>4. ASSUME NEW w \in Workers, Step(w), ~CreateBookingCommit(w)
      PROVE  sent' = sent /\ splits' = splits
  BY <1>4 DEF Step, PaymentWebhookLoad, PaymentWebhookTicket, PaymentWebhookCommit,
              StripeWebhookSaveSlot, StripeWebhookSaveBooking, rows, gateway
<1>5. ASSUME NEW w \in Workers, Failure(w)
      PROVE  sent' = sent /\ splits' = splits
  BY <1>5 DEF Failure, CreateBookingRollback, PaymentWebhookAbort, StripeWebhookAbort,
              rows, gateway
<1>6. CASE ReminderSave
  BY <1>6 DEF ReminderSave, gateway
<1>7. CASE \E w \in Workers : Step(w) \/ Failure(w)
  <2>1. PICK w \in Workers : Step(w) \/ Failure(w)
    BY <1>7
  <2> QED BY <1>2, <1>4, <1>5, <2>1
<1> QED BY <1>1, <1>3, <1>6, <1>7 DEF Next, Continue

LEMMA CheckoutBill == ASSUME BillInv, CheckoutStep PROVE BillInv' /\ Grows
<1>1. /\ SInv /\ LockInv /\ TypeInv /\ TypeOK /\ SeenIsOfShare /\ SharesPaid
      /\ STypeOK
  BY DEF BillInv, SInv, LockInv, TypeInv
<1>2. SInv' /\ [Next]_vars /\ copies' = copies
  BY <1>1, SNextInv DEF CheckoutStep, SNext
<1>3. /\ sent \subseteq sent'
      /\ \A e \in sent' : e \in sent \/
           (booking[e.b].status # "absent" /\ booking[e.b].kind # "split"
              /\ e.part = "full")
      /\ \A b \in Bookings, f \in Friends :
           splits'[b][f] = "paid" => splits[b][f] = "paid"
  BY <1>1, <1>2, CheckoutSends
<1>4. Grows /\ Brings
  <2>1. \A b \in Bookings : booking[b].status # "absent" => splits'[b] = splits[b]
    BY <1>1, <1>2, CheckoutKeepsShares
  <2>2. /\ Brings
        /\ \A b \in Bookings : booking[b].status # "absent" =>
             SameOrder(booking'[b], booking[b])
    BY <1>2, <1>3, <2>1, CheckoutBrings
  <2> QED BY <1>3, <2>1, <2>2 DEF Grows, Settled, HasPaid
<1>5. SharesPaid'
  BY <1>1, <1>3 DEF SharesPaid, HasPaid
<1>6. ASSUME NEW w \in Workers, seen'[w].stage = "read"
      PROVE  seen'[w] = seen[w] /\ task'[w].e = task[w].e
  <2>1. seen'[w] = IF task'[w] = Idle THEN Nothing ELSE seen[w]
    BY DEF CheckoutStep
  <2>2. seen'[w] = seen[w] /\ task'[w] # Idle /\ seen[w] # Nothing
    BY <1>6, <2>1 DEF Nothing, Look
  <2>3. task[w].op \in {"loaded", "stripe_loaded"} /\ task[w].e.part # "full"
    BY <1>1, <2>2 DEF SeenIsOfShare
  <2>4. task'[w] = task[w] \/ task'[w] = Idle
    BY <1>1, <1>2, <2>3, ShareTaskStays
  <2> QED BY <2>2, <2>4
<1> QED BY <1>2, <1>3, <1>4, <1>5, <1>6, BillKept

(* A step that writes no row: it may report a payment, look at the shares, *)
(* or load rows.                                                           *)
LEMMA QuietBill ==
  ASSUME BillInv, SInv', booking' = booking, splits' = splits,
         task' = task, reminding' = reminding, sent \subseteq sent',
         \A e \in sent' : e \in sent \/
           (booking[e.b].status # "absent" /\ (e.part = "full" <=> booking[e.b].kind # "split")),
         \A c \in copies' : c \in copies \/ c.op = "decline" \/ InFlight(c.b, c.bk),
         \A w \in Workers : seen'[w].stage = "read" =>
           \/ seen'[w] = seen[w]
           \/ \A f \in Friends \ seen'[w].unpaid : Settled(task[w].e.b, f)
  PROVE  BillInv' /\ Grows
<1>1. SInv /\ TypeOK /\ TypeInv /\ SharesPaid
  BY DEF BillInv, SInv, LockInv, TypeInv
<1>2. Brings
  <2>1. ASSUME NEW b \in Bookings PROVE Brings
    <3>1. booking[b] \in BookingRow
      BY <1>1 DEF TypeOK
    <3> QED BY <1>1, <3>1, WriteBrings
  <2> QED BY <2>1 DEF Brings
<1>3. Grows /\ SharesPaid'
  BY <1>1 DEF Grows, SameOrder, Settled, HasPaid, SharesPaid
<1>4. \A w \in Workers : seen'[w].stage = "read" =>
        \/ seen'[w] = seen[w] /\ task'[w].e = task[w].e
        \/ (\A f \in Friends \ seen[w].unpaid : Settled(task[w].e.b, f))'
  BY DEF Settled, HasPaid
<1> QED BY <1>2, <1>3, <1>4, BillKept

LEMMA CustomersBill == ASSUME BillInv, Customers PROVE BillInv' /\ Grows
<1>1. SInv /\ SInv' /\ TypeOK /\ TypeInv
  BY SNextInv DEF BillInv, SInv, SNext, LockInv, TypeInv
<1>2. ASSUME NEW b \in Bookings, NEW f \in Friends,
             VerifySplitToken(b, f) \/ DeclineLoad(b, f)
      PROVE  BillInv' /\ Grows
  BY <1>1, <1>2, QuietBill DEF VerifySplitToken, DeclineLoad, Copying, vars, rows, gateway
<1>3. ASSUME NEW b \in Bookings, NEW p \in Shares, NEW o \in {"success", "failed"},
             PayShare(b, p, o)
      PROVE  BillInv' /\ Grows
  <2>1. PICK e : e = [b |-> b, part |-> p, outcome |-> o]
    OBVIOUS
  <2>2. p # "full"
    BY SplitAssumption DEF Shares
  <2>3. /\ sent' = sent \cup {e}
        /\ booking[e.b].status # "absent" /\ booking[e.b].kind = "split" /\ e.part # "full"
    BY <1>3, <2>1, <2>2 DEF PayShare, Produce
  <2> QED BY <1>1, <1>3, <2>3, QuietBill DEF PayShare, Produce, rows
<1>4. ASSUME NEW b \in Bookings, CancelLoad(b) PROVE BillInv' /\ Grows
  BY <1>1, <1>4, QuietBill DEF CancelLoad, Copying, InFlight, vars, rows, gateway
<1> QED BY <1>2, <1>3, <1>4 DEF Customers

LEMMA LooksBill ==
  ASSUME BillInv, ExpireLoad \/ CopyAbort \/ UNCHANGED svars PROVE BillInv' /\ Grows
<1>1. SInv /\ SInv'
  BY SNextInv DEF BillInv, SNext
<1>2. CASE ExpireLoad
  <2>1. \A c \in copies' : c \in copies \/ InFlight(c.b, c.bk)
    BY <1>2 DEF ExpireLoad, InFlight
  <2> QED BY <1>1, <1>2, <2>1, QuietBill DEF ExpireLoad, vars, rows, gateway
<1>3. CASE CopyAbort \/ UNCHANGED svars
  BY <1>1, <1>3, QuietBill DEF CopyAbort, svars, vars, rows, gateway
<1> QED BY <1>2, <1>3

(* A step that writes a good row, or the shares of a booking: a share that *)
(* is invited stays so, and one is marked paid when it was.                *)
LEMMA WriteBill ==
  ASSUME BillInv, SInv', NEW b \in Bookings, NEW row \in BookingRow,
         booking' = [booking EXCEPT ![b] = row],
         row = booking[b] \/ (GoodRow(b, row) /\ SameOrder(row, booking[b])),
         \A x \in Bookings, f \in Friends :
           /\ splits[x][f] = "absent" => splits'[x][f] \in {"absent", "paid"}
           /\ splits'[x][f] = "paid" => HasPaid(x, f),
         sent' = sent, reminding' = reminding, copies' \subseteq copies,
         \A w \in Workers : task'[w] = task[w] \/ task'[w] = Idle,
         \A w \in Workers : seen'[w].stage = "read" =>
           seen'[w] = seen[w] /\ task'[w] = task[w]
  PROVE  BillInv' /\ Grows
<1>1. SInv /\ TypeOK /\ TypeInv
  BY DEF BillInv, SInv, LockInv, TypeInv
<1>2. Grows
  <2>1. \A x \in Bookings : SameOrder(booking'[x], booking[x])
    BY <1>1 DEF TypeOK, SameOrder
  <2> QED BY <2>1 DEF Grows, Settled, HasPaid
<1>3. Brings
  <2>1. \A w \in Workers : task'[w].op \in LoadedOps =>
          task[w].op \in LoadedOps /\ task'[w].e = task[w].e /\ task'[w].bk = task[w].bk
    BY DEF Idle, LoadedOps
  <2>2. ASSUME GoodRow(b, row), SameOrder(row, booking[b]) PROVE GoodRow(b, row)'
    <3>1. booking'[b] = row
      BY <1>1 DEF TypeOK
    <3>2. \A f \in Friends : Settled(b, f) => Settled(b, f)'
      BY DEF Settled, HasPaid
    <3> QED BY <2>2, <3>1, <3>2 DEF GoodRow, SameOrder, BillPaid, HasPaid
  <2> QED BY <1>1, <2>1, <2>2, WriteBrings
<1>4. SharesPaid'
  BY DEF SharesPaid, HasPaid
<1>5. \A e \in sent' : e \in sent
  OBVIOUS
<1> QED BY <1>2, <1>3, <1>4, <1>5, BillKept

(* What a webhook that processes a share knows.                            *)
LEMMA ShareIsGood ==
  ASSUME BillInv, NEW w \in Workers, task[w].op \in {"loaded", "ticketed", "stripe_loaded"}
  PROVE  /\ task[w] \in Loaded /\ task[w].e \in sent /\ task[w].e \in Result
         /\ task[w].e.b \in Bookings /\ task[w].bk \in BookingRow
         /\ task[w].bk.status # "absent" /\ booking[task[w].e.b].status # "absent"
         /\ SameOrder(task[w].bk, booking[task[w].e.b])
         /\ GoodRow(task[w].e.b, task[w].bk)
         /\ task[w].e.outcome = "success" => HasPaid(task[w].e.b, task[w].e.part)
<1>1. SInv /\ TypeOK /\ TypeInv /\ ForeignKeys /\ RowsAreGood
  BY DEF BillInv, SInv, LockInv, TypeInv
<1>2. /\ task[w] \in Loaded /\ task[w].e \in sent /\ task[w].e \in Result
      /\ task[w].e.b \in Bookings /\ task[w].bk \in BookingRow
      /\ task[w].bk.status # "absent" /\ booking[task[w].e.b].status # "absent"
  BY <1>1, LoadedTask DEF ForeignKeys
<1>3. GoodRow(task[w].e.b, task[w].bk)
  <2>1. InFlight(task[w].e.b, task[w].bk)
    BY DEF InFlight, LoadedOps
  <2> QED BY <1>1, <1>2, <2>1 DEF RowsAreGood
<1>4. task[w].e.outcome = "success" => HasPaid(task[w].e.b, task[w].e.part)
  BY <1>2 DEF HasPaid, Result
<1> QED BY <1>2, <1>3, <1>4 DEF GoodRow

\* The shares after a mark.
LEMMA MarkedSharesPaid ==
  ASSUME BillInv, NEW w \in Workers, task[w].op \in {"loaded", "stripe_loaded"},
         task[w].e.outcome = "success"
  PROVE  LET b == task[w].e.b
             S == Mark(task[w], splits[b])
         IN  \A f \in Friends :
               /\ splits[b][f] = "absent" => S[f] \in {"absent", "paid"}
               /\ S[f] = "paid" => HasPaid(b, f)
               /\ f \notin Unpaid(S) => Settled(b, f)
<1>1. /\ TypeOK /\ SharesPaid
      /\ task[w] \in Loaded /\ task[w].e.b \in Bookings
      /\ HasPaid(task[w].e.b, task[w].e.part)
  BY ShareIsGood DEF BillInv, SInv, LockInv, TypeInv
<1>2. splits[task[w].e.b] \in [Friends -> SplitState]
  BY <1>1 DEF TypeOK
<1>3. \A f \in Friends : Mark(task[w], splits[task[w].e.b])[f] =
        IF task[w].e.part = f THEN "paid" ELSE splits[task[w].e.b][f]
  BY <1>1, <1>2, MarkType
<1> QED BY <1>1, <1>3 DEF SharesPaid, Unpaid, Settled

\* What the webhook saves is good: it confirms a booking whose bill is paid.
LEMMA SplitBookingGood ==
  ASSUME BillInv, NEW w \in Workers, task[w].op \in {"loaded", "stripe_loaded"},
         task[w].e.outcome = "success"
  PROVE  /\ GoodRow(task[w].e.b, HostMarked(task[w]))
         /\ seen[w].stage = "read" =>
              GoodRow(task[w].e.b, SplitBooking(task[w], seen[w].unpaid))
<1>1. /\ task[w] \in Loaded /\ task[w].bk.status # "absent"
      /\ GoodRow(task[w].e.b, task[w].bk)
      /\ HasPaid(task[w].e.b, task[w].e.part)
  BY ShareIsGood
<1>2. HostMarked(task[w]).primaryPaid => HasPaid(task[w].e.b, "primary")
  BY <1>1, SplitRowsType DEF GoodRow
<1>3. GoodRow(task[w].e.b, HostMarked(task[w]))
  BY <1>1, <1>2, SplitRowsType DEF GoodRow, SameOrder
<1>4. ASSUME seen[w].stage = "read"
      PROVE  GoodRow(task[w].e.b, SplitBooking(task[w], seen[w].unpaid))
  <2> DEFINE U == seen[w].unpaid
  <2>1. AllPaid(task[w], U) => BillPaid(task[w].e.b)
    BY <1>2, <1>4 DEF AllPaid, BillPaid, BillInv, SeenPaid
  <2>2. /\ SameOrder(SplitBooking(task[w], U), task[w].bk)
        /\ SplitBooking(task[w], U).status =
             IF AllPaid(task[w], U) THEN "confirmed" ELSE task[w].bk.status
        /\ SplitBooking(task[w], U).primaryPaid = HostMarked(task[w]).primaryPaid
    BY <1>1, SplitRowsType DEF SameOrder
  <2> QED BY <1>1, <1>2, <2>1, <2>2 DEF GoodRow, SameOrder
<1> QED BY <1>3, <1>4

LEMMA SplitStepBill ==
  ASSUME BillInv, NEW w \in Workers, SplitStep(w) PROVE BillInv' /\ Grows
<1>1. SInv /\ SInv' /\ TypeOK /\ STypeOK /\ SharesPaid
  BY SNextInv DEF BillInv, SInv, SNext, LockInv, TypeInv
<1>2. task[w].op \in {"loaded", "stripe_loaded"}
  BY DEF SplitStep, PaymentSplitMark, PaymentSplitCommit, PaymentSplitFailed,
         StripeSplitMark, StripeSplitRead, StripeSplitFinish
<1>3. PICK b \in Bookings, t \in Loaded : t = task[w] /\ b = t.e.b
  BY <1>2, ShareIsGood
<1>4. /\ t.e.outcome = "success" => HasPaid(b, t.e.part)
      /\ t.bk \in BookingRow /\ SameOrder(t.bk, booking[b]) /\ GoodRow(b, t.bk)
  BY <1>2, <1>3, ShareIsGood
<1>5. t.e.outcome = "success" =>
        /\ Mark(t, splits[b]) \in [Friends -> SplitState]
        /\ \A f \in Friends :
             /\ splits[b][f] = "absent" => Mark(t, splits[b])[f] \in {"absent", "paid"}
             /\ Mark(t, splits[b])[f] = "paid" => HasPaid(b, f)
             /\ f \notin Unpaid(Mark(t, splits[b])) => Settled(b, f)
  <2>1. splits[b] \in [Friends -> SplitState]
    BY <1>1 DEF TypeOK
  <2> QED BY <1>2, <1>3, <2>1, MarkedSharesPaid, MarkType
<1>6. ASSUME splits' = [splits EXCEPT ![b] = Mark(t, @)], t.e.outcome = "success"
      PROVE  \A x \in Bookings, f \in Friends :
               /\ splits[x][f] = "absent" => splits'[x][f] \in {"absent", "paid"}
               /\ splits'[x][f] = "paid" => HasPaid(x, f)
  BY <1>1, <1>5, <1>6 DEF TypeOK, SharesPaid
<1>7. ASSUME task' = [task EXCEPT ![w] = Idle] PROVE
        \A v \in Workers : task'[v] = task[v] \/ task'[v] = Idle
  BY <1>1, <1>7 DEF TypeOK
<1>8. CASE PaymentSplitMark(w)
  <2>1. \A v \in Workers : seen'[v].stage = "read" =>
          \/ seen'[v] = seen[v]
          \/ \A f \in Friends \ seen'[v].unpaid : Settled(task[v].e.b, f)
    BY <1>1, <1>3, <1>5, <1>8 DEF PaymentSplitMark, STypeOK, Look
  <2> QED BY <1>1, <1>8, <2>1, QuietBill DEF PaymentSplitMark, vars, rows, gateway
<1>9. CASE StripeSplitRead(w)
  <2>1. \A f \in Friends : f \notin Unpaid(splits[b]) => Settled(b, f)
    BY <1>1 DEF Unpaid, SharesPaid, Settled
  <2>2. \A v \in Workers : seen'[v].stage = "read" =>
          \/ seen'[v] = seen[v]
          \/ \A f \in Friends \ seen'[v].unpaid : Settled(task[v].e.b, f)
    BY <1>1, <1>3, <1>9, <2>1 DEF StripeSplitRead, STypeOK, Look
  <2> QED BY <1>1, <1>9, <2>2, QuietBill DEF StripeSplitRead, vars, rows, gateway
<1>10. CASE PaymentSplitCommit(w)
  <2>1. t.e.outcome = "success"
    BY <1>1, <1>3, <1>10 DEF PaymentSplitCommit, SInv, SeenIsOfShare, Nothing, Look
  <2>2. PICK row \in BookingRow : row = SplitBooking(t, seen[w].unpaid)
    BY SplitRowsType
  <2>3. GoodRow(b, row) /\ SameOrder(row, booking[b])
    BY <1>2, <1>3, <1>4, <1>10, <2>1, <2>2, SplitBookingGood, SplitRowsType
    DEF PaymentSplitCommit, SameOrder
  <2>4. \A v \in Workers : seen'[v].stage = "read" =>
          seen'[v] = seen[v] /\ task'[v] = task[v]
    BY <1>1, <1>10 DEF PaymentSplitCommit, Finish, STypeOK, TypeOK, Nothing, Look
  <2> QED BY <1>1, <1>3, <1>6, <1>7, <1>10, <2>1, <2>2, <2>3, <2>4, WriteBill
          DEF PaymentSplitCommit, Finish
<1>11. CASE PaymentSplitFailed(w)
  <2>1. \A v \in Workers : seen'[v].stage = "read" =>
          seen'[v] = seen[v] /\ task'[v] = task[v]
    <3>1. seen[w] = Nothing
      BY <1>1, <1>11 DEF PaymentSplitFailed, SInv, SeenIsOfShare
    <3> QED BY <1>1, <1>11, <3>1 DEF PaymentSplitFailed, Finish, TypeOK, Nothing, Look
  <2> QED BY <1>1, <1>3, <1>4, <1>7, <1>11, <2>1, WriteBill
          DEF PaymentSplitFailed, Finish, SharesPaid
<1>12. CASE StripeSplitMark(w)
  <2>1. t.e.outcome = "success"
    BY <1>3, <1>12 DEF StripeSplitMark
  <2>2. PICK row \in BookingRow :
          row = IF t.e.part = "primary" THEN HostMarked(t) ELSE booking[b]
    BY <1>1, SplitRowsType DEF TypeOK
  <2>3. row = booking[b] \/ (GoodRow(b, row) /\ SameOrder(row, booking[b]))
    BY <1>2, <1>3, <1>4, <2>1, <2>2, SplitBookingGood, SplitRowsType DEF SameOrder
  <2>4. booking' = [booking EXCEPT ![b] = row]
    BY <1>1, <1>3, <1>12, <2>2 DEF StripeSplitMark, TypeOK
  <2>5. \A v \in Workers : seen'[v].stage = "read" =>
          seen'[v] = seen[v] /\ task'[v] = task[v]
    BY <1>1, <1>12 DEF StripeSplitMark, STypeOK, Look
  <2> QED BY <1>1, <1>3, <1>6, <1>12, <2>1, <2>3, <2>4, <2>5, WriteBill
          DEF StripeSplitMark, gateway
<1>13. CASE StripeSplitFinish(w)
  <2>1. PICK row \in BookingRow :
          /\ booking' = [booking EXCEPT ![b] = row]
          /\ \/ row = booking[b]
             \/ t.e.outcome = "success" /\ seen[w].stage = "read"
                /\ row = SplitBooking(t, seen[w].unpaid)
    <3>1. CASE booking' = booking
      <4>1. booking[b] \in BookingRow /\ booking' = [booking EXCEPT ![b] = booking[b]]
        BY <1>1, <3>1 DEF TypeOK
      <4> QED BY <4>1
    <3>2. CASE booking' # booking
      BY <1>3, <1>13, <3>2, SplitRowsType DEF StripeSplitFinish
    <3> QED BY <3>1, <3>2
  <2>2. row = booking[b] \/ (GoodRow(b, row) /\ SameOrder(row, booking[b]))
    BY <1>2, <1>3, <1>4, <2>1, SplitBookingGood, SplitRowsType DEF SameOrder
  <2>3. \A v \in Workers : seen'[v].stage = "read" =>
          seen'[v] = seen[v] /\ task'[v] = task[v]
    BY <1>1, <1>13 DEF StripeSplitFinish, Finish, STypeOK, TypeOK, Nothing, Look
  <2> QED BY <1>1, <1>7, <1>13, <2>1, <2>2, <2>3, WriteBill
          DEF StripeSplitFinish, Finish, SharesPaid
<1> QED BY <1>8, <1>9, <1>10, <1>11, <1>12, <1>13 DEF SplitStep

\* What a decline, a cancellation or the cron saves of the copy it loaded.
LEMMA CopyBill ==
  ASSUME BillInv, DeclineSave \/ CancelCommit \/ ExpireCommit PROVE BillInv' /\ Grows
<1>1. /\ SInv /\ SInv' /\ TypeOK /\ STypeOK /\ SharesPaid /\ RowsAreGood /\ CopiesExist
  BY SNextInv DEF BillInv, SInv, SNext, LockInv, TypeInv
<1>2. \A c \in copies :
        /\ c.b \in Bookings
        /\ c.op = "decline" => c.f \in Friends /\ splits[c.b][c.f] # "absent"
        /\ c.op \in {"cancel", "expire"} =>
             /\ c.bk \in BookingRow /\ c.bk.status # "absent"
             /\ SameOrder(c.bk, booking[c.b]) /\ GoodRow(c.b, c.bk)
  <2> SUFFICES ASSUME NEW c \in copies
               PROVE  /\ c.b \in Bookings
                      /\ c.op = "decline" => c.f \in Friends /\ splits[c.b][c.f] # "absent"
                      /\ c.op \in {"cancel", "expire"} =>
                           /\ c.bk \in BookingRow /\ c.bk.status # "absent"
                           /\ SameOrder(c.bk, booking[c.b]) /\ GoodRow(c.b, c.bk)
    OBVIOUS
  <2>1. c \in Copy
    BY <1>1 DEF STypeOK
  <2>2. c.op \in {"cancel", "expire"} =>
          c.bk.status # "absent" /\ InFlight(c.b, c.bk)
    BY <1>1 DEF CopiesExist, InFlight
  <2> QED BY <1>1, <2>1, <2>2, CopyKinds DEF RowsAreGood, GoodRow, CopiesExist
<1>3. ASSUME task' = task, seen' = seen
      PROVE  /\ \A w \in Workers : task'[w] = task[w] \/ task'[w] = Idle
             /\ \A w \in Workers : seen'[w].stage = "read" =>
                  seen'[w] = seen[w] /\ task'[w] = task[w]
  BY <1>3
<1>4. ASSUME NEW b \in Bookings, NEW S, splits' = [splits EXCEPT ![b] = S],
             \A f \in Friends : splits[b][f] = "absent" => S[f] \in {"absent", "paid"},
             \A f \in Friends : S[f] = "paid" => HasPaid(b, f)
      PROVE  \A x \in Bookings, f \in Friends :
               /\ splits[x][f] = "absent" => splits'[x][f] \in {"absent", "paid"}
               /\ splits'[x][f] = "paid" => HasPaid(x, f)
  BY <1>1, <1>4 DEF TypeOK, SharesPaid
<1>5. ASSUME NEW c \in copies, c.op \in {"cancel", "expire"}, copies' = copies \ {c},
             NEW row \in BookingRow, booking' = [booking EXCEPT ![c.b] = row],
             SameOrder(row, c.bk), row.primaryPaid = c.bk.primaryPaid,
             row.status # "confirmed",
             NEW S, splits' = [splits EXCEPT ![c.b] = S],
             \A f \in Friends : splits[c.b][f] = "absent" => S[f] \in {"absent", "paid"},
             \A f \in Friends : S[f] = "paid" => HasPaid(c.b, f),
             UNCHANGED <<gateway, task, reminding, seen>>
      PROVE  BillInv' /\ Grows
  <2>1. GoodRow(c.b, row) /\ SameOrder(row, booking[c.b])
    BY <1>2, <1>5 DEF GoodRow, SameOrder
  <2>2. copies' \subseteq copies /\ sent' = sent
    BY <1>5 DEF gateway
  <2>3. PICK b \in Bookings : b = c.b
    BY <1>2
  <2>4. \A x \in Bookings, f \in Friends :
          /\ splits[x][f] = "absent" => splits'[x][f] \in {"absent", "paid"}
          /\ splits'[x][f] = "paid" => HasPaid(x, f)
    BY <1>4, <1>5, <2>3
  <2> QED BY <1>1, <1>3, <1>5, <2>1, <2>2, <2>3, <2>4, WriteBill
<1>6. CASE DeclineSave
  <2>1. PICK c \in copies :
          /\ c.op = "decline"
          /\ splits' = [splits EXCEPT ![c.b][c.f] = "declined"]
          /\ copies' = copies \ {c}
          /\ UNCHANGED <<now, slot, booking, ledger, ticket, gateway, events, task,
                         reminding, seen, refunded>>
    BY <1>6 DEF DeclineSave
  <2>2. \A x \in Bookings, f \in Friends :
          /\ splits[x][f] = "absent" => splits'[x][f] \in {"absent", "paid"}
          /\ splits'[x][f] = "paid" => HasPaid(x, f)
    <3>1. ASSUME NEW x \in Bookings, NEW f \in Friends
          PROVE  splits'[x][f] = IF x = c.b /\ f = c.f THEN "declined" ELSE splits[x][f]
      <4>1. splits[c.b] \in [Friends -> SplitState] /\ c.b \in Bookings
        BY <1>1, <1>2, <2>1 DEF TypeOK
      <4> QED BY <1>1, <2>1, <4>1 DEF TypeOK
    <3>2. splits[c.b][c.f] # "absent"
      BY <1>2, <2>1
    <3> QED BY <1>1, <3>1, <3>2 DEF SharesPaid
  <2>3. PICK b \in Bookings, row \in BookingRow : b = c.b /\ row = booking[b]
    BY <1>1, <1>2, <2>1 DEF TypeOK
  <2>4. booking' = [booking EXCEPT ![b] = row]
    BY <1>1, <2>1, <2>3 DEF TypeOK
  <2> QED BY <1>1, <1>3, <2>1, <2>2, <2>3, <2>4, WriteBill DEF gateway
<1>7. CASE CancelCommit
  <2>1. PICK c \in copies :
          /\ c.op = "cancel"
          /\ booking' = [booking EXCEPT ![c.b] = [c.bk EXCEPT !.status = "cancelled"]]
          /\ splits' = [splits EXCEPT ![c.b] =
                          [f \in Friends |->
                             IF f \in {g \in Friends : <<c.b, g>> \in RefundsDue(c)}
                             THEN "refunded" ELSE splits[c.b][f]]]
          /\ copies' = copies \ {c}
          /\ UNCHANGED <<gateway, task, reminding, seen>>
    BY <1>7 DEF CancelCommit
  <2>2. PICK S : S = [f \in Friends |->
                        IF f \in {g \in Friends : <<c.b, g>> \in RefundsDue(c)}
                        THEN "refunded" ELSE splits[c.b][f]]
    OBVIOUS
  <2>3. \A f \in Friends : <<c.b, f>> \in RefundsDue(c) => splits[c.b][f] = "paid"
    BY SplitAssumption DEF RefundsDue
  <2>4. /\ \A f \in Friends : splits[c.b][f] = "absent" => S[f] \in {"absent", "paid"}
        /\ \A f \in Friends : S[f] = "paid" => HasPaid(c.b, f)
    BY <1>1, <1>2, <2>2, <2>3 DEF SharesPaid
  <2>5. PICK row \in BookingRow : row = [c.bk EXCEPT !.status = "cancelled"]
    BY <1>2, <2>1, ClosedRowType
  <2>6. /\ SameOrder(row, c.bk) /\ row.primaryPaid = c.bk.primaryPaid
        /\ row.status # "confirmed"
    BY <1>2, <2>1, <2>5, ClosedRowType DEF SameOrder
  <2> QED BY <1>5, <2>1, <2>2, <2>4, <2>5, <2>6
<1>8. CASE ExpireCommit
  <2>1. PICK c \in copies :
          /\ c.op = "expire"
          /\ booking' = [booking EXCEPT ![c.b] =
                           [c.bk EXCEPT !.status = "expired", !.splitStatus = "expired"]]
          /\ splits' = [splits EXCEPT ![c.b] =
                          [f \in Friends |-> IF splits[c.b][f] = "absent" THEN "absent"
                                                                         ELSE "expired"]]
          /\ copies' = copies \ {c}
          /\ UNCHANGED <<gateway, task, reminding, seen>>
    BY <1>8 DEF ExpireCommit, Expirable
  <2>2. PICK S : S = [f \in Friends |-> IF splits[c.b][f] = "absent" THEN "absent"
                                                                    ELSE "expired"]
    OBVIOUS
  <2>3. /\ \A f \in Friends : splits[c.b][f] = "absent" => S[f] \in {"absent", "paid"}
        /\ \A f \in Friends : S[f] = "paid" => HasPaid(c.b, f)
    BY <2>2
  <2>4. PICK row \in BookingRow :
          row = [c.bk EXCEPT !.status = "expired", !.splitStatus = "expired"]
    BY <1>2, <2>1, ClosedRowType
  <2>5. /\ SameOrder(row, c.bk) /\ row.primaryPaid = c.bk.primaryPaid
        /\ row.status # "confirmed"
    BY <1>2, <2>1, <2>4, ClosedRowType DEF SameOrder
  <2>6. splits' = [splits EXCEPT ![c.b] = S]
    BY <2>1, <2>2, Zenon
  <2>7. booking' = [booking EXCEPT ![c.b] = row]
    BY <2>1, <2>4, Zenon
  <2> QED BY <1>5, <2>1, <2>3, <2>5, <2>6, <2>7
<1> QED BY <1>6, <1>7, <1>8

LEMMA BillNext == ASSUME BillInv, [SNext]_svars PROVE BillInv' /\ Grows
BY CheckoutBill, CustomersBill, SplitStepBill, CopyBill, LooksBill DEF SNext

LEMMA BillInvariant == SSpec => []BillInv
<1>1. SInit => BillInv
  BY BillInit
<1>2. BillInv /\ [SNext]_svars => BillInv'
  BY BillNext
<1> QED BY <1>1, <1>2, PTL DEF SSpec

(* A split booking is confirmed only when the gateway has reported the     *)
(* payment of the host and of every friend who was invited.  The webhook   *)
(* that confirms it has loaded the booking, marked its share and looked at *)
(* the others at different moments; the reminder, a decline, a             *)
(* cancellation or the cron may save a row it loaded earlier in between.   *)
THEOREM ConfirmedSplitsArePaid == SSpec => []ConfirmedSplitIsPaid
<1>1. ASSUME BillInv PROVE ConfirmedSplitIsPaid
  <2>1. /\ TypeOK /\ RowsAreGood
    BY <1>1 DEF BillInv, SInv, LockInv, TypeInv
  <2>2. \A b \in Bookings : GoodRow(b, booking[b])
    BY <2>1 DEF RowsAreGood, InFlight, TypeOK
  <2> QED BY <2>2 DEF GoodRow, ConfirmedSplitIsPaid, Confirmed, BillPaid, Settled
<1> QED BY <1>1, BillInvariant, PTL
-----------------------------------------------------------------------------
(* Nobody plays on money that was given back.                              *)

(***************************************************************************)
(* The environment of this theorem: the idempotent webhook, one result per *)
(* share, in time, never two deliveries of it at once; deliveries may be   *)
(* repeated, processing may crash, friends may decline, and the hold ends  *)
(* by the cron (a host who cancels while a payment is under way is         *)
(* refunded for a booking that is confirmed later).                        *)
(***************************************************************************)
CarefulSplits ==
  /\ Hooks = {"payment"} /\ Hazards \subseteq {"redeliver", "crash"}
  /\ SplitOps \subseteq {"decline"}

\* A result that is not answered yet is in time, and so is the booking whose
\* webhook is under way: the cron does not expire it before it is answered.
ResultsInTime ==
  /\ \A e, x \in sent : e.b = x.b /\ e.part = x.part => e = x
  /\ \A e \in sent \ acked : now < Deadline(e.b)
  /\ acked \subseteq sent \cap events
  /\ \A w \in Workers :
       /\ task[w].op \notin {"stripe_loaded", "stripe_saved"}
       /\ task[w].op \in {"checked", "loaded", "ticketed"} => task[w].e \in sent \ acked

\* Only a friend who was invited can pay.
InvitedPay ==
  /\ \A b \in Bookings, f \in Friends : link[b][f] # "none" => splits[b][f] # "absent"
  /\ \A e \in sent : e.part \in Friends => splits[e.b][e.part] # "absent"

TimeInv == LedgerInv /\ ResultsInTime /\ InvitedPay

LEMMA CarefulHazards ==
  ASSUME CarefulSplits
  PROVE  /\ "late" \notin Hazards /\ "retry" \notin Hazards
         /\ "overlap" \notin Hazards /\ "no_event_id" \notin Hazards
         /\ {"overlap", "no_event_id"} \cap Hazards = {}
         /\ "stripe" \notin Hooks /\ "cancel" \notin SplitOps
BY DEF CarefulSplits

(* What the code of shares leaves alone.                                   *)
LEMMA SplitCodeKeeps ==
  ASSUME SInv, [SNext]_svars, ~CheckoutStep
  PROVE  /\ UNCHANGED <<now, ledger, events, reminding>>
         /\ \A w \in Workers : task'[w] = task[w] \/ task'[w] = Idle
<1>1. TypeOK
  BY DEF SInv, LockInv, TypeInv
<1>2. CASE \E w \in Workers : SplitStep(w)
  <2>1. PICK w \in Workers : SplitStep(w)
    BY <1>2
  <2> QED BY <1>1, <2>1
          DEF SplitStep, PaymentSplitMark, PaymentSplitCommit, PaymentSplitFailed,
              StripeSplitMark, StripeSplitRead, StripeSplitFinish, Finish, TypeOK, vars, rows
<1>3. CASE \/ Customers \/ DeclineSave \/ ExpireLoad \/ CopyAbort \/ UNCHANGED svars
  BY <1>3, CustomersKeep, CopyingKeeps
<1>4. CASE CancelCommit \/ ExpireCommit
  BY <1>4 DEF CancelCommit, ExpireCommit
<1> QED BY <1>2, <1>3, <1>4 DEF SNext

LEMMA LedgerKept ==
  ASSUME CarefulSplits, SInv, LedgerInv, [SNext]_svars PROVE LedgerInv'
<1>1. CASE CheckoutStep
  BY <1>1, CarefulHazards, LedgerNext DEF CheckoutStep
<1>2. CASE ~CheckoutStep
  <2>1. TypeInv'
    BY SNextInv DEF SInv, LockInv
  <2>2. /\ UNCHANGED <<ledger, events>>
        /\ \A w \in Workers : task'[w] = task[w] \/ task'[w] = Idle
    BY <1>2, SplitCodeKeeps
  <2> QED BY <2>1, <2>2
          DEF LedgerInv, OneWorkerPerEvent, Processing, LedgerFollowsEvent, CheckedIsNew,
              Idle
<1> QED BY <1>1, <1>2

(* A friend who was invited stays so; one who was not gets no share but by *)
(* a payment.                                                              *)
InvitedStay(S, T) ==
  \A f \in Friends : /\ S[f] # "absent" => T[f] # "absent"
                     /\ S[f] = "absent" => T[f] \in {"absent", "paid"}

LEMMA InvitedStays ==
  ASSUME SInv, [SNext]_svars, NEW b \in Bookings, booking[b].status # "absent"
  PROVE  InvitedStay(splits[b], splits'[b])
<1>1. /\ TypeOK /\ TypeInv /\ STypeOK /\ LockInv /\ CopiesExist
      /\ splits[b] \in [Friends -> SplitState]
  BY DEF SInv, LockInv, TypeInv, TypeOK
<1>2. CASE CheckoutStep
  BY <1>1, <1>2, CheckoutKeepsShares DEF CheckoutStep, InvitedStay
<1>3. ASSUME NEW w \in Workers, SplitStep(w)
      PROVE  InvitedStay(splits[b], splits'[b])
  <2>1. task[w].op \in {"loaded", "stripe_loaded"}
    BY <1>3 DEF SplitStep, PaymentSplitMark, PaymentSplitCommit, PaymentSplitFailed,
                StripeSplitMark, StripeSplitRead, StripeSplitFinish
  <2>2. task[w] \in Loaded /\ task[w].e.b \in Bookings
    BY <1>1, <2>1, LoadedTask
  <2>3. splits' = splits \/ splits' = [splits EXCEPT ![task[w].e.b] = Mark(task[w], @)]
    BY <1>3 DEF SplitStep, PaymentSplitMark, PaymentSplitCommit, PaymentSplitFailed,
                StripeSplitMark, StripeSplitRead, StripeSplitFinish, vars, rows
  <2>4. InvitedStay(splits[b], Mark(task[w], splits[b]))
    BY <1>1, <2>2, MarkType DEF InvitedStay
  <2> QED BY <1>1, <2>2, <2>3, <2>4 DEF TypeOK, InvitedStay
<1>4. CASE DeclineSave
  BY <1>1, <1>4, CopyKinds DEF DeclineSave, TypeOK, STypeOK, CopiesExist, InvitedStay
<1>5. ASSUME NEW c \in copies, NEW S, splits' = [splits EXCEPT ![c.b] = S],
             InvitedStay(splits[c.b], S)
      PROVE  InvitedStay(splits[b], splits'[b])
  BY <1>1, <1>5 DEF TypeOK, InvitedStay
<1>6. CASE CancelCommit
  <2>1. PICK c \in copies :
          splits' = [splits EXCEPT ![c.b] =
                       [f \in Friends |->
                          IF f \in {g \in Friends : <<c.b, g>> \in RefundsDue(c)}
                          THEN "refunded" ELSE splits[c.b][f]]]
    BY <1>6 DEF CancelCommit
  <2>2. \A f \in Friends : <<c.b, f>> \in RefundsDue(c) => splits[c.b][f] = "paid"
    BY SplitAssumption DEF RefundsDue
  <2> QED BY <1>5, <2>1, <2>2 DEF InvitedStay
<1>7. CASE ExpireCommit
  <2>1. PICK c \in copies :
          splits' = [splits EXCEPT ![c.b] =
                       [f \in Friends |-> IF splits[c.b][f] = "absent" THEN "absent"
                                                                      ELSE "expired"]]
    BY <1>7 DEF ExpireCommit, Expirable
  <2> QED BY <1>5, <2>1 DEF InvitedStay
<1>8. CASE Customers \/ ExpireLoad \/ CopyAbort \/ UNCHANGED svars
  <2>1. UNCHANGED splits
    BY <1>8, CustomersKeep DEF ExpireLoad, CopyAbort, svars, vars, rows
  <2> QED BY <2>1 DEF InvitedStay
<1> QED BY <1>2, <1>3, <1>4, <1>6, <1>7, <1>8 DEF SNext

LEMMA BookingStays ==
  ASSUME SInv, [SNext]_svars, NEW b \in Bookings, booking[b].status # "absent"
  PROVE  booking'[b].status # "absent"
<1>1. TypeOK /\ TypeInv /\ STypeOK /\ LockInv /\ ForeignKeys
  BY DEF SInv, LockInv, TypeInv
<1>2. CASE CheckoutStep
  BY <1>1, <1>2, CheckoutKeepsShares DEF CheckoutStep
<1>3. ASSUME NEW w \in Workers, SplitStep(w) PROVE booking'[b].status # "absent"
  <2>1. task[w].op \in {"loaded", "stripe_loaded"}
    BY <1>3 DEF SplitStep, PaymentSplitMark, PaymentSplitCommit, PaymentSplitFailed,
                StripeSplitMark, StripeSplitRead, StripeSplitFinish
  <2>2. task[w] \in Loaded /\ task[w].e.b \in Bookings /\ task[w].bk.status # "absent"
    BY <1>1, <2>1, LoadedTask DEF ForeignKeys
  <2>3. /\ HostMarked(task[w]).status # "absent"
        /\ SplitBooking(task[w], seen[w].unpaid).status # "absent"
    BY <2>2, SplitRowsType
  <2>4. \/ booking' = booking
        \/ booking' = [booking EXCEPT ![task[w].e.b] = task[w].bk]
        \/ booking' = [booking EXCEPT ![task[w].e.b] = HostMarked(task[w])]
        \/ booking' = [booking EXCEPT ![task[w].e.b] = SplitBooking(task[w], seen[w].unpaid)]
    BY <1>3 DEF SplitStep, PaymentSplitMark, PaymentSplitCommit, PaymentSplitFailed,
                StripeSplitMark, StripeSplitRead, StripeSplitFinish, vars, rows
  <2> QED BY <1>1, <2>2, <2>3, <2>4 DEF TypeOK
<1>4. ASSUME NEW c \in copies, c.op # "decline", NEW row, row.status # "absent",
             booking' = [booking EXCEPT ![c.b] = row]
      PROVE  booking'[b].status # "absent"
  BY <1>1, <1>4 DEF TypeOK
<1>5. CASE CancelCommit \/ ExpireCommit
  <2>1. PICK c \in copies :
          /\ c.op # "decline"
          /\ \/ booking' = [booking EXCEPT ![c.b] = [c.bk EXCEPT !.status = "cancelled"]]
             \/ booking' = [booking EXCEPT ![c.b] =
                              [c.bk EXCEPT !.status = "expired", !.splitStatus = "expired"]]
    BY <1>5 DEF CancelCommit, ExpireCommit, Expirable
  <2>2. c.bk \in BookingRow
    BY <1>1, <2>1, CopyKinds DEF STypeOK
  <2>3. /\ [c.bk EXCEPT !.status = "cancelled"].status # "absent"
        /\ [c.bk EXCEPT !.status = "expired", !.splitStatus = "expired"].status # "absent"
    BY <2>2, ClosedRowType
  <2> QED BY <1>4, <2>1, <2>3
<1>6. CASE Customers \/ DeclineSave \/ ExpireLoad \/ CopyAbort \/ UNCHANGED svars
  BY <1>6, CustomersKeep, CopyingKeeps
<1> QED BY <1>2, <1>3, <1>5, <1>6 DEF SNext

(* Who loads a row: a friend who declines, a host who cancels, the cron.   *)
LEMMA CopiesLoaded ==
  ASSUME [SNext]_svars, NEW c \in copies'
  PROVE  \/ c \in copies \/ c.op = "decline"
         \/ c.op = "cancel" /\ "cancel" \in SplitOps /\ c.bk = booking[c.b]
         \/ c.op = "expire" /\ c.b \in Bookings /\ Overdue(c.b) /\ c.bk = booking[c.b]
<1>1. ASSUME NEW b \in Bookings, NEW f \in Friends, DeclineLoad(b, f)
      PROVE  c \in copies \/ c.op = "decline"
  BY <1>1 DEF DeclineLoad, Copying
<1>2. ASSUME NEW b \in Bookings, CancelLoad(b)
      PROVE  \/ c \in copies
             \/ c.op = "cancel" /\ "cancel" \in SplitOps /\ c.bk = booking[c.b]
  BY <1>2 DEF CancelLoad, Copying
<1>3. CASE ExpireLoad
  BY <1>3 DEF ExpireLoad
<1>4. CASE copies' \subseteq copies
  BY <1>4
<1>5. CASE Customers
  <2>1. ASSUME NEW b \in Bookings, NEW f \in Friends, VerifySplitToken(b, f)
        PROVE  copies' = copies
    BY <2>1 DEF VerifySplitToken
  <2>2. ASSUME NEW b \in Bookings, NEW p \in Shares, NEW o \in {"success", "failed"},
               PayShare(b, p, o)
        PROVE  copies' = copies
    BY <2>2 DEF PayShare
  <2> QED BY <1>1, <1>2, <1>4, <1>5, <2>1, <2>2 DEF Customers
<1>6. CASE \E w \in Workers : SplitStep(w)
  BY <1>4, <1>6 DEF SplitStep, PaymentSplitMark, PaymentSplitCommit, PaymentSplitFailed,
                    StripeSplitMark, StripeSplitRead, StripeSplitFinish
<1>7. CASE CheckoutStep \/ DeclineSave \/ CancelCommit \/ ExpireCommit \/ CopyAbort
           \/ UNCHANGED svars
  BY <1>4, <1>7 DEF CheckoutStep, DeclineSave, CancelCommit, ExpireCommit, Expirable,
                    CopyAbort, svars
<1> QED BY <1>3, <1>5, <1>6, <1>7 DEF SNext

(* The reminder loads bookings that are confirmed.                         *)
LEMMA RemindersLoaded ==
  ASSUME SInv, [SNext]_svars, NEW r \in reminding'
  PROVE  \/ r \in reminding
         \/ r.b \in Bookings /\ Confirmed(r.b) /\ booking' = booking
<1>1. CASE ReminderLoad
  <2>1. booking' = booking
    BY <1>1 DEF ReminderLoad, rows
  <2> QED BY <1>1, <2>1 DEF ReminderLoad, Confirmed
<1>2. CASE reminding' \subseteq reminding
  BY <1>2
<1>3. CASE ~CheckoutStep
  BY <1>2, <1>3, SplitCodeKeeps
<1>4. CASE CheckoutStep /\ ~ReminderLoad
  <2>1. Environment \/ Start => reminding' = reminding
    BY <1>4 DEF Environment, Tick, PayInFull, Produce, GetDigitalTicket, Start,
                CreateBookingLock, Deliver, PaymentWebhookSkip, PaymentWebhookCheck,
                StripeWebhookLoad
  <2>2. ASSUME NEW w \in Workers, Step(w) \/ Failure(w) PROVE reminding' = reminding
    BY <2>2 DEF Step, CreateBookingCommit, PaymentWebhookLoad, PaymentWebhookTicket,
                PaymentWebhookCommit, StripeWebhookSaveSlot, StripeWebhookSaveBooking,
                Failure, CreateBookingRollback, PaymentWebhookAbort, StripeWebhookAbort
  <2>3. ReminderSave => reminding' \subseteq reminding
    BY DEF ReminderSave
  <2> QED BY <1>2, <1>4, <2>1, <2>2, <2>3 DEF CheckoutStep, Next, Continue
<1> QED BY <1>1, <1>3, <1>4

LEMMA TimeNext ==
  ASSUME CarefulSplits, BillInv, TimeInv, [SNext]_svars PROVE TimeInv'
<1>1. /\ SInv /\ TypeOK /\ TypeInv /\ ForeignKeys /\ STypeOK /\ BillInv' /\ Grows
      /\ LedgerInv /\ OneWorkerPerEvent /\ CheckedIsNew /\ ResultsInTime /\ InvitedPay
  BY BillNext DEF BillInv, SInv, LockInv, TypeInv, TimeInv, LedgerInv
<1>2. LedgerInv'
  BY <1>1, LedgerKept
<1>3. \A e \in sent : e.b \in Bookings /\ booking[e.b].status # "absent"
  BY <1>1 DEF ForeignKeys, TypeOK, Result
<1>4. \A e \in sent : Deadline(e.b)' = Deadline(e.b)
  BY <1>1, <1>3 DEF Grows, SameOrder, Deadline
<1>5. \A b \in Bookings, f \in Friends :
        splits[b][f] # "absent" /\ booking[b].status # "absent" => splits'[b][f] # "absent"
  BY <1>1, InvitedStays DEF InvitedStay
<1>6. \A b \in Bookings, f \in Friends :
        splits[b][f] # "absent" => booking[b].status # "absent"
  BY <1>1 DEF SInv, AbsentHasNoShares
<1> DEFINE Goal == ResultsInTime' /\ \A e \in sent' : e.part \in Friends =>
                     splits'[e.b][e.part] # "absent"
<1>7. ASSUME sent' = sent, acked' = acked, events \subseteq events',
             now' = now \/ \A e \in sent \ acked : now' < Deadline(e.b),
             \A w \in Workers :
               \/ task'[w] = task[w]
               \/ task'[w].op \in {"idle", "create"}
               \/ task'[w].op \in {"checked", "loaded", "ticketed"}
                  /\ task'[w].e \in sent \ acked
      PROVE  Goal
  BY <1>1, <1>3, <1>4, <1>5, <1>7 DEF ResultsInTime, InvitedPay
<1>8. ASSUME NEW e \in sent, e \in events', \A w \in Workers : ~Processing(w, e)',
             sent' = sent, acked' = acked \cup {e}, events' = events, now' = now,
             \A w \in Workers : task'[w] = task[w] \/ task'[w] = Idle
      PROVE  Goal
  <2>1. \A w \in Workers : task'[w].op \in {"checked", "loaded", "ticketed"} =>
          task'[w] = task[w] /\ task'[w].e # e
    BY <1>8 DEF Processing, Idle
  <2>2. \A w \in Workers : task'[w].op \notin {"stripe_loaded", "stripe_saved"}
    BY <1>1, <1>8 DEF ResultsInTime, Idle
  <2> QED BY <1>1, <1>3, <1>4, <1>5, <1>8, <2>1, <2>2 DEF ResultsInTime, InvitedPay
<1>9. ASSUME NEW e \in Result, Produce(e), e.part \in Friends => splits[e.b][e.part] # "absent"
      PROVE  Goal
  <2>1. /\ sent' = sent \cup {e} /\ UNCHANGED <<now, rows, acked, events, task>>
        /\ now < Deadline(e.b)
        /\ \A x \in sent : x.b # e.b \/ x.part # e.part
    BY <1>9, CarefulHazards DEF Produce
  <2>2. Deadline(e.b)' = Deadline(e.b) /\ splits' = splits
    BY <2>1 DEF rows, Deadline
  <2> QED BY <1>1, <1>3, <1>4, <1>9, <2>1, <2>2 DEF ResultsInTime, InvitedPay
<1> HIDE DEF Goal
<1>10. ASSUME NEW w \in Workers, task[w].op \in {"loaded", "ticketed"},
              sent' = sent, acked' = acked \cup {task[w].e}, events' = events, now' = now,
              Finish(w)
       PROVE  Goal
  <2>1. PICK e \in sent : e = task[w].e /\ e \in events /\ e \in Result
    BY <1>1, <1>10 DEF ResultsInTime, CheckedIsNew, TypeOK
  <2>2. \A v \in Workers : task'[v] = IF v = w THEN Idle ELSE task[v]
    BY <1>1, <1>10 DEF Finish, TypeOK
  <2>3. \A v \in Workers : ~Processing(v, e)'
    <3>1. Processing(w, e)
      BY <1>10, <2>1 DEF Processing
    <3>2. \A v \in Workers : Processing(v, e) => v = w
      BY <1>1, <2>1, <3>1 DEF OneWorkerPerEvent
    <3> QED BY <2>2, <3>2 DEF Processing, Idle
  <2>4. \A v \in Workers : task'[v] = task[v] \/ task'[v] = Idle
    BY <2>2
  <2> QED BY <1>8, <1>10, <2>1, <2>3, <2>4
<1>11. ASSUME NEW w \in Workers, NEW e \in sent, Deliver(w, e) PROVE Goal
  <2>1. CASE PaymentWebhookSkip(w, e)
    <3>1. /\ \A v \in Workers : ~Processing(v, e)
          /\ e \in events /\ UNCHANGED <<now, sent, events, task>> /\ acked' = acked \cup {e}
      BY <2>1, CarefulHazards DEF PaymentWebhookSkip, Deliverable, Recorded
    <3>2. \A v \in Workers : ~Processing(v, e)'
      BY <3>1 DEF Processing
    <3> QED BY <1>8, <3>1, <3>2
  <2>2. CASE PaymentWebhookCheck(w, e)
    <3>1. e \notin events /\ e \in sent \ acked
      BY <1>1, <2>2, CarefulHazards DEF PaymentWebhookCheck, Recorded, ResultsInTime
    <3>2. \A v \in Workers : task'[v] = IF v = w THEN [op |-> "checked", e |-> e] ELSE task[v]
      BY <1>1, <2>2 DEF PaymentWebhookCheck, TypeOK
    <3> QED BY <1>7, <2>2, <3>1, <3>2 DEF PaymentWebhookCheck, gateway
  <2> QED BY <1>11, <2>1, <2>2, CarefulHazards DEF Deliver, StripeWebhookLoad
<1>12. ASSUME NEW w \in Workers, Step(w) \/ Failure(w) PROVE Goal
  <2>1. CASE PaymentWebhookLoad(w)
    <3>1. /\ task[w].e \in sent \ acked
          /\ \A v \in Workers : v # w => task'[v] = task[v]
          /\ task'[w].op = "loaded" /\ task'[w].e = task[w].e
      BY <1>1, <2>1 DEF PaymentWebhookLoad, ResultsInTime, TypeOK
    <3> QED BY <1>7, <2>1, <3>1 DEF PaymentWebhookLoad, gateway
  <2>2. CASE PaymentWebhookCommit(w)
    BY <1>10, <2>2 DEF PaymentWebhookCommit
  <2>3. CASE CreateBookingCommit(w) \/ Failure(w)
    <3>1. \A v \in Workers : task'[v] = task[v] \/ task'[v].op = "idle"
      BY <1>1, <2>3 DEF CreateBookingCommit, Failure, CreateBookingRollback,
                        PaymentWebhookAbort, StripeWebhookAbort, Finish, Idle, TypeOK
    <3> QED BY <1>7, <2>3, <3>1
            DEF CreateBookingCommit, Failure, CreateBookingRollback,
                PaymentWebhookAbort, StripeWebhookAbort, gateway
  <2>4. ~StripeWebhookSaveSlot(w) /\ ~StripeWebhookSaveBooking(w)
    BY <1>1 DEF ResultsInTime, StripeWebhookSaveSlot, StripeWebhookSaveBooking
  <2>5. CASE PaymentWebhookTicket(w)
    <3>1. /\ task[w].e \in sent \ acked
          /\ task'[w].op = "ticketed" /\ task'[w].e = task[w].e
          /\ \A v \in Workers : v # w => task'[v] = task[v]
          /\ UNCHANGED <<now, sent, acked, events>>
      BY <1>1, <2>5, TicketStep DEF ResultsInTime
    <3> QED BY <1>7, <3>1
  <2> QED BY <1>12, <2>1, <2>2, <2>3, <2>4, <2>5 DEF Step
<1>13. ASSUME CheckoutStep PROVE Goal
  <2>1. CASE Tick
    <3>1. \A e \in sent \ acked : now' < Deadline(e.b)
      BY <2>1, CarefulHazards DEF Tick, Timely
    <3>2. sent' = sent /\ acked' = acked /\ events' = events /\ task' = task
      BY <2>1 DEF Tick, gateway
    <3> QED BY <1>7, <3>1, <3>2
  <2>2. ASSUME NEW b \in Bookings, NEW o \in {"success", "failed"}, PayInFull(b, o) PROVE Goal
    <3>1. PICK e \in Result : e = [b |-> b, part |-> "full", outcome |-> o]
      BY DEF Result
    <3>2. Produce(e) /\ e.part \notin Friends
      BY <2>2, <3>1, SplitAssumption DEF PayInFull
    <3> QED BY <1>9, <3>2
  <2>3. ASSUME NEW w \in Workers, NEW b \in Bookings, NEW s \in Slots, NEW k \in Kinds,
               NEW F \in SUBSET Friends, CreateBookingLock(w, b, s, k, F)
        PROVE  Goal
    <3>1. \A v \in Workers : task'[v] = task[v] \/ task'[v].op = "create"
      BY <1>1, <2>3 DEF CreateBookingLock, TypeOK
    <3> QED BY <1>7, <2>3, <3>1 DEF CreateBookingLock, gateway
  <2>4. CASE ReminderLoad \/ ReminderSave
    <3>1. UNCHANGED <<now, sent, acked, events, task>>
      BY <2>4 DEF ReminderLoad, ReminderSave, gateway
    <3> QED BY <1>7, <3>1
  <2>5. [Next]_vars /\ Next
    BY <1>13 DEF CheckoutStep
  <2>6. CASE \E b \in Bookings : GetDigitalTicket(b)
    BY <1>7, <2>6 DEF GetDigitalTicket, gateway
  <2>7. CASE Environment
    BY <2>1, <2>2, <2>6, <2>7 DEF Environment
  <2>8. CASE Start
    BY <1>11, <2>3, <2>4, <2>8 DEF Start
  <2>9. CASE Continue
    BY <1>12, <2>4, <2>9 DEF Continue
  <2> QED BY <2>5, <2>7, <2>8, <2>9 DEF Next
<1>14. ASSUME NEW w \in Workers, SplitStep(w) PROVE Goal
  <2>1. CASE PaymentSplitMark(w)
    BY <1>7, <2>1 DEF PaymentSplitMark, vars, gateway
  <2>2. CASE PaymentSplitCommit(w) \/ PaymentSplitFailed(w)
    BY <1>10, <2>2 DEF PaymentSplitCommit, PaymentSplitFailed
  <2>3. ~StripeSplitMark(w) /\ ~StripeSplitRead(w) /\ ~StripeSplitFinish(w)
    BY <1>1 DEF ResultsInTime, StripeSplitMark, StripeSplitRead, StripeSplitFinish
  <2> QED BY <1>14, <2>1, <2>2, <2>3 DEF SplitStep
<1>15. ASSUME NEW b \in Bookings, NEW p \in Shares, NEW o \in {"success", "failed"},
              PayShare(b, p, o)
       PROVE  Goal
  <2>1. PICK e \in Result : e = [b |-> b, part |-> p, outcome |-> o]
    BY DEF Result, Shares
  <2>2. Produce(e) /\ (e.part \in Friends => splits[e.b][e.part] # "absent")
    BY <1>1, <1>15, <2>1 DEF PayShare, InvitedPay
  <2> QED BY <1>9, <2>2
<1>16. Goal
  <2>1. CASE UNCHANGED <<now, sent, acked, events, task>>
    BY <1>7, <2>1
  <2> QED BY <1>13, <1>14, <1>15, <2>1
          DEF SNext, Customers, VerifySplitToken, DeclineLoad, CancelLoad, DeclineSave,
              CancelCommit, ExpireLoad, ExpireCommit, CopyAbort, svars, vars, gateway
<1>17. \A b \in Bookings, f \in Friends : link'[b][f] # "none" => splits'[b][f] # "absent"
  <2>1. \A b \in Bookings, f \in Friends :
          link'[b][f] # "none" => link[b][f] # "none" \/ splits[b][f] # "absent"
    <3>1. CASE DeclineSave
      <4>1. PICK c \in copies :
              link' = [link EXCEPT ![c.b][c.f] =
                         IF c.link = "none" /\ @ = "saved" THEN "lost" ELSE @]
        BY <3>1 DEF DeclineSave
      <4> QED BY <1>1, <4>1 DEF STypeOK
    <3>2. ASSUME NEW x \in Bookings, NEW g \in Friends, VerifySplitToken(x, g)
          PROVE  \A b \in Bookings, f \in Friends :
                   link'[b][f] # "none" => link[b][f] # "none" \/ splits[b][f] # "absent"
      BY <1>1, <3>2 DEF VerifySplitToken, STypeOK
    <3>3. CASE link' = link
      BY <3>3
    <3> QED BY <3>1, <3>2, <3>3
            DEF SNext, CheckoutStep, Customers, DeclineLoad, CancelLoad, PayShare, SplitStep,
                PaymentSplitMark, PaymentSplitCommit, PaymentSplitFailed, StripeSplitMark,
                StripeSplitRead, StripeSplitFinish, CancelCommit, ExpireLoad, ExpireCommit,
                CopyAbort, svars
  <2> QED BY <1>1, <1>5, <1>6, <2>1 DEF InvitedPay
<1> QED BY <1>2, <1>16, <1>17 DEF TimeInv, InvitedPay, Goal

(***************************************************************************)
(* A payment counts from when its webhook is answered: a share is marked   *)
(* and a booking confirmed for payments that are answered, except the one  *)
(* being processed.  So no webhook is under way for a split booking that   *)
(* is confirmed.                                                           *)
(***************************************************************************)
Applied(b, p) == [b |-> b, part |-> p, outcome |-> "success"] \in acked
Cleared(b, f) == splits[b][f] = "absent" \/ Applied(b, f)
BillCleared(b) == Applied(b, "primary") /\ \A f \in Friends : Cleared(b, f)

ClearedRow(b, row) == row.kind = "split" =>
  /\ row.primaryPaid => Applied(b, "primary")
  /\ row.status = "confirmed" => BillCleared(b)
RowsAreCleared ==
  \A b \in Bookings, row \in BookingRow : InFlight(b, row) => ClearedRow(b, row)
SharesCleared ==
  \A b \in Bookings, f \in Friends : splits[b][f] = "paid" => Applied(b, f)
SeenCleared ==
  \A w \in Workers : seen[w].stage = "read" =>
    \A f \in Friends \ seen[w].unpaid :
      f = task[w].e.part \/ Cleared(task[w].e.b, f)

ClearInv == TimeInv /\ RowsAreCleared /\ SharesCleared /\ SeenCleared

LEMMA AnswersStay == ASSUME [SNext]_svars PROVE acked \subseteq acked'
<1>1. CASE CheckoutStep
  BY <1>1 DEF CheckoutStep, Next, Environment, Start, Continue, Tick, CreateBookingLock,
              PayInFull, Produce, GetDigitalTicket, Deliver, PaymentWebhookSkip,
              PaymentWebhookCheck, StripeWebhookLoad, Step, CreateBookingCommit,
              PaymentWebhookLoad, PaymentWebhookTicket, PaymentWebhookCommit,
              StripeWebhookSaveSlot, StripeWebhookSaveBooking, Failure,
              CreateBookingRollback, PaymentWebhookAbort, StripeWebhookAbort,
              ReminderLoad, ReminderSave, gateway
<1>2. CASE \E w \in Workers : SplitStep(w)
  BY <1>2 DEF SplitStep, PaymentSplitMark, PaymentSplitCommit, PaymentSplitFailed,
              StripeSplitMark, StripeSplitRead, StripeSplitFinish, vars, gateway
<1>3. CASE Customers \/ DeclineSave \/ ExpireLoad \/ CopyAbort \/ UNCHANGED svars
  BY <1>3, CustomersKeep, CopyingKeeps
<1>4. CASE CancelCommit \/ ExpireCommit
  BY <1>4 DEF CancelCommit, ExpireCommit, gateway
<1> QED BY <1>1, <1>2, <1>3, <1>4 DEF SNext

LEMMA ClearedStays ==
  ASSUME SInv, [SNext]_svars, SharesCleared', NEW b \in Bookings,
         booking[b].status # "absent", NEW f \in Friends, Cleared(b, f)
  PROVE  Cleared(b, f)'
BY AnswersStay, InvitedStays DEF InvitedStay, Cleared, Applied, SharesCleared

LEMMA ClearKept ==
  ASSUME BillInv, ClearInv, [SNext]_svars, TimeInv', SharesCleared',
         \A b \in Bookings, row \in BookingRow :
           InFlight(b, row)' => InFlight(b, row) \/ ClearedRow(b, row)',
         \A w \in Workers : seen'[w].stage = "read" =>
           \/ seen'[w] = seen[w] /\ task'[w].e = task[w].e
           \/ (\A f \in Friends \ seen[w].unpaid :
                 f = task[w].e.part \/ Cleared(task[w].e.b, f))'
  PROVE  ClearInv'
<1>1. /\ SInv /\ TypeOK /\ TypeInv /\ ForeignKeys /\ SeenIsOfShare
      /\ RowsAreCleared /\ SeenCleared /\ acked \subseteq acked'
  BY AnswersStay DEF BillInv, ClearInv, SInv, LockInv, TypeInv
<1>2. ASSUME NEW b \in Bookings, booking[b].status # "absent", NEW f \in Friends, Cleared(b, f)
      PROVE  Cleared(b, f)'
  BY <1>1, <1>2, ClearedStays
<1>3. RowsAreCleared'
  <2> SUFFICES ASSUME NEW b \in Bookings, NEW row \in BookingRow, InFlight(b, row)
               PROVE  ClearedRow(b, row)'
    BY DEF RowsAreCleared
  <2>1. ClearedRow(b, row)
    BY <1>1 DEF RowsAreCleared
  <2>2. row.kind = "split" /\ row.status = "confirmed" => booking[b].status # "absent"
    BY <1>1, FlightsExist
  <2> QED BY <1>1, <1>2, <2>1, <2>2 DEF ClearedRow, BillCleared, Applied
<1>4. SeenCleared'
  <2> SUFFICES ASSUME NEW w \in Workers, seen'[w].stage = "read",
                      seen'[w] = seen[w], task'[w].e = task[w].e,
                      NEW f \in Friends \ seen[w].unpaid, f # task[w].e.part
               PROVE  Cleared(task[w].e.b, f)'
    BY DEF SeenCleared
  <2>1. task[w].op \in {"loaded", "stripe_loaded"}
    BY <1>1 DEF SeenIsOfShare, Nothing, Look
  <2>2. PICK b \in Bookings : b = task[w].e.b /\ booking[b].status # "absent"
    BY <1>1, <2>1, LoadedTask DEF ForeignKeys
  <2>3. Cleared(b, f)'
    BY <1>1, <1>2, <2>2 DEF SeenCleared
  <2> QED BY <2>2, <2>3 DEF Cleared, Applied
<1> QED BY <1>3, <1>4 DEF ClearInv

LEMMA CheckoutClear ==
  ASSUME BillInv, ClearInv, CheckoutStep, TimeInv' PROVE ClearInv'
<1>1. /\ SInv /\ LockInv /\ TypeInv /\ TypeOK /\ STypeOK /\ SeenIsOfShare
      /\ RowsAreCleared /\ SharesCleared /\ SNext /\ [Next]_vars /\ copies' = copies
      /\ acked \subseteq acked' /\ Flights
  BY AnswersStay, CheckoutFlights
  DEF BillInv, ClearInv, SInv, LockInv, TypeInv, CheckoutStep, SNext
<1>2. \A b \in Bookings, f \in Friends : splits'[b][f] = "paid" => splits[b][f] = "paid"
  BY <1>1, CheckoutSends
<1>3. SharesCleared'
  BY <1>1, <1>2 DEF SharesCleared, Applied
<1>4. ASSUME NEW b \in Bookings, NEW row \in BookingRow, InFlight(b, row)'
      PROVE  InFlight(b, row) \/ ClearedRow(b, row)'
  <2>1. CASE Saved(b, row)
    <3>1. PICK old \in BookingRow :
            /\ InFlight(b, old) /\ ClearedRow(b, old) /\ booking[b].status # "absent"
            /\ SameOrder(row, old) /\ row.primaryPaid = old.primaryPaid
            /\ row.status = old.status \/ row.kind # "split"
      BY <1>1, <2>1, FlightsExist DEF Saved, RowsAreCleared
    <3>2. splits'[b] = splits[b]
      BY <1>1, <3>1, CheckoutKeepsShares
    <3> QED BY <1>1, <3>1, <3>2
            DEF ClearedRow, BillCleared, Cleared, Applied, SameOrder
  <2>2. CASE Created(b, row)
    BY <2>2 DEF Created, ClearedRow
  <2> QED BY <1>1, <1>4, <2>1, <2>2 DEF Flights
<1>5. ASSUME NEW w \in Workers, seen'[w].stage = "read"
      PROVE  seen'[w] = seen[w] /\ task'[w].e = task[w].e
  <2>1. seen'[w] = IF task'[w] = Idle THEN Nothing ELSE seen[w]
    BY DEF CheckoutStep
  <2>2. seen'[w] = seen[w] /\ task'[w] # Idle /\ seen[w] # Nothing
    BY <1>5, <2>1 DEF Nothing, Look
  <2>3. task[w].op \in {"loaded", "stripe_loaded"} /\ task[w].e.part # "full"
    BY <1>1, <2>2 DEF SeenIsOfShare
  <2>4. task'[w] = task[w] \/ task'[w] = Idle
    BY <1>1, <2>3, ShareTaskStays
  <2> QED BY <2>2, <2>4
<1> QED BY <1>1, <1>3, <1>4, <1>5, ClearKept

(* A step of the code of shares that saves no row.                         *)
LEMMA QuietClear ==
  ASSUME BillInv, ClearInv, [SNext]_svars, TimeInv',
         booking' = booking, splits' = splits, task' = task, reminding' = reminding,
         \A c \in copies' : c \in copies \/ c.op = "decline" \/ InFlight(c.b, c.bk),
         \A w \in Workers : seen'[w].stage = "read" =>
           \/ seen'[w] = seen[w]
           \/ \A f \in Friends \ seen'[w].unpaid :
                f = task[w].e.part \/ Cleared(task[w].e.b, f)
  PROVE  ClearInv'
<1>1. /\ SInv /\ TypeOK /\ TypeInv /\ SharesCleared /\ acked \subseteq acked'
  BY AnswersStay DEF BillInv, ClearInv, SInv, LockInv, TypeInv
<1>2. SharesCleared'
  BY <1>1 DEF SharesCleared, Applied
<1>3. ASSUME NEW b \in Bookings, NEW row \in BookingRow, InFlight(b, row)'
      PROVE  InFlight(b, row)
  <2>1. booking[b] \in BookingRow /\ (booking[b] = row => InFlight(b, row))
    BY <1>1 DEF TypeOK, InFlight
  <2>2. InFlight(b, row) \/ row = booking'[b]
    BY <1>1, <1>3, <2>1, WriteFlights
  <2> QED BY <2>1, <2>2
<1>4. \A w \in Workers : seen'[w].stage = "read" =>
        \/ seen'[w] = seen[w] /\ task'[w].e = task[w].e
        \/ (\A f \in Friends \ seen[w].unpaid :
              f = task[w].e.part \/ Cleared(task[w].e.b, f))'
  BY <1>1 DEF Cleared, Applied
<1> QED BY <1>2, <1>3, <1>4, ClearKept

(* A step of the code of shares that saves a row.                          *)
LEMMA WriteClear ==
  ASSUME BillInv, ClearInv, [SNext]_svars, TimeInv', SharesCleared',
         NEW b \in Bookings, NEW row \in BookingRow,
         booking' = [booking EXCEPT ![b] = row],
         InFlight(b, row) \/ ClearedRow(b, row)',
         reminding' = reminding, copies' \subseteq copies,
         \A w \in Workers : task'[w] = task[w] \/ task'[w] = Idle,
         \A w \in Workers : seen'[w].stage = "read" =>
           seen'[w] = seen[w] /\ task'[w] = task[w]
  PROVE  ClearInv'
<1>1. SInv
  BY DEF BillInv
<1>2. \A w \in Workers : task'[w].op \in LoadedOps =>
        task[w].op \in LoadedOps /\ task'[w].e = task[w].e /\ task'[w].bk = task[w].bk
  BY DEF Idle, LoadedOps
<1>3. \A x \in Bookings, z \in BookingRow :
        InFlight(x, z)' => InFlight(x, z) \/ (x = b /\ z = row)
  BY <1>1, <1>2, WriteFlights
<1>4. \A x \in Bookings, z \in BookingRow :
        InFlight(x, z)' => InFlight(x, z) \/ ClearedRow(x, z)'
  BY <1>3
<1> QED BY <1>4, ClearKept

LEMMA SplitStepClear ==
  ASSUME BillInv, ClearInv, TimeInv', NEW w \in Workers, SplitStep(w) PROVE ClearInv'
<1>1. /\ SInv /\ TypeOK /\ STypeOK /\ SeenIsOfShare /\ SNext /\ acked \subseteq acked'
      /\ ResultsInTime /\ RowsAreCleared /\ SharesCleared /\ SeenCleared
  BY AnswersStay DEF BillInv, ClearInv, TimeInv, SInv, LockInv, TypeInv, SNext
<1>2. ~StripeSplitMark(w) /\ ~StripeSplitRead(w) /\ ~StripeSplitFinish(w)
  BY <1>1 DEF ResultsInTime, StripeSplitMark, StripeSplitRead, StripeSplitFinish
<1>3. task[w].op = "loaded"
  BY <1>2 DEF SplitStep, PaymentSplitMark, PaymentSplitCommit, PaymentSplitFailed
<1>4. PICK b \in Bookings, t \in Loaded :
        /\ t = task[w] /\ b = t.e.b /\ t.e \in Result /\ t.bk \in BookingRow
        /\ booking[b].status # "absent"
  BY <1>3, ShareIsGood
<1>5. InFlight(b, t.bk) /\ ClearedRow(b, t.bk)
  BY <1>1, <1>3, <1>4 DEF InFlight, LoadedOps, RowsAreCleared
<1>6. /\ splits[b] \in [Friends -> SplitState]
      /\ Mark(t, splits[b]) \in [Friends -> SplitState]
      /\ \A f \in Friends :
           Mark(t, splits[b])[f] = IF t.e.part = f THEN "paid" ELSE splits[b][f]
  BY <1>1, MarkType DEF TypeOK
<1>7. ASSUME task' = [task EXCEPT ![w] = Idle]
      PROVE  \A v \in Workers : task'[v] = task[v] \/ task'[v] = Idle
  BY <1>1, <1>7 DEF TypeOK
<1>8. CASE PaymentSplitMark(w)
  <2>1. \A f \in Friends \ Unpaid(Mark(t, splits[b])) : f = t.e.part \/ Cleared(b, f)
    BY <1>1, <1>6 DEF Unpaid, SharesCleared, Cleared
  <2>2. \A v \in Workers : seen'[v].stage = "read" =>
          \/ seen'[v] = seen[v]
          \/ \A f \in Friends \ seen'[v].unpaid :
               f = task[v].e.part \/ Cleared(task[v].e.b, f)
    BY <1>1, <1>4, <1>8, <2>1 DEF PaymentSplitMark, STypeOK, Look
  <2> QED BY <1>1, <1>8, <2>2, QuietClear DEF PaymentSplitMark, vars, rows
<1>9. CASE PaymentSplitCommit(w)
  <2> DEFINE U == seen[w].unpaid
  <2>1. t.e.outcome = "success"
    BY <1>1, <1>4, <1>9 DEF PaymentSplitCommit, SeenIsOfShare, Nothing, Look
  <2>2. acked' = acked \cup {t.e} /\ splits' = [splits EXCEPT ![b] = Mark(t, @)]
    BY <1>4, <1>9 DEF PaymentSplitCommit
  <2>3. Applied(b, t.e.part)'
    BY <1>4, <2>1, <2>2 DEF Applied, Result
  <2>4. SharesCleared'
    <3>1. \A x \in Bookings, f \in Friends : splits'[x][f] = "paid" =>
            splits[x][f] = "paid" \/ (x = b /\ f = t.e.part)
      BY <1>1, <1>6, <2>2 DEF TypeOK
    <3> QED BY <1>1, <2>3, <3>1 DEF SharesCleared, Applied
  <2>5. PICK row \in BookingRow :
          /\ row = SplitBooking(t, U) /\ SameOrder(row, t.bk)
          /\ row.status = IF AllPaid(t, U) THEN "confirmed" ELSE t.bk.status
          /\ row.primaryPaid = HostMarked(t).primaryPaid
          /\ row.primaryPaid => t.bk.primaryPaid \/ t.e.part = "primary"
    <3>1. /\ SplitBooking(t, U) \in BookingRow
          /\ SplitBooking(t, U).kind = t.bk.kind
          /\ SplitBooking(t, U).bookedAt = t.bk.bookedAt
          /\ SplitBooking(t, U).status = IF AllPaid(t, U) THEN "confirmed" ELSE t.bk.status
          /\ SplitBooking(t, U).primaryPaid = HostMarked(t).primaryPaid
          /\ HostMarked(t).primaryPaid = (t.bk.primaryPaid \/ t.e.part = "primary")
      BY SplitRowsType
    <3>2. PICK row \in BookingRow : row = SplitBooking(t, U)
      BY <3>1
    <3> QED BY <3>1, <3>2 DEF SameOrder
  <2>6. ClearedRow(b, row)'
    <3> SUFFICES ASSUME row.kind = "split"
                 PROVE  /\ row.primaryPaid => Applied(b, "primary")'
                        /\ row.status = "confirmed" => BillCleared(b)'
      BY DEF ClearedRow
    <3>1. /\ t.bk.primaryPaid => Applied(b, "primary")
          /\ t.bk.status = "confirmed" => BillCleared(b)
      BY <1>5, <2>5 DEF ClearedRow, SameOrder
    <3>2. row.primaryPaid => Applied(b, "primary")'
      BY <1>1, <2>3, <2>5, <3>1 DEF Applied
    <3>3. \A f \in Friends : Cleared(b, f) => Cleared(b, f)'
      BY <1>1, <1>4, <2>4, ClearedStays
    <3>4. CASE AllPaid(t, U)
      <4>1. row.primaryPaid /\ U = {}
        BY <2>5, <3>4 DEF AllPaid
      <4>2. \A f \in Friends : f = t.e.part \/ Cleared(b, f)
        BY <1>1, <1>4, <1>9, <4>1 DEF PaymentSplitCommit, SeenCleared
      <4> QED BY <2>3, <3>2, <3>3, <4>1, <4>2 DEF BillCleared, Cleared
    <3>5. CASE ~AllPaid(t, U)
      BY <1>1, <2>5, <3>1, <3>2, <3>3, <3>5 DEF BillCleared, Applied
    <3> QED BY <3>4, <3>5
  <2>7. \A v \in Workers : seen'[v].stage = "read" =>
          seen'[v] = seen[v] /\ task'[v] = task[v]
    BY <1>1, <1>9 DEF PaymentSplitCommit, Finish, STypeOK, TypeOK, Nothing, Look
  <2> QED BY <1>1, <1>4, <1>7, <1>9, <2>4, <2>5, <2>6, <2>7, WriteClear
          DEF PaymentSplitCommit, Finish
<1>10. CASE PaymentSplitFailed(w)
  <2>1. \A v \in Workers : seen'[v].stage = "read" =>
          seen'[v] = seen[v] /\ task'[v] = task[v]
    <3>1. seen[w] = Nothing
      BY <1>1, <1>10 DEF PaymentSplitFailed, SeenIsOfShare
    <3> QED BY <1>1, <1>10, <3>1 DEF PaymentSplitFailed, Finish, TypeOK, Nothing, Look
  <2>2. SharesCleared'
    BY <1>1, <1>10 DEF PaymentSplitFailed, SharesCleared, Applied
  <2>3. PICK row \in BookingRow : row = t.bk
    BY <1>4
  <2> QED BY <1>1, <1>4, <1>5, <1>7, <1>10, <2>1, <2>2, <2>3, WriteClear
          DEF PaymentSplitFailed, Finish
<1> QED BY <1>2, <1>8, <1>9, <1>10 DEF SplitStep

LEMMA CopyClear ==
  ASSUME CarefulSplits, BillInv, ClearInv, TimeInv', DeclineSave \/ CancelCommit \/ ExpireCommit,
         \A c \in copies : c.op # "cancel"
  PROVE  ClearInv'
<1>1. /\ SInv /\ TypeOK /\ STypeOK /\ SNext /\ acked \subseteq acked'
      /\ RowsAreCleared /\ SharesCleared
  BY AnswersStay DEF BillInv, ClearInv, SInv, LockInv, TypeInv, SNext
<1>2. ASSUME task' = task, seen' = seen
      PROVE  /\ \A w \in Workers : task'[w] = task[w] \/ task'[w] = Idle
             /\ \A w \in Workers : seen'[w].stage = "read" =>
                  seen'[w] = seen[w] /\ task'[w] = task[w]
  BY <1>2
<1>3. CASE DeclineSave
  <2>1. PICK c \in copies :
          /\ c.op = "decline"
          /\ splits' = [splits EXCEPT ![c.b][c.f] = "declined"]
          /\ copies' = copies \ {c}
          /\ UNCHANGED <<now, slot, booking, ledger, ticket, gateway, events, task,
                         reminding, seen, refunded>>
    BY <1>3 DEF DeclineSave
  <2>2. c.b \in Bookings /\ c.f \in Friends
    BY <1>1, <2>1, CopyKinds DEF STypeOK
  <2>3. SharesCleared'
    BY <1>1, <2>1, <2>2 DEF SharesCleared, Applied, TypeOK
  <2>4. PICK b \in Bookings, row \in BookingRow : b = c.b /\ row = booking[b]
    BY <1>1, <2>2 DEF TypeOK
  <2>5. booking' = [booking EXCEPT ![b] = row] /\ InFlight(b, row)
    BY <1>1, <2>1, <2>4 DEF TypeOK, InFlight
  <2> QED BY <1>1, <1>2, <2>1, <2>3, <2>4, <2>5, WriteClear
<1>4. CASE ExpireCommit
  <2>1. PICK c \in copies :
          /\ c.op = "expire"
          /\ booking' = [booking EXCEPT ![c.b] =
                           [c.bk EXCEPT !.status = "expired", !.splitStatus = "expired"]]
          /\ splits' = [splits EXCEPT ![c.b] =
                          [f \in Friends |-> IF splits[c.b][f] = "absent" THEN "absent"
                                                                         ELSE "expired"]]
          /\ copies' = copies \ {c}
          /\ UNCHANGED <<task, reminding, seen>>
    BY <1>4 DEF ExpireCommit, Expirable
  <2>2. PICK b \in Bookings, bk \in BookingRow : b = c.b /\ bk = c.bk
    BY <1>1, <2>1, CopyKinds DEF STypeOK
  <2>3. SharesCleared'
    BY <1>1, <2>1, <2>2 DEF SharesCleared, Applied, TypeOK
  <2>4. PICK row \in BookingRow :
          row = [bk EXCEPT !.status = "expired", !.splitStatus = "expired"]
    BY ClosedRowType
  <2>5. row.kind = bk.kind /\ row.primaryPaid = bk.primaryPaid /\ row.status # "confirmed"
    BY <2>4, ClosedRowType
  <2>6. ClearedRow(b, bk)
    BY <1>1, <2>1, <2>2 DEF InFlight, RowsAreCleared
  <2>7. ClearedRow(b, row)'
    BY <1>1, <2>5, <2>6 DEF ClearedRow, Applied
  <2>8. booking' = [booking EXCEPT ![b] = row]
    BY <2>1, <2>2, <2>4, Zenon
  <2> QED BY <1>1, <1>2, <2>1, <2>3, <2>7, <2>8, WriteClear
<1>5. ~CancelCommit
  BY DEF CancelCommit
<1> QED BY <1>3, <1>4, <1>5

(***************************************************************************)
(* A copy the cron holds, and a refund it has asked for, are of a booking  *)
(* that was pending when its hold ended.  No webhook is under way for it   *)
(* then and none comes later, so it is never confirmed.  The reminder does *)
(* not revive it either: what it holds are bookings that are confirmed,    *)
(* and nothing takes that back.                                            *)
(***************************************************************************)
Lapsed(b) ==
  /\ booking[b].status # "absent" /\ booking[b].kind = "split"
  /\ Deadline(b) < now /\ ~Confirmed(b)
CopiesLapsed ==
  \A c \in copies : c.op # "decline" => c.op = "expire" /\ Lapsed(c.b)
RefundsLapsed == \A b \in Bookings, p \in Shares : <<b, p>> \in refunded => Lapsed(b)
RemindersStand ==
  \A r \in reminding : booking[r.b].kind = "split" => Confirmed(r.b)

RefundInv == BillInv /\ ClearInv /\ CopiesLapsed /\ RefundsLapsed /\ RemindersStand

(* A webhook that is under way is of a booking that is in time and not     *)
(* confirmed.                                                              *)
LEMMA WebhookIsInTime ==
  ASSUME RefundInv, NEW w \in Workers, task[w].op \in {"loaded", "ticketed"}
  PROVE  /\ ~Lapsed(task[w].e.b)
         /\ booking[task[w].e.b].kind = "split" => ~Confirmed(task[w].e.b)
<1>1. /\ TypeOK /\ TypeInv /\ ForeignKeys /\ ResultsInTime /\ InvitedPay /\ PartsMatch
      /\ RowsAreCleared
  BY DEF RefundInv, BillInv, ClearInv, TimeInv, SInv, LockInv, TypeInv
<1>2. PICK e \in sent \ acked, b \in Bookings :
        e = task[w].e /\ b = e.b /\ e \in Result /\ now < Deadline(b)
  BY <1>1 DEF ResultsInTime, TypeOK, Result
<1>3. ~Lapsed(b)
  <2>1. now \in Nat /\ Deadline(b) \in Int
    <3>1. HoldFor(booking[b].kind) \in Nat /\ booking[b].bookedAt \in Nat
      BY <1>1, HoldForType DEF TypeOK, BookingRow
    <3> QED BY <1>1, <3>1 DEF Deadline, TypeOK
  <2> QED BY <1>2, <2>1 DEF Lapsed
<1>4. ASSUME booking[b].kind = "split", Confirmed(b) PROVE FALSE
  <2>1. BillCleared(b)
    <3>1. booking[b] \in BookingRow /\ InFlight(b, booking[b])
      BY <1>1 DEF TypeOK, InFlight
    <3> QED BY <1>1, <1>4, <3>1 DEF RowsAreCleared, ClearedRow, Confirmed
  <2>2. e.part = "primary" \/ (e.part \in Friends /\ splits[b][e.part] # "absent")
    BY <1>1, <1>2, <1>4 DEF PartsMatch, InvitedPay, Result
  <2>3. Applied(b, e.part)
    BY <2>1, <2>2 DEF BillCleared, Cleared
  <2>4. PICK x \in acked : x.b = b /\ x.part = e.part
    BY <2>3 DEF Applied
  <2>5. x \in sent
    BY <1>1, <2>4 DEF ResultsInTime
  <2> QED BY <1>1, <1>2, <2>4, <2>5 DEF ResultsInTime
<1> QED BY <1>2, <1>3, <1>4

(* What a step may do to a split booking that has lapsed, or is confirmed. *)
LEMMA LapsedStays ==
  ASSUME RefundInv, [SNext]_svars, NEW b \in Bookings,
         booking[b].status # "absent", booking[b].kind = "split"
  PROVE  /\ ~Confirmed(b) /\ Lapsed(b) => ~Confirmed(b)'
         /\ Confirmed(b) => Confirmed(b)'
<1>1. /\ SInv /\ LockInv /\ TypeOK /\ STypeOK /\ TypeInv /\ ForeignKeys /\ RowsAreGood
      /\ RemindsConfirmed /\ PartsMatch /\ ResultsInTime
      /\ CopiesLapsed /\ RemindersStand
  BY DEF RefundInv, BillInv, ClearInv, TimeInv, SInv, LockInv, TypeInv
<1> DEFINE Goal == /\ ~Confirmed(b) /\ Lapsed(b) => ~Confirmed(b)'
                   /\ Confirmed(b) => Confirmed(b)'
<1> SUFFICES Goal
  OBVIOUS
<1>2. ASSUME booking'[b] = booking[b] PROVE Goal
  BY <1>2 DEF Confirmed
<1>3. ASSUME NEW w \in Workers, task[w].op \in {"loaded", "ticketed"}, NEW row,
             booking' = [booking EXCEPT ![task[w].e.b] = row]
      PROVE  Goal
  <2>1. CASE task[w].e.b = b
    <3>1. ~Lapsed(b) /\ ~Confirmed(b)
      BY <1>3, <2>1, WebhookIsInTime
    <3> QED BY <3>1
  <2>2. CASE task[w].e.b # b
    BY <1>1, <1>2, <1>3, <2>2 DEF TypeOK
  <2> QED BY <2>1, <2>2
<1> HIDE DEF Goal
<1>4. CASE ReminderSave
  <2>1. PICK r \in reminding :
          booking' = [booking EXCEPT ![r.b] = [r.bk EXCEPT !.reminded = TRUE]]
    BY <1>4 DEF ReminderSave
  <2>2. r.bk \in BookingRow /\ r.bk.status = "confirmed"
    BY <1>1 DEF TypeOK, RemindsConfirmed
  <2>3. CASE r.b = b
    <3>1. Confirmed(b) /\ Confirmed(b)'
      BY <1>1, <2>1, <2>2, <2>3 DEF RemindersStand, Confirmed, TypeOK, BookingRow
    <3> QED BY <3>1 DEF Goal
  <2>4. CASE r.b # b
    BY <1>1, <1>2, <2>1, <2>4 DEF TypeOK
  <2> QED BY <2>3, <2>4
<1>5. CASE ExpireCommit
  <2>1. PICK c \in copies :
          /\ c.op = "expire"
          /\ booking' = [booking EXCEPT ![c.b] =
                           [c.bk EXCEPT !.status = "expired", !.splitStatus = "expired"]]
    BY <1>5 DEF ExpireCommit, Expirable
  <2>2. c.bk \in BookingRow /\ ~Confirmed(c.b)
    BY <1>1, <2>1, CopyKinds DEF STypeOK, CopiesLapsed, Lapsed
  <2>3. CASE c.b = b
    <3>1. ~Confirmed(b) /\ ~Confirmed(b)'
      BY <1>1, <2>1, <2>2, <2>3 DEF Confirmed, TypeOK, BookingRow
    <3> QED BY <3>1 DEF Goal
  <2>4. CASE c.b # b
    BY <1>1, <1>2, <2>1, <2>4 DEF TypeOK
  <2> QED BY <2>3, <2>4
<1>6. ~CancelCommit
  BY <1>1 DEF CancelCommit, CopiesLapsed
<1>7. ASSUME NEW w \in Workers, SplitStep(w) PROVE Goal
  <2>1. ~StripeSplitMark(w) /\ ~StripeSplitRead(w) /\ ~StripeSplitFinish(w)
    BY <1>1 DEF ResultsInTime, StripeSplitMark, StripeSplitRead, StripeSplitFinish
  <2>2. CASE PaymentSplitMark(w)
    BY <1>2, <2>2 DEF PaymentSplitMark, vars, rows
  <2>3. CASE PaymentSplitCommit(w)
    BY <1>3, <2>3 DEF PaymentSplitCommit
  <2>4. CASE PaymentSplitFailed(w)
    BY <1>3, <2>4 DEF PaymentSplitFailed
  <2> QED BY <1>7, <2>1, <2>2, <2>3, <2>4 DEF SplitStep
<1>8. ASSUME NEW w \in Workers, Step(w) PROVE Goal
  <2>1. CASE CreateBookingCommit(w)
    <3>1. task[w].b # b
      BY <1>1, <2>1 DEF CreateBookingCommit, LockInv, CopyIsCurrent
    <3> QED BY <1>1, <1>2, <2>1, <3>1 DEF CreateBookingCommit, TypeOK
  <2>2. CASE PaymentWebhookLoad(w)
    BY <1>2, <2>2 DEF PaymentWebhookLoad, rows
  <2>3. CASE PaymentWebhookCommit(w)
    BY <1>3, <2>3 DEF PaymentWebhookCommit
  <2>4. ~StripeWebhookSaveSlot(w) /\ ~StripeWebhookSaveBooking(w)
    BY <1>1 DEF ResultsInTime, StripeWebhookSaveSlot, StripeWebhookSaveBooking
  <2>5. CASE PaymentWebhookTicket(w)
    BY <1>2, <2>5 DEF PaymentWebhookTicket
  <2> QED BY <1>8, <2>1, <2>2, <2>3, <2>4, <2>5 DEF Step
<1>9. CASE UNCHANGED booking
  BY <1>2, <1>9
<1>10. CASE CheckoutStep
  <2>1. Environment \/ Start \/ (\E w \in Workers : Failure(w)) => UNCHANGED booking
    BY DEF Environment, Tick, PayInFull, Produce, GetDigitalTicket, Start,
           CreateBookingLock, Deliver, PaymentWebhookSkip, PaymentWebhookCheck,
           StripeWebhookLoad, ReminderLoad, Failure, CreateBookingRollback,
           PaymentWebhookAbort, StripeWebhookAbort, rows
  <2> QED BY <1>4, <1>8, <1>9, <1>10, <2>1 DEF CheckoutStep, Next, Continue
<1>11. CASE Customers \/ DeclineSave \/ ExpireLoad \/ CopyAbort \/ UNCHANGED svars
  BY <1>9, <1>11, CustomersKeep, CopyingKeeps
<1> QED BY <1>5, <1>6, <1>7, <1>10, <1>11 DEF SNext

LEMMA RefundNext ==
  ASSUME CarefulSplits, RefundInv, [SNext]_svars PROVE RefundInv'
<1>1. /\ SInv /\ TypeOK /\ STypeOK /\ ForeignKeys /\ CopiesExist
      /\ BillInv /\ ClearInv /\ TimeInv /\ CopiesLapsed /\ RefundsLapsed /\ RemindersStand
      /\ BillInv' /\ Grows /\ TypeOK' /\ SInv'
  BY BillNext DEF RefundInv, BillInv, ClearInv, SInv, LockInv, TypeInv
<1>2. TimeInv'
  BY <1>1, TimeNext
<1>3. ClearInv'
  <2>1. CASE Customers \/ ExpireLoad \/ CopyAbort \/ UNCHANGED svars
    <3>1. UNCHANGED <<booking, splits, task, reminding, seen>>
      BY <2>1, CustomersKeep DEF ExpireLoad, CopyAbort, svars, vars, rows
    <3>2. \A c \in copies' : c \in copies \/ c.op = "decline" \/ InFlight(c.b, c.bk)
      BY CopiesLoaded DEF InFlight
    <3> QED BY <1>1, <1>2, <3>1, <3>2, QuietClear
  <2>2. \A c \in copies : c.op # "cancel"
    BY <1>1 DEF CopiesLapsed
  <2> QED BY <1>1, <1>2, <2>1, <2>2, CheckoutClear, SplitStepClear, CopyClear DEF SNext
<1>4. now' \in Nat /\ now' >= now
  <2>1. now' = now \/ now' = now + 1
    <3>1. CASE CheckoutStep
      BY <3>1
      DEF CheckoutStep, Next, Environment, Start, Continue, Tick, CreateBookingLock,
          PayInFull, Produce, GetDigitalTicket, Deliver, PaymentWebhookSkip,
          PaymentWebhookCheck, StripeWebhookLoad, Step, CreateBookingCommit,
          PaymentWebhookLoad, PaymentWebhookTicket, PaymentWebhookCommit,
          StripeWebhookSaveSlot, StripeWebhookSaveBooking, Failure,
          CreateBookingRollback, PaymentWebhookAbort, StripeWebhookAbort, ReminderLoad,
          ReminderSave
    <3> QED BY <1>1, <3>1, SplitCodeKeeps
  <2> QED BY <1>1, <2>1 DEF TypeOK
<1>5. ASSUME NEW b \in Bookings, Lapsed(b) PROVE Lapsed(b)'
  <2>1. booking'[b].status # "absent"
    BY <1>1, <1>5, BookingStays DEF Lapsed
  <2>2. booking'[b].kind = "split" /\ Deadline(b)' = Deadline(b)
    BY <1>1, <1>5 DEF Lapsed, Grows, SameOrder, Deadline
  <2>3. ~Confirmed(b)'
    BY <1>5, LapsedStays DEF Lapsed
  <2>4. Deadline(b) \in Int
    <3>1. HoldFor(booking[b].kind) \in Nat /\ booking[b].bookedAt \in Nat
      BY <1>1, HoldForType DEF TypeOK, BookingRow
    <3> QED BY <3>1 DEF Deadline
  <2>5. Deadline(b)' < now'
    BY <1>1, <1>4, <1>5, <2>2, <2>4 DEF Lapsed, TypeOK
  <2> QED BY <2>1, <2>2, <2>3, <2>5 DEF Lapsed
<1>6. CopiesLapsed'
  <2>1. \A c \in copies' : c \in copies \/ c.op = "decline" \/
          (c.op = "expire" /\ Lapsed(c.b))
    BY CarefulHazards, CopiesLoaded DEF Overdue, Lapsed, Confirmed
  <2>2. \A c \in copies' : c.b \in Bookings
    BY <1>1, CopyKinds DEF SInv, STypeOK
  <2> QED BY <1>1, <1>5, <2>1, <2>2 DEF CopiesLapsed
<1>7. RefundsLapsed'
  <2>1. \A b \in Bookings, p \in Shares : <<b, p>> \in refunded' =>
          <<b, p>> \in refunded \/ Lapsed(b)
    <3>1. ASSUME NEW c \in copies, refunded' = refunded \cup RefundsDue(c), c.op # "decline"
          PROVE  \A b \in Bookings, p \in Shares : <<b, p>> \in refunded' =>
                   <<b, p>> \in refunded \/ Lapsed(b)
      <4>1. \A b \in Bookings, p \in Shares : <<b, p>> \in RefundsDue(c) => b = c.b
        BY DEF RefundsDue
      <4> QED BY <1>1, <3>1, <4>1 DEF CopiesLapsed
    <3>2. CASE refunded' = refunded
      BY <3>2
    <3>3. CASE CopyAbort \/ CancelCommit \/ ExpireCommit
      BY <3>1, <3>2, <3>3 DEF CopyAbort, CancelCommit, ExpireCommit, Expirable
    <3> QED BY <3>2, <3>3
            DEF SNext, CheckoutStep, Customers, VerifySplitToken, DeclineLoad, CancelLoad,
                PayShare, SplitStep, PaymentSplitMark, PaymentSplitCommit,
                PaymentSplitFailed, StripeSplitMark, StripeSplitRead, StripeSplitFinish,
                DeclineSave, ExpireLoad, svars
  <2> QED BY <1>1, <1>5, <2>1 DEF RefundsLapsed
<1>8. RemindersStand'
  <2>1. \A r \in reminding' :
          r \in reminding \/ (r.b \in Bookings /\ Confirmed(r.b) /\ booking' = booking)
    BY <1>1, RemindersLoaded
  <2>2. ASSUME NEW r \in reminding, booking'[r.b].kind = "split"
        PROVE  Confirmed(r.b)'
    <3>1. r.b \in Bookings /\ booking[r.b].status # "absent"
      BY <1>1 DEF TypeOK, ForeignKeys
    <3>2. booking[r.b].kind = "split"
      BY <1>1, <2>2, <3>1 DEF Grows, SameOrder
    <3> QED BY <1>1, <3>1, <3>2, LapsedStays DEF RemindersStand
  <2>3. ASSUME NEW r \in reminding', r.b \in Bookings, Confirmed(r.b), booking' = booking
        PROVE  Confirmed(r.b)'
    BY <2>3 DEF Confirmed
  <2> QED BY <2>1, <2>2, <2>3 DEF RemindersStand
<1> QED BY <1>1, <1>3, <1>6, <1>7, <1>8 DEF RefundInv

LEMMA RefundInit == ASSUME SInit PROVE RefundInv
<1>1. BillInv
  BY BillInit
<1>2. LedgerInv
  BY LedgerInit DEF SInit
<1>3. TimeInv
  BY <1>2 DEF SInit, Init, TimeInv, ResultsInTime, InvitedPay, Idle
<1>4. RowsAreCleared
  BY DEF SInit, Init, RowsAreCleared, InFlight, ClearedRow, Absent, Idle, LoadedOps
<1>5. SharesCleared /\ SeenCleared
  BY DEF SInit, Init, SharesCleared, SeenCleared, Nothing, Look
<1>6. CopiesLapsed /\ RefundsLapsed /\ RemindersStand
  BY DEF SInit, Init, CopiesLapsed, RefundsLapsed, RemindersStand
<1> QED BY <1>1, <1>3, <1>4, <1>5, <1>6 DEF RefundInv, ClearInv

(* A booking for one of whose shares the gateway was asked to return the   *)
(* money is not confirmed, then or later: the refund is asked for outside  *)
(* the transaction, which may be rolled back, but by then no payment of    *)
(* the booking is on its way that could still confirm it.  Any number of   *)
(* friends, bookings of all kinds, goroutines and crashes; payments are in *)
(* time, through the idempotent webhook, and hosts do not cancel.          *)
THEOREM RefundedSplitsStayClosed ==
  ASSUME CarefulSplits
  PROVE  SSpec => []RefundedIsNotConfirmed
<1>1. SInit => RefundInv
  BY RefundInit
<1>2. RefundInv /\ [SNext]_svars => RefundInv'
  BY RefundNext
<1>3. RefundInv => RefundedIsNotConfirmed
  BY DEF RefundInv, RefundsLapsed, Lapsed, RefundedIsNotConfirmed
<1> QED BY <1>1, <1>2, <1>3, PTL DEF SSpec
=============================================================================
