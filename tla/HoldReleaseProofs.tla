------------------------- MODULE HoldReleaseProofs -------------------------
(***************************************************************************)
(* Theorems about HoldRelease: what the checkout promises alone it still   *)
(* promises while admins and the expiry cron write the same rows without   *)
(* locking the slot.  The lemmas of CheckoutProofs about a step of         *)
(* Checkout are used as they are; what is new is that the other writers    *)
(* keep the invariants of the checkout too.                                *)
(***************************************************************************)
EXTENDS HoldRelease, CheckoutProofs, SequenceTheorems

(***************************************************************************)
(* The bookings a release is cancelling stay pending until it commits,     *)
(* because their rows are locked, and two releases never cancel the same   *)
(* booking.                                                                *)
(***************************************************************************)
BatchesArePending ==
  \A r \in Servers : work[r].op = "cancelling" =>
    \A b \in work[r].bs : booking[b].status = "pending"
BatchesAreApart ==
  \A q, r \in Servers :
    work[q].op = "cancelling" /\ work[r].op = "cancelling" /\ q # r
      => work[q].bs \cap work[r].bs = {}

HTypeInv == HTypeOK /\ TypeInv /\ BatchesArePending /\ BatchesAreApart
HLockInv == HTypeInv /\ LockInv
HFinalInv == HLockInv /\ FinalInv

USE DEF NoHold
-----------------------------------------------------------------------------
(* Types of the new state.                                                 *)

LEMMA WorkKinds ==
  ASSUME NEW t \in Work
  PROVE  /\ t.op = "joining" => t \in Joining
         /\ t.op = "stamped" => t \in Stamped
         /\ t.op \in {"extending", "editing", "releasing"} => t \in SlotCopy
         /\ t.op = "cancelling" => t \in Cancelling
BY DEF Work, Idle, Joining, Stamped, SlotCopy, Cancelling

(* The record a server works on, by its op.                                *)
LEMMA ServerWork ==
  ASSUME HTypeOK, NEW r \in Servers
  PROVE  /\ work[r].op \in {"joining", "stamped"} =>
              work[r].u \in Users /\ work[r].s \in Slots
         /\ work[r].op = "stamped" => work[r].at \in Nat
         /\ work[r].op \in {"extending", "editing", "releasing", "cancelling"} =>
              work[r].s \in Slots /\ work[r].sl \in SlotRow
         /\ work[r].op = "cancelling" => work[r].bs \subseteq Bookings
<1>1. work[r] \in Work
  BY DEF HTypeOK
<1> QED BY <1>1, WorkKinds DEF Joining, Stamped, SlotCopy, Cancelling

(* Telling the first waiting user marks one entry, that has waited longest *)
(* by its time, and nothing else.                                          *)
LEMMA NotifyFirstMarks ==
  ASSUME NEW q \in Seq(Entry), NEW n \in NotifyFirst(q)
  PROVE  /\ n \in Seq(Entry) /\ Len(n) = Len(q)
         /\ \A i \in 1 .. Len(q) :
              /\ n[i].at = q[i].at
              /\ q[i].status = "notified" => n[i].status = "notified"
              /\ n[i].status = "notified" /\ q[i].status # "notified" =>
                   \A j \in 1 .. Len(q) : q[j].at < q[i].at => q[j].status = "notified"
<1> DEFINE W == {i \in WaitingIn(q) : \A j \in WaitingIn(q) : q[i].at <= q[j].at}
<1>1. /\ Len(q) \in Nat /\ DOMAIN q = 1 .. Len(q)
      /\ \A i \in 1 .. Len(q) : q[i] \in Entry
  BY LenProperties, ElementOfSeq
<1>2. CASE n = q
  BY <1>1, <1>2
<1>3. CASE n # q
  <2>1. PICK m \in W : n = [q EXCEPT ![m].status = "notified"]
    BY <1>3 DEF NotifyFirst, Told
  <2>2. m \in 1 .. Len(q) /\ q[m] \in Entry
    BY <1>1 DEF WaitingIn
  <2>3. PICK e : e = [q[m] EXCEPT !.status = "notified"]
    OBVIOUS
  <2>4. e \in Entry /\ e.status = "notified" /\ e.at = q[m].at
    BY <2>2, <2>3 DEF Entry
  <2>5. n = [q EXCEPT ![m] = e]
    BY <2>1, <2>3
  <2>6. /\ n \in Seq(Entry) /\ Len(n) = Len(q)
        /\ \A i \in 1 .. Len(q) : n[i] = IF i = m THEN e ELSE q[i]
    BY <2>2, <2>4, <2>5, ExceptSeq
  <2>7. \A j \in 1 .. Len(q) : q[j].at < q[m].at => q[j].status = "notified"
    <3>1. \A j \in 1 .. Len(q) : q[j].status = "waiting" => q[m].at <= q[j].at
      BY <1>1 DEF WaitingIn
    <3> QED BY <1>1, <2>2, <3>1 DEF Entry
  <2> QED BY <2>2, <2>4, <2>6, <2>7
<1> QED BY <1>2, <1>3
-----------------------------------------------------------------------------
(* Type correctness.                                                       *)

LEMMA HInitType == ASSUME HInit PROVE HTypeInv
<1>1. slot \in [Slots -> SlotRow]
  BY CheckoutAssumption, HoldReleaseAssumption DEF HInit, SlotRow
<1>2. booking \in [Bookings -> BookingRow]
  BY AbsentType DEF HInit
<1>3. splits \in [Bookings -> [Friends -> SplitState]]
  BY DEF HInit, SplitState
<1>4. task \in [Workers -> Task] /\ work \in [Servers -> Work]
  BY DEF HInit, Task, Work
<1>5. waitlist \in [Slots -> Seq(Entry)]
  BY EmptySeq DEF HInit
<1>6. TypeOK
  BY <1>1, <1>2, <1>3, <1>4 DEF HInit, TypeOK
<1>7. ForeignKeys
  BY DEF HInit, ForeignKeys, Absent, Idle
<1>8. BatchesArePending /\ BatchesAreApart
  BY DEF HInit, BatchesArePending, BatchesAreApart, Idle
<1> QED BY <1>4, <1>5, <1>6, <1>7, <1>8 DEF HInit, HTypeOK, TypeInv, HTypeInv

LEMMA HTypeNext ==
  ASSUME HTypeOK, TypeInv, BatchesArePending, [HNext]_hvars
  PROVE  HTypeOK' /\ TypeInv'
<1>1. TypeOK /\ ForeignKeys
  BY DEF TypeInv
<1>2. ASSUME UNCHANGED vars,
             waitlist' \in [Slots -> Seq(Entry)], stamped' \in [Slots -> Nat],
             work' \in [Servers -> Work],
             expiring' \subseteq [s : Slots, sl : SlotRow]
      PROVE  HTypeOK' /\ TypeInv'
  BY <1>2, NextType DEF HTypeOK, TypeInv
<1>3. CASE Unlocked(Next)
  BY <1>3, NextType DEF Unlocked, HTypeOK, TypeInv
<1>4. ASSUME NEW r \in Joiners, NEW s \in Slots, NEW u \in Users,
             JoinWaitlistCheck(r, u, s)
      PROVE  HTypeOK' /\ TypeInv'
  BY <1>2, <1>4 DEF JoinWaitlistCheck, Begin, HTypeOK, Work, Joining, Servers
<1>5. ASSUME NEW r \in Requests, NEW s \in Slots, EditLoad(r, s)
      PROVE  HTypeOK' /\ TypeInv'
  <2>1. slot[s] \in SlotRow /\ slot[s].hold + ExtendTime \in Nat
    BY <1>1, HoldReleaseAssumption DEF TypeOK, SlotRow
  <2>2. [slot[s] EXCEPT !.hold = @ + ExtendTime] \in SlotRow
    BY <2>1 DEF SlotRow
  <2>3. PICK t \in SlotCopy : Begin(r, t)
    <3>1. /\ [op |-> "extending", s |-> s,
              sl |-> [slot[s] EXCEPT !.hold = @ + ExtendTime]] \in SlotCopy
          /\ [op |-> "editing", s |-> s, sl |-> slot[s]] \in SlotCopy
      BY <2>1, <2>2 DEF SlotCopy
    <3> QED BY <1>5, <3>1 DEF EditLoad
  <2>4. work' \in [Servers -> Work]
    BY <2>3 DEF Begin, HTypeOK, Work
  <2> QED BY <1>2, <1>5, <2>4 DEF EditLoad, HTypeOK
<1>6. ASSUME NEW r \in Requests, NEW s \in Slots, ForceReleaseLoad(r, s)
      PROVE  HTypeOK' /\ TypeInv'
  <2>1. slot[s] \in SlotRow
    BY <1>1 DEF TypeOK
  <2>2. work' \in [Servers -> Work]
    BY <1>6, <2>1 DEF ForceReleaseLoad, Begin, HTypeOK, Work, SlotCopy
  <2> QED BY <1>2, <1>6, <2>2 DEF ForceReleaseLoad, HTypeOK
<1>7. CASE ExpiryLoad
  <2>1. expiring' \subseteq [s : Slots, sl : SlotRow]
    BY <1>1, <1>7 DEF ExpiryLoad, TypeOK
  <2> QED BY <1>2, <1>7, <2>1 DEF ExpiryLoad, HTypeOK
<1>8. CASE ExpiryBegin
  <2>1. PICK x \in expiring :
          /\ work' = [work EXCEPT ![Cron] =
                        [op |-> "releasing", s |-> x.s,
                         sl |-> [x.sl EXCEPT !.booked = FALSE]]]
          /\ expiring' = expiring \ {x}
          /\ UNCHANGED <<vars, waitlist, stamped>>
    BY <1>8 DEF ExpiryBegin, Begin
  <2>2. x.s \in Slots /\ x.sl \in SlotRow
    BY DEF HTypeOK
  <2>3. [x.sl EXCEPT !.booked = FALSE] \in SlotRow
    BY <2>2 DEF SlotRow
  <2>4. work' \in [Servers -> Work]
    BY <2>1, <2>2, <2>3 DEF HTypeOK, Work, SlotCopy
  <2> QED BY <1>2, <2>1, <2>4 DEF HTypeOK
<1>9. ASSUME NEW r \in Joiners, JoinWaitlistCreate(r)
      PROVE  HTypeOK' /\ TypeInv'
  <2> DEFINE e == [user |-> work[r].u, status |-> "waiting", at |-> work[r].at]
  <2>1. work[r].u \in Users /\ work[r].s \in Slots /\ work[r].at \in Nat
    BY <1>9, ServerWork DEF JoinWaitlistCreate, Servers
  <2>2. e \in Entry
    BY <2>1 DEF Entry
  <2>3. waitlist' = [waitlist EXCEPT ![work[r].s] = Append(@, e)]
    BY <1>9 DEF JoinWaitlistCreate
  <2> HIDE DEF e
  <2>4. waitlist' \in [Slots -> Seq(Entry)]
    BY <2>1, <2>2, <2>3, AppendProperties DEF HTypeOK
  <2> QED BY <1>2, <1>9, <2>4 DEF JoinWaitlistCreate, End, HTypeOK, Work
<1>10. ASSUME NEW r \in Requests, EditSave(r)
       PROVE  HTypeOK' /\ TypeInv'
  <2>1. work[r].s \in Slots /\ work[r].sl \in SlotRow
    BY <1>10, ServerWork DEF EditSave, Servers
  <2>2. TypeOK'
    BY <1>1, <1>10, <2>1 DEF EditSave, TypeOK, gateway
  <2>3. ForeignKeys'
    BY <1>1, <1>10 DEF EditSave, ForeignKeys, gateway
  <2> QED BY <1>10, <2>2, <2>3 DEF EditSave, End, HTypeOK, TypeInv, Work
<1>11. ASSUME NEW r \in Servers, ReleaseCancel(r)
       PROVE  HTypeOK' /\ TypeInv'
  <2> DEFINE bs == {b \in Bookings : booking[b].slot = work[r].s
                                     /\ booking[b].status = "pending"}
  <2>1. work[r].s \in Slots /\ work[r].sl \in SlotRow /\ bs \subseteq Bookings
    BY <1>11, ServerWork DEF ReleaseCancel
  <2>2. work' = [work EXCEPT ![r] = [op |-> "cancelling", s |-> work[r].s,
                                     sl |-> work[r].sl, bs |-> bs]]
    BY <1>11 DEF ReleaseCancel
  <2> HIDE DEF bs
  <2>3. work' \in [Servers -> Work]
    BY <2>1, <2>2 DEF HTypeOK, Work, Cancelling
  <2> QED BY <1>2, <1>11, <2>3 DEF ReleaseCancel, HTypeOK
<1>12. ASSUME NEW r \in Servers, ReleaseCommit(r)
       PROVE  HTypeOK' /\ TypeInv'
  <2> DEFINE t == work[r]
  <2>1. t.s \in Slots /\ t.sl \in SlotRow /\ t.bs \subseteq Bookings
    BY <1>12, ServerWork DEF ReleaseCommit
  <2>2. [t.sl EXCEPT !.hold = NoHold] \in SlotRow
    BY <2>1 DEF SlotRow
  <2>3. \A b \in Bookings :
          LET row == [booking[b] EXCEPT !.status = "cancelled"]
          IN  row \in BookingRow /\ row.slot = booking[b].slot /\ row.status = "cancelled"
    BY <1>1 DEF TypeOK, BookingRow, Status
  <2>4. booking' \in [Bookings -> BookingRow]
    BY <1>1, <1>12, <2>3 DEF ReleaseCommit, TypeOK
  <2>5. TypeOK'
    BY <1>1, <1>12, <2>1, <2>2, <2>4 DEF ReleaseCommit, TypeOK, gateway
  <2>6. \A b \in Bookings :
          /\ booking'[b].slot = booking[b].slot
          /\ booking'[b].status = "absent" <=> booking[b].status = "absent"
    BY <1>12, <2>3 DEF ReleaseCommit, BatchesArePending
  <2>7. UNCHANGED <<sent, task, reminding>>
    BY <1>12 DEF ReleaseCommit, gateway
  <2>8. ForeignKeys'
    BY <1>1, <2>6, <2>7 DEF ForeignKeys, TypeOK, Result
  <2>9. waitlist' \in [Slots -> Seq(Entry)]
    <3>1. waitlist[t.s] \in Seq(Entry)
      BY <2>1 DEF HTypeOK
    <3>2. PICK n \in NotifyFirst(waitlist[t.s]) : waitlist' = [waitlist EXCEPT ![t.s] = n]
      BY <1>12 DEF ReleaseCommit
    <3>3. n \in Seq(Entry)
      BY <3>1, NotifyFirstMarks
    <3> QED BY <2>1, <3>2, <3>3 DEF HTypeOK
  <2> QED BY <1>12, <2>5, <2>8, <2>9 DEF ReleaseCommit, End, HTypeOK, TypeInv, Work
<1>13. ASSUME NEW r \in Servers, ReleaseAbort(r)
       PROVE  HTypeOK' /\ TypeInv'
  BY <1>2, <1>13 DEF ReleaseAbort, End, HTypeOK, Work
<1>14. CASE UNCHANGED hvars
  BY <1>2, <1>14 DEF hvars, HTypeOK
<1>15. ASSUME NEW r \in Joiners, JoinWaitlistStamp(r)
       PROVE  HTypeOK' /\ TypeInv'
  <2>1. work[r].u \in Users /\ work[r].s \in Slots
    BY <1>15, ServerWork DEF JoinWaitlistStamp, Servers
  <2>2. stamped[work[r].s] + 1 \in Nat
    BY <2>1 DEF HTypeOK
  <2>3. work' \in [Servers -> Work] /\ stamped' \in [Slots -> Nat]
    BY <1>15, <2>1, <2>2 DEF JoinWaitlistStamp, HTypeOK, Work, Stamped, Servers
  <2> QED BY <1>2, <1>15, <2>3 DEF JoinWaitlistStamp, HTypeOK
<1> QED BY <1>3, <1>4, <1>5, <1>6, <1>7, <1>8, <1>9, <1>10, <1>11, <1>12, <1>13, <1>14,
           <1>15
        DEF HNext, HStart, HContinue

(* A step of Checkout waits for the rows of every batch.                   *)
LEMMA BatchesNext ==
  ASSUME HTypeInv, [HNext]_hvars
  PROVE  BatchesArePending' /\ BatchesAreApart'
<1>1. HTypeOK /\ TypeOK /\ \A r \in Servers : work[r].op = "cancelling" =>
                                work[r].bs \subseteq Bookings
  BY ServerWork DEF HTypeInv, TypeInv
<1>2. ASSUME booking' = booking,
             \A q \in Servers : work'[q].op = "cancelling" => work'[q] = work[q]
      PROVE  BatchesArePending' /\ BatchesAreApart'
  BY <1>2 DEF HTypeInv, BatchesArePending, BatchesAreApart
<1>3. CASE Unlocked(Next)
  <2>1. work' = work /\ \A b \in Bookings : BookingLocked(b) => booking'[b] = booking[b]
    BY <1>3 DEF Unlocked
  <2> QED BY <1>1, <2>1 DEF HTypeInv, BatchesArePending, BatchesAreApart, BookingLocked
<1>4. ASSUME NEW r \in Servers, booking' = booking,
             NEW t, t.op # "cancelling", work' = [work EXCEPT ![r] = t]
      PROVE  BatchesArePending' /\ BatchesAreApart'
  BY <1>1, <1>2, <1>4 DEF HTypeOK
<1>5. /\ Requests \subseteq Servers /\ Joiners \subseteq Servers /\ Cron \in Servers
      /\ Idle.op # "cancelling"
  BY DEF Servers, Idle
<1>6. ASSUME NEW r \in Servers, NEW s \in Slots,
             \/ \E u \in Users : JoinWaitlistCheck(r, u, s)
             \/ EditLoad(r, s) \/ ForceReleaseLoad(r, s)
      PROVE  BatchesArePending' /\ BatchesAreApart'
  <2>1. \E t : t.op # "cancelling" /\ work' = [work EXCEPT ![r] = t]
    BY <1>6 DEF JoinWaitlistCheck, EditLoad, ForceReleaseLoad, Begin
  <2>2. booking' = booking
    BY <1>6 DEF JoinWaitlistCheck, EditLoad, ForceReleaseLoad, vars, rows
  <2> QED BY <1>4, <1>5, <2>1, <2>2
<1>7. CASE ExpiryLoad
  BY <1>2, <1>7 DEF ExpiryLoad, vars, rows
<1>8. CASE ExpiryBegin
  <2>1. \E t : t.op # "cancelling" /\ work' = [work EXCEPT ![Cron] = t]
    BY <1>8 DEF ExpiryBegin, Begin
  <2>2. booking' = booking
    BY <1>8 DEF ExpiryBegin, vars, rows
  <2> QED BY <1>4, <1>5, <2>1, <2>2
<1>9. ASSUME NEW r \in Servers,
             JoinWaitlistCreate(r) \/ EditSave(r) \/ ReleaseAbort(r)
      PROVE  BatchesArePending' /\ BatchesAreApart'
  <2>1. work' = [work EXCEPT ![r] = Idle]
    BY <1>9 DEF JoinWaitlistCreate, EditSave, ReleaseAbort, End
  <2>2. booking' = booking
    BY <1>9 DEF JoinWaitlistCreate, EditSave, ReleaseAbort, vars, rows
  <2> QED BY <1>4, <1>5, <2>1, <2>2
<1>10. ASSUME NEW r \in Servers, ReleaseCancel(r)
       PROVE  BatchesArePending' /\ BatchesAreApart'
  <2> DEFINE bs == {b \in Bookings : booking[b].slot = work[r].s
                                     /\ booking[b].status = "pending"}
  <2>1. /\ work'[r].bs = bs /\ booking' = booking
        /\ \A q \in Servers : q # r => work'[q] = work[q]
        /\ \A b \in bs : ~BookingLocked(b)
    BY <1>1, <1>10 DEF ReleaseCancel, HTypeOK, vars, rows
  <2>2. \A b \in bs : b \in Bookings /\ booking[b].status = "pending"
    OBVIOUS
  <2> HIDE DEF bs
  <2> QED BY <2>1, <2>2 DEF HTypeInv, BatchesArePending, BatchesAreApart, BookingLocked
<1>11. ASSUME NEW r \in Servers, ReleaseCommit(r)
       PROVE  BatchesArePending' /\ BatchesAreApart'
  <2>1. /\ work[r].op = "cancelling" /\ work'[r].op = "idle"
        /\ \A q \in Servers : q # r => work'[q] = work[q]
        /\ \A b \in Bookings : b \notin work[r].bs => booking'[b] = booking[b]
    BY <1>1, <1>11 DEF ReleaseCommit, End, Idle, HTypeOK
  <2> QED BY <1>1, <2>1 DEF HTypeInv, BatchesArePending, BatchesAreApart
<1>12. CASE UNCHANGED hvars
  BY <1>2, <1>12 DEF hvars, vars, rows
<1>13. ASSUME NEW r \in Servers, JoinWaitlistStamp(r)
       PROVE  BatchesArePending' /\ BatchesAreApart'
  <2>1. \E t : t.op # "cancelling" /\ work' = [work EXCEPT ![r] = t]
    BY <1>13 DEF JoinWaitlistStamp
  <2>2. booking' = booking
    BY <1>13 DEF JoinWaitlistStamp, vars, rows
  <2> QED BY <1>4, <1>5, <2>1, <2>2
<1> QED BY <1>3, <1>5, <1>6, <1>7, <1>8, <1>9, <1>10, <1>11, <1>12, <1>13
        DEF HNext, HStart, HContinue

LEMMA HTypeInvariant == HSpec => []HTypeInv
<1>1. HTypeInv /\ [HNext]_hvars => HTypeInv'
  BY HTypeNext, BatchesNext DEF HTypeInv
<1> QED BY <1>1, HInitType, PTL DEF HSpec

(* The waitlist, and the rows the admins' and the cron's goroutines hold   *)
(* in memory, keep their types in every environment.                       *)
THEOREM WaitlistTypeCorrect == HSpec => []HTypeOK
<1>1. HTypeInv => HTypeOK
  BY DEF HTypeInv
<1> QED BY <1>1, HTypeInvariant, PTL
-----------------------------------------------------------------------------
(* What a step means for the checkout: it is a step of Checkout, or it     *)
(* leaves the checkout alone, or it saves one slot row no CreateBooking    *)
(* has locked and perhaps cancels bookings that are pending.               *)
SavesRow ==
  \E s \in Slots, bs \in SUBSET Bookings :
    /\ ~Locked(s)
    /\ \A x \in Slots : x # s => slot'[x] = slot[x]
    /\ \A b \in bs : booking[b].status = "pending"
    /\ \A b \in Bookings :
         booking'[b] = IF b \in bs THEN [booking[b] EXCEPT !.status = "cancelled"]
                                   ELSE booking[b]
    /\ UNCHANGED <<now, splits, ledger, ticket, gateway, events, task, reminding>>

LEMMA HStepCases ==
  ASSUME HTypeInv, [HNext]_hvars
  PROVE  [Next]_vars \/ SavesRow
<1>1. HTypeOK /\ TypeOK
  BY DEF HTypeInv, TypeInv
<1>2. ASSUME NEW r \in Servers, EditSave(r) PROVE SavesRow
  <2>1. work[r].s \in Slots
    BY <1>1, <1>2, ServerWork DEF EditSave
  <2>2. /\ ~Locked(work[r].s)
        /\ \A x \in Slots : x # work[r].s => slot'[x] = slot[x]
        /\ UNCHANGED <<now, booking, splits, ledger, ticket, gateway, events, task, reminding>>
    BY <1>1, <1>2 DEF EditSave, TypeOK
  <2>3. /\ \A b \in Bookings : b \notin {} /\ booking'[b] = booking[b]
        /\ {} \in SUBSET Bookings
    BY <2>2
  <2> QED BY <2>1, <2>2, <2>3 DEF SavesRow
<1>3. ASSUME NEW r \in Servers, ReleaseCommit(r) PROVE SavesRow
  <2>1. work[r].s \in Slots /\ work[r].bs \in SUBSET Bookings
    BY <1>1, <1>3, ServerWork DEF ReleaseCommit
  <2>2. /\ ~Locked(work[r].s)
        /\ \A x \in Slots : x # work[r].s => slot'[x] = slot[x]
        /\ \A b \in work[r].bs : booking[b].status = "pending"
    BY <1>1, <1>3 DEF ReleaseCommit, TypeOK, HTypeInv, BatchesArePending
  <2> QED BY <1>3, <2>1, <2>2 DEF ReleaseCommit, SavesRow
<1>4. Requests \subseteq Servers
  BY DEF Servers
<1> QED BY <1>2, <1>3, <1>4
        DEF HNext, HStart, HContinue, Unlocked, JoinWaitlistCheck, JoinWaitlistStamp,
            JoinWaitlistCreate, EditLoad, ForceReleaseLoad, ExpiryLoad, ExpiryBegin, ReleaseCancel,
            ReleaseAbort, hvars

LEMMA HLockInit == ASSUME HInit PROVE HLockInv
<1>1. CopyIsCurrent /\ LockIsExclusive /\ RemindsConfirmed
  BY DEF HInit, CopyIsCurrent, LockIsExclusive, RemindsConfirmed, Idle
<1> QED BY <1>1, HInitType DEF HLockInv, HTypeInv, LockInv

(* The row lock protects what CreateBooking tested from them too.          *)
LEMMA HLockNext == HLockInv /\ [HNext]_hvars => HLockInv'
<1> SUFFICES ASSUME HLockInv, [HNext]_hvars PROVE HLockInv'
  OBVIOUS
<1>1. HTypeInv /\ HTypeInv' /\ LockInv /\ TypeInv' /\ TypeOK
  BY HTypeNext, BatchesNext DEF HLockInv, HTypeInv, TypeInv
<1>2. CASE [Next]_vars
  BY <1>1, <1>2, LockNext DEF HLockInv
<1>3. CASE SavesRow
  <2>1. PICK s \in Slots, bs \in SUBSET Bookings :
          /\ ~Locked(s)
          /\ \A x \in Slots : x # s => slot'[x] = slot[x]
          /\ \A b \in bs : booking[b].status = "pending"
          /\ \A b \in Bookings : b \notin bs => booking'[b] = booking[b]
          /\ UNCHANGED <<now, task, reminding>>
    BY <1>3 DEF SavesRow
  <2>2. CopyIsCurrent'
    BY <1>1, <2>1, CreatingTask DEF LockInv, CopyIsCurrent, Locked
  <2>3. LockIsExclusive' /\ RemindsConfirmed'
    BY <1>1, <2>1 DEF LockInv, LockIsExclusive, RemindsConfirmed
  <2> QED BY <1>1, <2>2, <2>3 DEF HLockInv, LockInv
<1> QED BY <1>1, <1>2, <1>3, HStepCases

LEMMA HLockInvariant == HSpec => []HLockInv
BY HLockInit, HLockNext, PTL DEF HSpec

(* No checkout takes a slot that is sold or held when its transaction      *)
(* commits, whatever admins release, extend or edit and whatever the cron  *)
(* frees meanwhile: they write the row before CreateBooking has locked it, *)
(* or wait until it has committed.                                         *)
THEOREM HoldIsNotStolenMeanwhile == HSpec => NoHoldStolen
<1>1. ASSUME HLockInv, [HNext]_hvars
      PROVE  [TakesFreeSlots]_vars
  <2>1. LockInv /\ HTypeInv /\ TypeOK
    BY <1>1 DEF HLockInv, LockInv, TypeInv
  <2>2. CASE [Next]_vars
    BY <2>1, <2>2, NextTakesFreeSlots
  <2>3. CASE SavesRow
    <3>1. ASSUME NEW b \in Bookings, booking[b].status = "absent"
          PROVE  booking'[b].status = "absent"
      BY <2>3, <3>1 DEF SavesRow
    <3> QED BY <3>1 DEF TakesFreeSlots
  <2> QED BY <1>1, <2>1, <2>2, <2>3, HStepCases
<1> QED BY <1>1, HLockInvariant, PTL DEF HSpec, NoHoldStolen, TakesFreeSlots
-----------------------------------------------------------------------------
(* A sale is final.                                                        *)

LEMMA HFinalNext ==
  ASSUME "retry" \notin Hazards, HFinalInv, [HNext]_hvars
  PROVE  HFinalInv' /\ \A b \in Bookings : Confirmed(b) => Confirmed(b)'
<1>1. HLockInv /\ HLockInv' /\ HTypeInv /\ FinalInv /\ LockInv'
  BY HLockNext DEF HFinalInv, HLockInv
<1>2. CASE [Next]_vars
  BY <1>1, <1>2, FinalNext DEF HFinalInv
<1>3. CASE SavesRow
  <2>1. PICK bs \in SUBSET Bookings :
          /\ \A b \in bs : booking[b].status = "pending"
          /\ \A b \in Bookings :
               booking'[b] = IF b \in bs THEN [booking[b] EXCEPT !.status = "cancelled"]
                                         ELSE booking[b]
          /\ UNCHANGED <<sent, reminding>>
    BY <1>3 DEF SavesRow, gateway
  <2>2. TypeOK
    BY <1>1 DEF HTypeInv, TypeInv
  <2>3. \A b \in Bookings : Confirmed(b)' = Confirmed(b)
    BY <2>1, <2>2 DEF Confirmed, TypeOK, BookingRow
  <2> QED BY <1>1, <2>1, <2>3
          DEF HFinalInv, FinalInv, OneOutcome, ConfirmedHasPaid, SuccessOf
<1> QED BY <1>1, <1>2, <1>3, HStepCases

(* A confirmed booking stays confirmed although a release cancels the      *)
(* pending bookings of its slot in two steps, when the gateway reports     *)
(* one result of a booking: late, repeated, twice at once, or broken off.  *)
THEOREM SaleIsFinal ==
  ASSUME "retry" \notin Hazards
  PROVE  HSpec => ConfirmedIsFinal
<1>1. HInit => HFinalInv
  BY HLockInit DEF HInit, HFinalInv, HLockInv, FinalInv, OneOutcome,
     ConfirmedHasPaid, Confirmed, Absent
<1>2. HFinalInv /\ [HNext]_hvars => HFinalInv'
  BY HFinalNext
<1>3. HFinalInv /\ [HNext]_hvars => [\A b \in Bookings : Confirmed(b) => Confirmed(b)']_hvars
  BY HFinalNext
<1> QED BY <1>1, <1>2, <1>3, PTL DEF HSpec, ConfirmedIsFinal

(* The ledger keeps one row per payment meanwhile.                         *)
THEOREM LedgerIsOnceMeanwhile ==
  ASSUME {"overlap", "no_event_id"} \cap Hazards = {}
  PROVE  HSpec => []OneLedgerRow
<1> DEFINE IInv == HTypeInv /\ LedgerInv
<1>1. HInit => IInv
  BY HInitType
  DEF HInit, HTypeInv, LedgerInv, OneWorkerPerEvent, LedgerFollowsEvent,
      CheckedIsNew, Idle, Processing
<1>2. ASSUME IInv, [HNext]_hvars PROVE IInv'
  <2>1. HTypeInv' /\ TypeInv'
    BY <1>2, HTypeNext, BatchesNext DEF HTypeInv
  <2>2. CASE [Next]_vars
    BY <1>2, <2>1, <2>2, LedgerNext
  <2>3. CASE SavesRow
    <3>1. UNCHANGED <<ledger, events, task>>
      BY <2>3 DEF SavesRow
    <3> QED BY <1>2, <2>1, <3>1
            DEF LedgerInv, OneWorkerPerEvent, LedgerFollowsEvent, CheckedIsNew, Processing
  <2> QED BY <1>2, <2>2, <2>3, HStepCases
<1>3. IInv => OneLedgerRow
  BY DEF LedgerInv, LedgerFollowsEvent, OneLedgerRow
<1> QED BY <1>1, <1>2, <1>3, PTL DEF HSpec
-----------------------------------------------------------------------------
(* The waitlist is first come, first served.                               *)

NotifiedAreFirst(q) ==
  \A i, j \in 1 .. Len(q) :
    i < j /\ q[i].at < q[j].at /\ q[j].status = "notified" => q[i].status = "notified"

LEMMA WaitlistNext ==
  ASSUME HTypeInv, \A s \in Slots : NotifiedAreFirst(waitlist[s]), [HNext]_hvars
  PROVE  \A s \in Slots : NotifiedAreFirst(waitlist'[s])
<1>1. HTypeOK /\ \A s \in Slots : waitlist[s] \in Seq(Entry)
  BY DEF HTypeInv, HTypeOK
<1>2. ASSUME NEW r \in Servers, JoinWaitlistCreate(r)
      PROVE  \A s \in Slots : NotifiedAreFirst(waitlist'[s])
  <2> DEFINE e == [user |-> work[r].u, status |-> "waiting", at |-> work[r].at]
             q == waitlist[work[r].s]
  <2>1. work[r].u \in Users /\ work[r].s \in Slots /\ work[r].at \in Nat
    BY <1>1, <1>2, ServerWork DEF JoinWaitlistCreate
  <2>2. e \in Entry /\ e.status # "notified" /\ q \in Seq(Entry)
    BY <1>1, <2>1 DEF Entry
  <2>3. waitlist' = [waitlist EXCEPT ![work[r].s] = Append(q, e)]
    BY <1>2 DEF JoinWaitlistCreate
  <2> HIDE DEF e
  <2>4. /\ Len(q) \in Nat /\ Len(Append(q, e)) = Len(q) + 1
        /\ \A i \in 1 .. Len(q) : Append(q, e)[i] = q[i]
        /\ Append(q, e)[Len(q) + 1] = e
    BY <2>2, AppendProperties, LenProperties
  <2>5. NotifiedAreFirst(q)
    BY <2>1
  <2>6. NotifiedAreFirst(Append(q, e))
    <3> SUFFICES ASSUME NEW i \in 1 .. Len(q) + 1, NEW j \in 1 .. Len(q) + 1,
                        i < j, Append(q, e)[i].at < Append(q, e)[j].at,
                        Append(q, e)[j].status = "notified"
                 PROVE  Append(q, e)[i].status = "notified"
      BY <2>4 DEF NotifiedAreFirst
    <3>1. j \in 1 .. Len(q) /\ i \in 1 .. Len(q)
      <4>1. j # Len(q) + 1
        BY <2>2, <2>4
      <4> QED BY <2>4, <4>1
    <3> QED BY <2>4, <2>5, <3>1 DEF NotifiedAreFirst
  <2> QED BY <1>1, <2>1, <2>3, <2>6 DEF HTypeOK
<1>3. ASSUME NEW r \in Servers, ReleaseCommit(r)
      PROVE  \A s \in Slots : NotifiedAreFirst(waitlist'[s])
  <2> DEFINE q == waitlist[work[r].s]
  <2>1. work[r].s \in Slots /\ q \in Seq(Entry) /\ NotifiedAreFirst(q)
    BY <1>1, <1>3, ServerWork DEF ReleaseCommit
  <2>2. PICK n \in NotifyFirst(q) : waitlist' = [waitlist EXCEPT ![work[r].s] = n]
    BY <1>3 DEF ReleaseCommit
  <2>3. /\ Len(n) = Len(q)
        /\ \A i \in 1 .. Len(q) :
             /\ n[i].at = q[i].at
             /\ q[i].status = "notified" => n[i].status = "notified"
             /\ n[i].status = "notified" /\ q[i].status # "notified" =>
                  \A j \in 1 .. Len(q) : q[j].at < q[i].at => q[j].status = "notified"
    BY <2>1, NotifyFirstMarks
  <2>4. NotifiedAreFirst(n)
    BY <2>1, <2>3 DEF NotifiedAreFirst
  <2> QED BY <1>1, <2>1, <2>2, <2>4 DEF HTypeOK
<1>4. ASSUME waitlist' = waitlist
      PROVE  \A s \in Slots : NotifiedAreFirst(waitlist'[s])
  BY <1>4
<1>5. Joiners \subseteq Servers
  BY DEF Servers
<1> QED BY <1>2, <1>3, <1>4, <1>5
        DEF HNext, HStart, HContinue, Unlocked, JoinWaitlistCheck, JoinWaitlistStamp,
            EditLoad, EditSave,
            ForceReleaseLoad, ExpiryLoad, ExpiryBegin, ReleaseCancel, ReleaseAbort, hvars

(* Whoever joined a waitlist before a user who was notified, and was on it *)
(* before that user, was notified too: releases by several admins and by   *)
(* the cron, of the same slot at the same time, and customers who take     *)
(* their times and insert their rows in any order, never make it skip one. *)
THEOREM FirstComeFirstServed == HSpec => []NotifiedInOrder
<1> DEFINE IInv == HTypeInv /\ \A s \in Slots : NotifiedAreFirst(waitlist[s])
<1>1. HInit => IInv
  <2>1. Len(<< >>) = 0
    BY EmptySeq
  <2> QED BY <2>1, HInitType DEF HInit, NotifiedAreFirst
<1>2. IInv /\ [HNext]_hvars => IInv'
  BY HTypeNext, BatchesNext, WaitlistNext DEF HTypeInv
<1>3. IInv => NotifiedInOrder
  <2> SUFFICES ASSUME IInv PROVE NotifiedInOrder
    OBVIOUS
  <2>1. \A s \in Slots : DOMAIN waitlist[s] = 1 .. Len(waitlist[s])
    BY LenProperties DEF HTypeInv, HTypeOK
  <2> QED BY <2>1 DEF NotifiedInOrder, NotifiedAreFirst
<1> QED BY <1>1, <1>2, <1>3, PTL DEF HSpec
=============================================================================
