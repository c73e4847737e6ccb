---------------------------- MODULE HoldRelease ----------------------------
(***************************************************************************)
(* What else writes a slot row while customers check out: the admin who    *)
(* force-releases a hold, extends it or edits the slot, and the standard   *)
(* expiry cron.  A released slot is offered to the first user on its       *)
(* waitlist.  All of these load the slot without a lock and save the whole *)
(* row later; only CreateBooking (module Checkout) locks it first.         *)
(*                                                                         *)
(* A release is one transaction of two statements that matter: an UPDATE   *)
(* that cancels the pending bookings of the slot and keeps their rows      *)
(* locked, and the Save of the slot, which may have to wait for a          *)
(* CreateBooking to commit.                                                *)
(***************************************************************************)
EXTENDS Checkout, Sequences, SequencesExt

CONSTANTS
  Users,        \* customers who may join a waitlist
  Requests,     \* request goroutines of admins
  Joiners,      \* request goroutines of customers who join a waitlist
  Cron,         \* the goroutine of the standard expiry cron
  AdminOps,     \* what admins do, a subset of {"release", "extend", "edit"}
  MatchSlots,   \* slots sold to a confirmed match, as ProcessMatchPayment
                \* leaves them: booked, the hold still set
  MatchHold,    \* the hold of those slots: the match's registration end
  ExtendTime,   \* what ExtendSlotHold adds (5 minutes)
  MaxWait,      \* bound on the waitlist entries of one slot
  MaxHold       \* bound on how far a hold can be extended

ASSUME HoldReleaseAssumption ==
  /\ Cron \notin Requests \cup Joiners
  /\ Requests \cap Joiners = {}
  /\ AdminOps \subseteq {"release", "extend", "edit"}
  /\ MatchSlots \subseteq Slots
  /\ MatchHold \in Nat \ {0}
  /\ ExtendTime \in Nat \ {0}
  /\ MaxWait \in Nat /\ MaxHold \in Nat

VARIABLES
  waitlist,   \* waitlists rows of each slot, in the order they were inserted
  stamped,    \* how many times of joining the clock has given out, per slot
  work,       \* what each request goroutine, and the cron, is doing
  expiring    \* slots the cron has loaded and not dealt with yet

hvars == <<vars, waitlist, stamped, work, expiring>>

Servers == Requests \cup Joiners \cup {Cron}
Entry == [user : Users, status : {"waiting", "notified"}, at : Nat]

Joining    == [op : {"joining"}, u : Users, s : Slots]
Stamped    == [op : {"stamped"}, u : Users, s : Slots, at : Nat]
SlotCopy   == [op : {"extending", "editing", "releasing"}, s : Slots, sl : SlotRow]
Cancelling == [op : {"cancelling"}, s : Slots, sl : SlotRow, bs : SUBSET Bookings]
Work == {Idle} \cup Joining \cup Stamped \cup SlotCopy \cup Cancelling

Waiting(s, u) == \E i \in DOMAIN waitlist[s] :
                   waitlist[s][i].user = u /\ waitlist[s][i].status = "waiting"

Mut_NoBookingLock(b) == FALSE

\* The bookings whose UPDATE by a release is not committed yet: their rows
\* are locked, and every other writer of them waits.
BookingLocked(b) == \E r \in Servers : work[r].op = "cancelling" /\ b \in work[r].bs

Begin(r, t) == work[r] = Idle /\ work' = [work EXCEPT ![r] = t]
End(r) == work' = [work EXCEPT ![r] = Idle]
-----------------------------------------------------------------------------
HInit ==
  /\ now = 0
  /\ slot = [s \in Slots |->
               IF s \in MatchSlots
               THEN [booked |-> TRUE, hold |-> MatchHold,
                     mm |-> "closed", current |-> MatchSize]
               ELSE [booked |-> FALSE, hold |-> NoHold,
                     mm |-> "none", current |-> 0]]
  /\ booking = [b \in Bookings |-> Absent]
  /\ splits = [b \in Bookings |-> [f \in Friends |-> "absent"]]
  /\ ledger = [b \in Bookings |-> 0]
  /\ ticket = {}
  /\ sent = {} /\ acked = {} /\ events = {}
  /\ task = [w \in Workers |-> Idle]
  /\ reminding = {}
  /\ waitlist = [s \in Slots |-> <<>>]
  /\ stamped = [s \in Slots |-> 0]
  /\ work = [r \in Servers |-> Idle]
  /\ expiring = {}

\* A step of Checkout, which waits for the booking rows a release has locked.
Unlocked(A) ==
  /\ A
  /\ \A b \in Bookings : BookingLocked(b) => booking'[b] = booking[b]
  /\ UNCHANGED <<waitlist, stamped, work, expiring>>
-----------------------------------------------------------------------------
(* JoinWaitlist: only a booked slot has a waitlist, and a user waits once.  *)
(* Between the test, the taking of created_at from the clock and the INSERT *)
(* the other requests run: rows may be inserted in another order than that  *)
(* of their times, and a user who joins twice at once may wait twice.       *)

JoinWaitlistCheck(r, u, s) ==
  /\ slot[s].booked
  /\ ~Waiting(s, u)
  /\ Begin(r, [op |-> "joining", u |-> u, s |-> s])
  /\ UNCHANGED <<vars, waitlist, stamped, expiring>>

\* CreatedAt: time.Now().
JoinWaitlistStamp(r) ==
  LET t == work[r] IN
  /\ t.op = "joining"
  /\ stamped[t.s] < MaxWait
  /\ stamped' = [stamped EXCEPT ![t.s] = @ + 1]
  /\ work' = [work EXCEPT ![r] =
               [op |-> "stamped", u |-> t.u, s |-> t.s, at |-> stamped[t.s] + 1]]
  /\ UNCHANGED <<vars, waitlist, expiring>>

JoinWaitlistCreate(r) ==
  LET t == work[r] IN
  /\ t.op = "stamped"
  /\ waitlist' = [waitlist EXCEPT ![t.s] =
                    Append(@, [user |-> t.u, status |-> "waiting", at |-> t.at])]
  /\ End(r)
  /\ UNCHANGED <<vars, stamped, expiring>>
-----------------------------------------------------------------------------
(* ExtendSlotHold; ToggleSlotLock and UpdateSlotPrice, which change columns *)
(* outside the model but save the others as they were loaded.              *)

EditLoad(r, s) ==
  /\ \/ /\ "extend" \in AdminOps
        /\ slot[s].hold # NoHold /\ slot[s].hold >= now
        /\ slot[s].hold + ExtendTime <= MaxHold
        /\ Begin(r, [op |-> "extending", s |-> s,
                     sl |-> [slot[s] EXCEPT !.hold = @ + ExtendTime]])
     \/ /\ "edit" \in AdminOps
        /\ Begin(r, [op |-> "editing", s |-> s, sl |-> slot[s]])
  /\ UNCHANGED <<vars, waitlist, stamped, expiring>>

EditSave(r) ==
  LET t == work[r] IN
  /\ t.op \in {"extending", "editing"}
  /\ ~Locked(t.s)
  /\ slot' = [slot EXCEPT ![t.s] = t.sl]
  /\ End(r)
  /\ UNCHANGED <<now, booking, splits, ledger, ticket, gateway, events, task,
                 reminding, waitlist, stamped, expiring>>
-----------------------------------------------------------------------------
(* ForceReleaseSlot, and processExpiredHolds for each slot it has loaded.  *)

ForceReleaseLoad(r, s) ==
  /\ "release" \in AdminOps
  /\ ~slot[s].booked
  /\ Begin(r, [op |-> "releasing", s |-> s, sl |-> slot[s]])
  /\ UNCHANGED <<vars, waitlist, stamped, expiring>>

Mut_StillValid(sl) == sl.booked /\ sl.hold # NoHold /\ sl.hold > now

\* Only booked slots: an ordinary hold that ran out is not among them.
HoldHasExpired(sl) == sl.booked /\ sl.hold # NoHold /\ sl.hold < now

ExpiryLoad ==
  /\ expiring = {} /\ work[Cron] = Idle
  /\ \E s \in Slots : HoldHasExpired(slot[s])
  /\ expiring' = {[s |-> s, sl |-> slot[s]] :
                    s \in {x \in Slots : HoldHasExpired(slot[x])}}
  /\ UNCHANGED <<vars, waitlist, stamped, work>>

ExpiryBegin ==
  /\ \E x \in expiring :
       /\ Begin(Cron, [op |-> "releasing", s |-> x.s,
                       sl |-> [x.sl EXCEPT !.booked = FALSE]])
       /\ expiring' = expiring \ {x}
  /\ UNCHANGED <<vars, waitlist, stamped>>

\* UPDATE bookings SET status = 'cancelled' WHERE slot_id = ... AND
\* status = 'pending', not committed yet.
ReleaseCancel(r) ==
  LET t  == work[r]
      bs == {b \in Bookings : booking[b].slot = t.s /\ booking[b].status = "pending"}
  IN /\ t.op = "releasing"
     /\ \A b \in bs : ~BookingLocked(b)
     /\ work' = [work EXCEPT ![r] = [op |-> "cancelling", s |-> t.s, sl |-> t.sl,
                                     bs |-> bs]]
     /\ UNCHANGED <<vars, waitlist, stamped, expiring>>

WaitingIn(q) == {i \in DOMAIN q : q[i].status = "waiting"}
Told(q, W) == IF W = {} THEN {q} ELSE {[q EXCEPT ![i].status = "notified"] : i \in W}

Mut_NotifyLast(q) ==
  Told(q, {i \in WaitingIn(q) : \A j \in WaitingIn(q) : q[i].at >= q[j].at})

\* The waiting entry with the earliest created_at, if any, is told.
NotifyFirst(q) ==
  Told(q, {i \in WaitingIn(q) : \A j \in WaitingIn(q) : q[i].at <= q[j].at})

\* Save the slot, notify the waitlist, COMMIT.
ReleaseCommit(r) ==
  LET t == work[r] IN
  /\ t.op = "cancelling"
  /\ ~Locked(t.s)
  /\ slot' = [slot EXCEPT ![t.s] = [t.sl EXCEPT !.hold = NoHold]]
  /\ booking' = [b \in Bookings |->
                   IF b \in t.bs THEN [booking[b] EXCEPT !.status = "cancelled"]
                                 ELSE booking[b]]
  /\ \E q \in NotifyFirst(waitlist[t.s]) : waitlist' = [waitlist EXCEPT ![t.s] = q]
  /\ End(r)
  /\ UNCHANGED <<now, splits, ledger, ticket, gateway, events, task, reminding,
                 stamped, expiring>>

\* A statement fails, for one as the victim of a deadlock with a webhook,
\* which locks the slot before the booking: ROLLBACK.
ReleaseAbort(r) ==
  /\ "crash" \in Hazards
  /\ work[r].op = "cancelling"
  /\ End(r)
  /\ UNCHANGED <<vars, waitlist, stamped, expiring>>
-----------------------------------------------------------------------------
HStart ==
  \/ \E r \in Joiners, u \in Users, s \in Slots : JoinWaitlistCheck(r, u, s)
  \/ \E r \in Requests, s \in Slots : EditLoad(r, s) \/ ForceReleaseLoad(r, s)
  \/ ExpiryLoad \/ ExpiryBegin

HContinue ==
  \/ \E r \in Joiners : JoinWaitlistStamp(r) \/ JoinWaitlistCreate(r)
  \/ \E r \in Requests : EditSave(r)
  \/ \E r \in Servers : ReleaseCancel(r) \/ ReleaseCommit(r) \/ ReleaseAbort(r)

HNext == Unlocked(Next) \/ HStart \/ HContinue

HSpec == HInit /\ [][HNext]_hvars

(***************************************************************************)
(* The cron keeps running, and a transaction that waits for a row gets it  *)
(* (PostgreSQL queues waiters) and does not fail for ever.                 *)
(***************************************************************************)
HFairness ==
  /\ WF_hvars(ExpiryLoad) /\ WF_hvars(ExpiryBegin)
  /\ \A r \in Servers : WF_hvars(ReleaseCancel(r)) /\ SF_hvars(ReleaseCommit(r))
  /\ \A w \in Workers : WF_hvars(Unlocked(Step(w)))

HFairSpec == HSpec /\ HFairness
-----------------------------------------------------------------------------
\* Type invariant of the waitlist and of what the goroutines hold in memory.
HTypeOK ==
  /\ TypeOK
  /\ waitlist \in [Slots -> Seq(Entry)]
  /\ stamped \in [Slots -> Nat]
  /\ work \in [Servers -> Work]
  /\ expiring \subseteq [s : Slots, sl : SlotRow]

\* A payment that was confirmed stays confirmed: a release cancels pending
\* bookings only, even when the confirmation lands between its UPDATE and
\* its commit.
ConfirmedIsFinal == [][\A b \in Bookings : Confirmed(b) => Confirmed(b)']_hvars

\* The waitlist is first come, first served: whoever both joined earlier, by
\* created_at, and was on the list earlier than a user who was notified was
\* notified too.  (Of two who join at once the later may be inserted, and
\* told, before the earlier is on the list.)
NotifiedInOrder ==
  \A s \in Slots : \A i, j \in DOMAIN waitlist[s] :
    /\ i < j /\ waitlist[s][i].at < waitlist[s][j].at
    /\ waitlist[s][j].status = "notified"
    => waitlist[s][i].status = "notified"

\* No slot stays booked under a hold that has run out: the cron ends that,
\* whatever admins save meanwhile and although its transactions may fail.
ExpiredIsFreed ==
  \A s \in Slots :
    LET Expired == slot[s].booked /\ slot[s].hold # NoHold /\ slot[s].hold < now
    IN  Expired ~> ~Expired
=============================================================================
