------------------------- MODULE CheckoutScreenProofs -------------------------
(***************************************************************************)
(* Proofs about CheckoutScreen, for any slots, bookings, friends,          *)
(* goroutines and calls: types in every environment; what the screens say, *)
(* that a held slot can be paid, and that a paid one stays sold, for a     *)
(* user in time and patient as long as no call is lost.                    *)
(***************************************************************************)
EXTENDS CheckoutScreen, SplitProofs, FiniteSetTheorems

(***************************************************************************)
(* What ties the page to the server, whatever happens: a call that a       *)
(* goroutine handles is the task of that goroutine, and what the page      *)
(* knows of a booking is so.                                               *)
(***************************************************************************)
Handles(w, k) ==
  \/ /\ k.op = "book" /\ task[w].op = "create"
     /\ task[w].b = k.b /\ task[w].s = k.slot
     /\ task[w].kind = k.kind /\ task[w].friends = k.friends
  \/ /\ k.op = "pay" /\ task[w].op \in {"checked", "loaded", "ticketed"}
     /\ task[w].e = ResultOf(k)

Exists(b) == booking[b].status # "absent"

GoodCall(k) ==
  /\ k.at \in Workers => Handles(k.at, k)
  /\ k.op = "book" =>
       /\ k.kind \in Kinds
       /\ k.friends # {} <=> k.kind = "split"
       /\ k.at = "ok" => Exists(k.b) /\ booking[k.b].kind = k.kind
  /\ k.op \in {"pay", "charge"} =>
       /\ Exists(k.b)
       /\ k.part = "primary" <=> booking[k.b].kind = "split"
  /\ k.op = "pay" => ResultOf(k) \in sent
  /\ k.op = "charge" => k.at = "sent"
CallsAreGood == \A c \in Calls : call[c] # Free => GoodCall(call[c])

OneCallEach ==
  \A c, d \in Calls : call[c].at \in Workers /\ call[c].at = call[d].at => c = d

ModalIsGood ==
  modal # Closed => /\ Exists(modal.b)
                    /\ modal.shares <=> booking[modal.b].kind = "split"
DialogIsGood ==
  dialog # Closed /\ dialog.at = "config" =>
    /\ dialog.join => "join" \in Kinds /\ ~dialog.split
    /\ dialog.split => "split" \in Kinds
    /\ dialog.matchmaking => "host" \in Kinds

\* A goroutine at work on a booking of this browser has a call of it.
About(w, b) ==
  \/ task[w].op = "create" /\ task[w].b = b
  \/ task[w].op \in {"checked", "loaded", "ticketed"} /\ task[w].e.b = b
TasksAreGood ==
  \A w \in Workers :
    /\ task[w].op \in {"idle", "create", "checked", "loaded", "ticketed"}
    /\ \A b \in Mine : About(w, b) => \E c \in Calls : call[c].at = w

\* A row that says "confirmed" of a booking paid in full tells the truth.
RowPaid(row, b) == row.status = "confirmed" /\ row.kind # "split" => SuccessOf(b) \in sent
FullPaid ==
  /\ \A b \in Bookings : RowPaid(booking[b], b)
  /\ \A w \in Workers : task[w].op \in {"loaded", "ticketed"} => RowPaid(task[w].bk, task[w].e.b)

UInv ==
  /\ BillInv /\ UTypeOK /\ CallsAreGood /\ OneCallEach /\ ModalIsGood /\ DialogIsGood
  /\ TasksAreGood /\ FullPaid
-----------------------------------------------------------------------------
(* Calls and terminals.                                                    *)
Ats == {"sent", "ok", "refused"} \cup Workers

LEMMA CallKinds ==
  ASSUME NEW k \in Call
  PROVE  /\ k # Free /\ k.op \in {"book", "pay", "charge", "logout"} /\ k.at \in Ats
         /\ k.op = "logout" => k.at = "sent"
         /\ k.op # "logout" => k.b \in Mine /\ k.b \in Bookings
         /\ k.op = "book" => /\ k.slot \in Slots /\ k.kind \in AllKinds
                             /\ k.friends \in SUBSET Friends
         /\ k.op \in {"pay", "charge"} =>
              /\ k.part \in {"full", "primary"} /\ k.outcome \in {"success", "failed"}
              /\ ResultOf(k) \in Result
BY CheckoutScreenAssumption DEF Call, Free, Ats, ResultOf, Result

LEMMA CallFacts ==
  ASSUME NEW k \in Call
  PROVE  /\ k.op \in {"pay", "charge"} =>
              /\ ResultOf(k).b = k.b /\ ResultOf(k).part = k.part
              /\ ResultOf(k).outcome = k.outcome
         /\ k.op \in {"book", "pay"} =>
              \A a \in Ats : LET x == [k EXCEPT !.at = a] IN
                /\ x \in Call /\ x.at = a /\ x.op = k.op /\ x.b = k.b
                /\ k.op = "book" => x.slot = k.slot /\ x.kind = k.kind /\ x.friends = k.friends
                /\ k.op = "pay" => /\ x.part = k.part /\ x.outcome = k.outcome
                                   /\ ResultOf(x) = ResultOf(k)
<1>1. /\ k.op \in {"pay", "charge"} =>
              /\ ResultOf(k).b = k.b /\ ResultOf(k).part = k.part
              /\ ResultOf(k).outcome = k.outcome
  BY DEF ResultOf
<1>2. ASSUME k.op \in {"book", "pay"}, NEW a \in Ats
      PROVE  [k EXCEPT !.at = a] \in Call
  BY <1>2 DEF Call, Ats
<1>3. ASSUME k.op \in {"book", "pay"}, NEW a \in Ats
      PROVE  LET x == [k EXCEPT !.at = a] IN
                /\ x.at = a /\ x.op = k.op /\ x.b = k.b
                /\ k.op = "book" => x.slot = k.slot /\ x.kind = k.kind /\ x.friends = k.friends
                /\ k.op = "pay" => x.part = k.part /\ x.outcome = k.outcome
  BY <1>3 DEF Call, Ats
<1>4. ASSUME k.op = "pay", NEW a \in Ats
      PROVE  ResultOf([k EXCEPT !.at = a]) = ResultOf(k)
  BY <1>3, <1>4 DEF ResultOf
<1> QED BY <1>1, <1>2, <1>3, <1>4
-----------------------------------------------------------------------------
(* What the server does.  Every step of the browser is a step of           *)
(* SplitCheckout, the report of a payment by the page, or no step of it.   *)

LEMMA Bases ==
  ASSUME BillInv
  PROVE  SInv /\ STypeOK /\ TypeOK /\ TypeInv /\ LockInv /\ ForeignKeys
BY DEF BillInv, SInv, LockInv, TypeInv

LEMMA StepKeeps ==
  ASSUME BillInv, [SNext]_svars
  PROVE  BillInv' /\ Grows /\ \A b \in Bookings : Exists(b) => Exists(b)'
BY BillNext, BookingStays, Bases DEF Exists

LEMMA ReportKeeps ==
  ASSUME BillInv, NEW e \in Result, Exists(e.b),
         e.part = "full" <=> booking[e.b].kind # "split",
         sent' = sent \cup {e},
         UNCHANGED <<now, rows, acked, events, task, reminding, seen, link, copies, refunded>>
  PROVE  BillInv' /\ Grows /\ \A b \in Bookings : Exists(b) => Exists(b)'
<1>1. SInv /\ STypeOK /\ TypeOK /\ ForeignKeys /\ LockInv
  BY Bases
<1>2. UNCHANGED <<now, slot, booking, splits, ledger, ticket, acked, events, task, reminding,
                  seen, link, copies, refunded>>
  BY DEF rows
<1>3. TypeOK' /\ STypeOK'
  BY <1>1, <1>2 DEF TypeOK, STypeOK
<1>4. ForeignKeys'
  BY <1>1, <1>2 DEF ForeignKeys, Exists
<1>5. LockInv'
  BY <1>1, <1>2, <1>3, <1>4
  DEF LockInv, TypeInv, CopyIsCurrent, LockIsExclusive, RemindsConfirmed
<1>6. SInv'
  BY <1>1, <1>2, <1>3, <1>5 DEF SInv, SeenIsOfShare, CopiesExist, AbsentHasNoShares
<1> QED BY <1>2, <1>6, QuietBill DEF Exists

LEMMA CreateBegins ==
  ASSUME NEW w \in Workers, NEW b \in Bookings, NEW s \in Slots, NEW k \in Kinds,
         NEW F \in SUBSET Friends, Server(CreateBookingLock(w, b, s, k, F))
  PROVE  /\ [SNext]_svars
         /\ task[w] = Idle /\ ~Exists(b)
         /\ task' = [task EXCEPT ![w] = [op |-> "create", b |-> b, s |-> s, kind |-> k,
                                         friends |-> F, sl |-> slot[s]]]
         /\ UNCHANGED <<now, slot, booking, sent, acked>>
<1>1. CheckoutStep
  BY DEF Server, CheckoutStep, Next, Start
<1> QED BY <1>1 DEF SNext, Server, CreateBookingLock, Exists, rows, gateway

LEMMA CheckBegins ==
  ASSUME NEW w \in Workers, NEW e, Server(PaymentWebhookCheck(w, e))
  PROVE  /\ [SNext]_svars
         /\ task[w] = Idle /\ e \in sent
         /\ task' = [task EXCEPT ![w] = [op |-> "checked", e |-> e]]
         /\ UNCHANGED <<now, slot, booking, sent, acked>>
<1>1. e \in sent
  BY DEF Server, PaymentWebhookCheck, Deliverable
<1>2. CheckoutStep
  BY <1>1 DEF Server, CheckoutStep, Next, Start, Deliver
<1> QED BY <1>1, <1>2 DEF SNext, Server, PaymentWebhookCheck, rows, gateway

LEMMA OtherPays ==
  ASSUME NEW b \in Bookings, Server(\E o \in {"success", "failed"} : PayInFull(b, o))
  PROVE  /\ [SNext]_svars
         /\ \E o \in {"success", "failed"} :
              LET e == [b |-> b, part |-> "full", outcome |-> o] IN
              /\ sent' = sent \cup {e} /\ e \notin sent /\ Exists(b)
              /\ \A x \in sent : x.b = b /\ x.part = "full" => "retry" \in Hazards
         /\ UNCHANGED <<now, slot, booking, acked, task>>
<1>1. CheckoutStep
  BY DEF Server, CheckoutStep, Next, Environment
<1> QED BY <1>1 DEF SNext, Server, PayInFull, Produce, Exists, rows, gateway

LEMMA TickStep ==
  ASSUME Server(Tick)
  PROVE  /\ [SNext]_svars /\ now' = now + 1
         /\ UNCHANGED <<slot, booking, sent, acked, task>>
<1>1. CheckoutStep
  BY DEF Server, CheckoutStep, Next, Environment
<1> QED BY <1>1 DEF SNext, Server, Tick, rows, gateway

(* The goroutines go on.  Creates: a booking is there; Loads: a webhook    *)
(* has loaded its rows; Marks: it has marked a share or issued the ticket; *)
(* Saves: it has written the booking and its slot, and is done.            *)
Stays(v) == task'[v] = task[v]
Elsewhere(b) == \A x \in Bookings : x # b => booking'[x] = booking[x]

KeepsRows(v) ==
  task'[v].e = task[v].e /\ task'[v].bk = task[v].bk /\ task'[v].sl = task[v].sl

Creates(w) ==
  LET t == task[w] IN
  /\ t.op = "create" /\ task'[w] = Idle
  /\ booking'[t.b].status = "pending" /\ booking'[t.b].kind = t.kind
  /\ Elsewhere(t.b)
  /\ \A s \in Slots : slot'[s].current = slot[s].current
  /\ acked' = acked
Loads(w) ==
  LET e == task[w].e IN
  /\ task[w].op = "checked"
  /\ task'[w] = [op |-> "loaded", e |-> e, bk |-> booking[e.b],
                 sl |-> slot[booking[e.b].slot]]
  /\ UNCHANGED <<booking, slot, acked>>
Marks(w) ==
  /\ task[w].op = "loaded" /\ task'[w].op \in {"loaded", "ticketed"}
  /\ KeepsRows(w)
  /\ UNCHANGED <<booking, slot, acked>>
Saves(w) ==
  LET t == task[w]
      r == booking'[t.e.b] IN
  /\ t.op \in {"loaded", "ticketed"} /\ task'[w] = Idle
  /\ Elsewhere(t.e.b)
  /\ r.slot = t.bk.slot /\ r.kind = t.bk.kind
  /\ t.e.part = "full" => r.status = IF t.e.outcome = "success" THEN "confirmed" ELSE "failed"
  /\ t.e.part = "primary" /\ t.e.outcome = "success" => r.primaryPaid
  /\ \A s \in Slots : s # t.bk.slot => slot'[s] = slot[s]
  /\ slot'[t.bk.slot].current \in
       IF t.e.part = "full" /\ t.e.outcome = "success"
       THEN CASE t.bk.kind = "join" -> {t.sl.current + 1}
              [] t.bk.kind = "host" -> {1}
              [] OTHER -> {t.sl.current}
       ELSE {t.sl.current}
  /\ acked' = acked \cup {t.e}

LEMMA CreateCommits ==
  ASSUME BillInv, NEW w \in Workers, CreateBookingCommit(w)
  PROVE  Creates(w) /\ UNCHANGED <<sent, now>> /\ \A v \in Workers : v # w => Stays(v)
<1>1. TypeOK /\ LockInv
  BY Bases
<1>2. task[w].op = "create"
  BY DEF CreateBookingCommit
<1>3. /\ task[w].b \in Bookings /\ task[w].s \in Slots /\ task[w].sl \in SlotRow
      /\ task[w].sl = slot[task[w].s]
  BY <1>1, <1>2, CreatingTask DEF LockInv, CopyIsCurrent
<1>4. \A s \in Slots : slot'[s].current = slot[s].current
  BY <1>1, <1>3 DEF CreateBookingCommit, TypeOK, SlotRow
<1>5. /\ booking'[task[w].b].status = "pending" /\ booking'[task[w].b].kind = task[w].kind
      /\ Elsewhere(task[w].b)
  BY <1>1, <1>3 DEF CreateBookingCommit, TypeOK, Absent, Elsewhere
<1> QED BY <1>1, <1>2, <1>4, <1>5 DEF Creates, CreateBookingCommit, Finish, TypeOK, Stays, gateway

LEMMA WebhookLoads ==
  ASSUME BillInv, NEW w \in Workers, PaymentWebhookLoad(w)
  PROVE  Loads(w) /\ UNCHANGED <<sent, now>> /\ \A v \in Workers : v # w => Stays(v)
<1>1. TypeOK
  BY Bases
<1> QED BY <1>1 DEF Loads, PaymentWebhookLoad, Stays, TypeOK, rows, gateway

LEMMA SoldCurrent ==
  ASSUME NEW sl \in SlotRow, NEW k \in AllKinds
  PROVE  Sold(sl, k).current = CASE k = "join" -> sl.current + 1
                                 [] k = "host" -> 1
                                 [] OTHER -> sl.current
<1>1. CASE k = "join"
  BY <1>1 DEF Sold, SlotRow
<1>2. CASE k = "host"
  BY <1>2 DEF Sold, SlotRow
<1>3. CASE k \notin {"join", "host"}
  BY <1>3 DEF Sold, SlotRow
<1> QED BY <1>1, <1>2, <1>3

LEMMA WebhookSaves ==
  ASSUME BillInv, NEW w \in Workers, PaymentWebhookCommit(w)
  PROVE  Saves(w) /\ UNCHANGED <<sent, now>> /\ \A v \in Workers : v # w => Stays(v)
<1> DEFINE t == task[w]
<1>1. TypeOK /\ TypeInv
  BY Bases
<1>2. t.op \in {"loaded", "ticketed"} /\ t.e.part = "full"
  BY DEF PaymentWebhookCommit
<1>3. /\ t.e.b \in Bookings /\ t.bk \in BookingRow /\ t.bk.slot \in Slots /\ t.sl \in SlotRow
      /\ t.e \in Result
  BY <1>1, <1>2, LoadedTask
<1>4. /\ NewBooking(t).slot = t.bk.slot /\ NewBooking(t).kind = t.bk.kind
      /\ NewBooking(t).status = IF t.e.outcome = "success" THEN "confirmed" ELSE "failed"
  BY <1>3 DEF NewBooking, BookingRow
<1>5. booking'[t.e.b] = NewBooking(t) /\ Elsewhere(t.e.b)
  BY <1>1, <1>3 DEF PaymentWebhookCommit, TypeOK, Elsewhere
<1>6. /\ slot'[t.bk.slot] = NewSlot(t)
      /\ \A s \in Slots : s # t.bk.slot => slot'[s] = slot[s]
  BY <1>1, <1>3 DEF PaymentWebhookCommit, TypeOK
<1>7. NewSlot(t).current \in
        IF t.e.outcome = "success"
        THEN CASE t.bk.kind = "join" -> {t.sl.current + 1}
               [] t.bk.kind = "host" -> {1}
               [] OTHER -> {t.sl.current}
        ELSE {t.sl.current}
  <2>1. t.bk.kind \in AllKinds
    BY <1>3 DEF BookingRow
  <2>2. CASE t.e.outcome = "success"
    BY <1>3, <2>1, <2>2, SoldCurrent DEF NewSlot
  <2>3. CASE t.e.outcome # "success"
    BY <1>3, <2>3 DEF NewSlot, SlotRow
  <2> QED BY <2>2, <2>3
<1>8. /\ task'[w] = Idle /\ acked' = acked \cup {t.e} /\ UNCHANGED <<sent, now>>
      /\ \A v \in Workers : v # w => Stays(v)
  BY <1>1 DEF PaymentWebhookCommit, Finish, TypeOK, Stays
<1> QED BY <1>2, <1>4, <1>5, <1>6, <1>7, <1>8 DEF Saves

LEMMA ShareSaves ==
  ASSUME BillInv, NEW w \in Workers, PaymentSplitCommit(w) \/ PaymentSplitFailed(w)
  PROVE  Saves(w) /\ UNCHANGED <<sent, now>> /\ \A v \in Workers : v # w => Stays(v)
<1> DEFINE t == task[w]
<1>1. TypeOK /\ TypeInv /\ SeenIsOfShare
  BY Bases DEF SInv
<1>2. t.op = "loaded"
  BY DEF PaymentSplitCommit, PaymentSplitFailed
<1>3. /\ t.e.b \in Bookings /\ t.bk \in BookingRow /\ t.bk.slot \in Slots /\ t.sl \in SlotRow
      /\ t \in Loaded
  BY <1>1, <1>2, LoadedTask
<1>4. /\ \A v \in Workers : v # w => Stays(v)
      /\ task'[w] = Idle /\ acked' = acked \cup {t.e} /\ UNCHANGED <<sent, now>>
  BY <1>1 DEF PaymentSplitCommit, PaymentSplitFailed, Finish, TypeOK, Stays
<1>5. CASE PaymentSplitCommit(w)
  <2> DEFINE U == seen[w].unpaid
  <2>1. t.e.part # "full" /\ t.e.outcome = "success"
    BY <1>1, <1>5 DEF PaymentSplitCommit, SeenIsOfShare, Nothing, Look
  <2>2. /\ SplitBooking(t, U).slot = t.bk.slot /\ SplitBooking(t, U).kind = t.bk.kind
        /\ SplitBooking(t, U).primaryPaid = (t.bk.primaryPaid \/ t.e.part = "primary")
    BY <1>3, SplitRowsType
  <2>3. SplitSlot(t, U).current = t.sl.current
    BY <1>3 DEF SplitSlot, SlotRow
  <2>4. booking'[t.e.b] = SplitBooking(t, U) /\ Elsewhere(t.e.b)
    BY <1>1, <1>3, <1>5 DEF PaymentSplitCommit, TypeOK, Elsewhere
  <2>5. /\ slot'[t.bk.slot] = SplitSlot(t, U)
        /\ \A s \in Slots : s # t.bk.slot => slot'[s] = slot[s]
    BY <1>1, <1>3, <1>5 DEF PaymentSplitCommit, TypeOK
  <2>6. t.e.part = "primary" => SplitBooking(t, U).primaryPaid
    BY <2>2
  <2> HIDE DEF U
  <2> QED BY <1>2, <1>4, <2>1, <2>2, <2>3, <2>4, <2>5, <2>6 DEF Saves
<1>6. CASE PaymentSplitFailed(w)
  <2>1. t.e.part # "full" /\ t.e.outcome = "failed"
    BY <1>6 DEF PaymentSplitFailed
  <2>2. booking'[t.e.b] = t.bk /\ Elsewhere(t.e.b)
    BY <1>1, <1>3, <1>6 DEF PaymentSplitFailed, TypeOK, Elsewhere
  <2>3. slot'[t.bk.slot] = t.sl /\ \A s \in Slots : s # t.bk.slot => slot'[s] = slot[s]
    BY <1>1, <1>3, <1>6 DEF PaymentSplitFailed, TypeOK
  <2> QED BY <1>2, <1>4, <2>1, <2>2, <2>3 DEF Saves
<1> QED BY <1>5, <1>6

LEMMA WebhookTickets ==
  ASSUME BillInv, NEW w \in Workers, PaymentWebhookTicket(w)
  PROVE  Marks(w) /\ UNCHANGED <<sent, now>> /\ \A v \in Workers : v # w => Stays(v)
<1>1. TypeInv
  BY Bases
<1> QED BY <1>1, TicketStep DEF Marks, KeepsRows, Stays

Goes(w) == Creates(w) \/ Loads(w) \/ Marks(w) \/ Saves(w)

LEMMA WorkGoes ==
  ASSUME UInv, NEW w \in Workers, Server(Step(w)) \/ SplitStep(w)
  PROVE  /\ [SNext]_svars /\ Goes(w)
         /\ UNCHANGED <<sent, now>> /\ \A v \in Workers : v # w => Stays(v)
<1>1. BillInv /\ task[w].op \in {"idle", "create", "checked", "loaded", "ticketed"}
  BY DEF UInv, TasksAreGood
<1>2. [SNext]_svars
  <2>1. CASE Server(Step(w))
    BY <2>1 DEF Server, SNext, CheckoutStep, Next, Continue
  <2>2. CASE SplitStep(w)
    BY <2>2 DEF SNext
  <2> QED BY <2>1, <2>2
<1>3. \/ CreateBookingCommit(w) \/ PaymentWebhookLoad(w) \/ PaymentWebhookTicket(w)
      \/ PaymentWebhookCommit(w)
      \/ PaymentSplitMark(w) \/ PaymentSplitCommit(w) \/ PaymentSplitFailed(w)
  BY <1>1 DEF Server, Step, SplitStep, StripeWebhookSaveSlot, StripeWebhookSaveBooking,
              StripeSplitMark, StripeSplitRead, StripeSplitFinish
<1>4. CASE PaymentSplitMark(w)
  BY <1>2, <1>4 DEF PaymentSplitMark, Goes, Marks, KeepsRows, Stays, vars, rows, gateway
<1> QED BY <1>1, <1>2, <1>3, <1>4, CreateCommits, WebhookLoads, WebhookTickets, WebhookSaves,
          ShareSaves DEF Goes

LEMMA IntentRefused ==
  ASSUME BillInv, NEW w \in Workers, Server(CreateBookingRollback(w))
  PROVE  /\ [SNext]_svars /\ task[w].op = "create" /\ task'[w] = Idle
         /\ UNCHANGED <<sent, now, slot, booking, acked>>
         /\ \A v \in Workers : v # w => Stays(v)
<1>1. TypeOK
  BY Bases
<1>2. CheckoutStep
  BY DEF Server, CheckoutStep, Next, Continue, Failure
<1> QED BY <1>1, <1>2 DEF SNext, Server, CreateBookingRollback, Finish, TypeOK, Stays, rows,
                          gateway
-----------------------------------------------------------------------------
(* What every environment keeps.                                           *)

LEMMA GoodCallStays ==
  ASSUME UInv, NEW k \in Call, GoodCall(k), sent \subseteq sent', Grows,
         \A b \in Bookings : Exists(b) => Exists(b)',
         k.at \in Workers => (Handles(k.at, k) => Handles(k.at, k)')
  PROVE  GoodCall(k)'
<1>1. k.op # "logout" => k.b \in Bookings
  BY CallKinds
<1>2. ASSUME k.op # "logout", Exists(k.b)
      PROVE  Exists(k.b)' /\ booking'[k.b].kind = booking[k.b].kind
  BY <1>1, <1>2 DEF Grows, SameOrder, Exists
<1>3. k.op = "pay" => ResultOf(k) \in sent'
  BY DEF GoodCall
<1>4. k.op = "book" /\ k.at = "ok" => Exists(k.b)' /\ booking'[k.b].kind = k.kind
  BY <1>2 DEF GoodCall
<1>5. k.op \in {"pay", "charge"} =>
       /\ Exists(k.b)'
       /\ k.part = "primary" <=> booking'[k.b].kind = "split"
  BY <1>2 DEF GoodCall
<1> QED BY <1>3, <1>4, <1>5 DEF GoodCall

LEMMA ModalStaysGood ==
  ASSUME UInv, Grows, \A b \in Bookings : Exists(b) => Exists(b)',
         UNCHANGED <<dialog, modal>>
  PROVE  ModalIsGood' /\ DialogIsGood'
<1>1. modal # Closed => modal.b \in Bookings
  BY CheckoutScreenAssumption DEF UInv, UTypeOK, Modal
<1> QED BY <1>1 DEF UInv, ModalIsGood, DialogIsGood, Grows, SameOrder, Exists

(* A goroutine begins: with a call, or for another customer.               *)
LEMMA BegunTasksGood ==
  ASSUME UInv, NEW w \in Workers, NEW t, task[w] = Idle, task' = [task EXCEPT ![w] = t],
         t.op \in {"create", "checked"}, UNCHANGED <<booking, sent>>,
         \A c \in Calls : call[c].at \in Workers => call'[c].at = call[c].at,
         \A b \in Mine : About(w, b)' => \E c \in Calls : call'[c].at = w
  PROVE  /\ TasksAreGood' /\ FullPaid'
         /\ \A v \in Workers : task[v] # Idle => v # w /\ Stays(v)
         /\ \A k \in Call : k.at \in Workers => (Handles(k.at, k) => Handles(k.at, k)')
<1>1. TypeOK /\ TasksAreGood /\ FullPaid
  BY Bases DEF UInv
<1>2. task'[w] = t /\ \A v \in Workers : v # w => task'[v] = task[v]
  BY <1>1 DEF TypeOK
<1>3. \A v \in Workers : task[v] # Idle => v # w /\ Stays(v)
  BY <1>2 DEF Stays
<1>4. TasksAreGood'
  <2> SUFFICES ASSUME NEW v \in Workers
               PROVE  /\ task'[v].op \in {"idle", "create", "checked", "loaded", "ticketed"}
                      /\ \A b \in Mine : About(v, b)' => \E c \in Calls : call'[c].at = v
    BY DEF TasksAreGood
  <2>1. CASE v = w
    BY <1>2, <2>1
  <2>2. CASE v # w
    BY <1>1, <1>2, <2>2 DEF TasksAreGood, About
  <2> QED BY <2>1, <2>2
<1>5. FullPaid'
  BY <1>1, <1>2 DEF FullPaid, RowPaid
<1>6. ASSUME NEW k \in Call, k.at \in Workers, Handles(k.at, k) PROVE Handles(k.at, k)'
  <2>1. task[k.at] # Idle
    BY <1>6 DEF Handles, Idle
  <2> QED BY <1>3, <1>6, <2>1 DEF Handles, Stays
<1> QED BY <1>3, <1>4, <1>5, <1>6

(* A step of the page alone: it sends, forgets or answers calls that no    *)
(* goroutine handles.                                                      *)
PageTypes ==
  /\ call \in [Calls -> Call \cup {Free}]
  /\ logged \in BOOLEAN /\ processing \in Slots \cup {NoSlot}
  /\ dialog \in Dialog \cup {Closed} /\ modal \in Modal \cup {Closed}
  /\ troubles \in 0..Troubles

PageHandles(c) ==
  \/ call'[c] = call[c]
  \/ /\ call[c] # Free /\ call[c].op \in {"book", "pay"}
     /\ call'[c] = [call[c] EXCEPT !.page = FALSE]
  \/ /\ call[c].at \notin Workers
     /\ \/ call'[c] = Free
        \/ call'[c] \in Call /\ call'[c].at \notin Workers /\ GoodCall(call'[c])

LEMMA ForgottenCall ==
  ASSUME NEW k \in Call, k.op \in {"book", "pay"}
  PROVE  LET x == [k EXCEPT !.page = FALSE] IN
         /\ x \in Call /\ x.at = k.at /\ x.op = k.op /\ x.b = k.b
         /\ k.op = "book" => x.slot = k.slot /\ x.kind = k.kind /\ x.friends = k.friends
         /\ k.op = "pay" => /\ x.part = k.part /\ x.outcome = k.outcome
                            /\ ResultOf(x) = ResultOf(k)
<1>1. CASE k.op = "book"
  BY <1>1 DEF Call
<1>2. CASE k.op = "pay"
  BY <1>2 DEF Call, ResultOf
<1> QED BY <1>1, <1>2

LEMMA PageStepKeeps ==
  ASSUME UInv, UNCHANGED svars, PageTypes', ModalIsGood', DialogIsGood',
         \A c \in Calls : PageHandles(c)
  PROVE  UInv'
<1>1. /\ BillInv' /\ STypeOK' /\ TasksAreGood /\ FullPaid /\ OneCallEach /\ CallsAreGood
      /\ PageTypes
  BY LooksBill, Bases DEF UInv, BillInv, SInv, PageTypes, UTypeOK
<1>2. UNCHANGED <<task, booking, sent>>
  BY DEF svars, vars, rows, gateway
<1>3. UTypeOK'
  BY <1>1 DEF UTypeOK, PageTypes
<1>4. Free.at \notin Workers
  BY CheckoutScreenAssumption DEF Free
<1>5. ASSUME NEW c \in Calls
      PROVE  /\ call'[c].at \in Workers => call'[c].at = call[c].at
             /\ call[c].at \in Workers => call'[c].at = call[c].at
             /\ call'[c] # Free => GoodCall(call'[c])
  <2>1. CASE call'[c] = call[c]
    BY <1>1, <2>1 DEF CallsAreGood
  <2>2. CASE /\ call[c] # Free /\ call[c].op \in {"book", "pay"}
             /\ call'[c] = [call[c] EXCEPT !.page = FALSE]
    <3>1. call[c] \in Call /\ GoodCall(call[c])
      BY <1>1, <2>2 DEF PageTypes, CallsAreGood
    <3> DEFINE x == [call[c] EXCEPT !.page = FALSE]
    <3>2. /\ x.at = call[c].at /\ x.op = call[c].op /\ x.b = call[c].b
          /\ call[c].op = "book" =>
               x.slot = call[c].slot /\ x.kind = call[c].kind /\ x.friends = call[c].friends
          /\ call[c].op = "pay" => /\ x.part = call[c].part
                                   /\ ResultOf(x) = ResultOf(call[c])
      BY <2>2, <3>1, ForgottenCall
    <3> HIDE DEF x
    <3>3. GoodCall(x)
      BY <2>2, <3>1, <3>2 DEF GoodCall, Handles
    <3> QED BY <2>2, <3>2, <3>3 DEF x
  <2>3. CASE /\ call[c].at \notin Workers
             /\ \/ call'[c] = Free
                \/ call'[c] \in Call /\ call'[c].at \notin Workers /\ GoodCall(call'[c])
    BY <1>4, <2>3
  <2> QED BY <2>1, <2>2, <2>3 DEF PageHandles
<1>6. CallsAreGood'
  BY <1>2, <1>5 DEF CallsAreGood, GoodCall, Handles, Exists
<1>7. OneCallEach'
  BY <1>1, <1>5 DEF OneCallEach
<1>8. TasksAreGood'
  BY <1>1, <1>2, <1>5 DEF TasksAreGood, About
<1>9. FullPaid'
  BY <1>1, <1>2 DEF FullPaid, RowPaid
<1> QED BY <1>1, <1>3, <1>6, <1>7, <1>8, <1>9 DEF UInv

LEMMA TopDialog ==
  ASSUME UInv
  PROVE  /\ OnTop("config") =>
              /\ dialog # Closed /\ dialog.at = "config" /\ dialog \in Dialog
              /\ dialog.slot \in Slots /\ dialog.b \in Mine
              /\ dialog.join \in BOOLEAN /\ dialog.split \in BOOLEAN
              /\ dialog.matchmaking \in BOOLEAN
              /\ logged /\ (modal = Closed)
         /\ OnTop("breakdown") => dialog # Closed /\ dialog.at = "breakdown"
                                  /\ dialog.slot \in Slots
         /\ OnTop("page") => dialog = Closed /\ logged /\ modal = Closed
         /\ View \in {"pay", "confirmed", "split"} => logged /\ modal # Closed /\ modal \in Modal
         /\ View = "pay" => ~modal.confirmed
<1>1. dialog \in Dialog \cup {Closed} /\ modal \in Modal \cup {Closed}
  BY DEF UInv, UTypeOK
<1> QED BY <1>1 DEF OnTop, View, Dialog, Closed

LEMMA BrowseKeeps ==
  ASSUME UInv, Browse, ~Reload
  PROVE  UInv'
<1>1. PageTypes /\ ModalIsGood /\ DialogIsGood
  BY DEF UInv, UTypeOK, PageTypes
<1>2. UNCHANGED <<svars, call, troubles>>
  BY DEF Browse, OpenBreakdown, InitiateBooking, ChooseSplit, ToggleMatchmaking, CloseDialog,
         CloseModal, Login
<1>3. UNCHANGED <<booking>>
  BY <1>2 DEF svars, vars, rows
<1>4. PageTypes' /\ ModalIsGood' /\ DialogIsGood'
  <2>1. CASE \E s \in Slots : OpenBreakdown(s)
    BY <1>1, <1>3, <2>1 DEF OpenBreakdown, PageTypes, ModalIsGood, DialogIsGood, Dialog, Exists
  <2>2. CASE \E b \in Mine, join \in BOOLEAN : InitiateBooking(b, join)
    <3>1. PICK b \in Mine, join \in BOOLEAN : InitiateBooking(b, join)
      BY <2>2
    <3>2. dialog.slot \in Slots
      BY <3>1, TopDialog DEF InitiateBooking
    <3> QED BY <1>1, <1>3, <3>1, <3>2
            DEF InitiateBooking, PageTypes, ModalIsGood, DialogIsGood, Dialog, Exists
  <2>3. CASE \E on \in BOOLEAN : ChooseSplit(on)
    <3>1. PICK on \in BOOLEAN : ChooseSplit(on)
      BY <2>3
    <3>2. dialog \in Dialog /\ dialog # Closed /\ dialog.at = "config"
      BY <3>1, TopDialog DEF ChooseSplit
    <3>3. dialog' \in Dialog
      BY <3>1, <3>2 DEF ChooseSplit, Dialog
    <3>4. /\ dialog'.join = dialog.join /\ dialog'.matchmaking = dialog.matchmaking
          /\ dialog'.split = on
      BY <3>1, <3>2 DEF ChooseSplit, Dialog
    <3> QED BY <1>1, <1>3, <3>1, <3>2, <3>3, <3>4
            DEF ChooseSplit, PageTypes, ModalIsGood, DialogIsGood, Exists
  <2>4. CASE ToggleMatchmaking
    <3>2. dialog \in Dialog /\ dialog # Closed /\ dialog.at = "config"
      BY <2>4, TopDialog DEF ToggleMatchmaking
    <3>3. dialog' \in Dialog
      BY <2>4, <3>2 DEF ToggleMatchmaking, Dialog
    <3>4. dialog'.join = dialog.join /\ dialog'.split = dialog.split
      BY <2>4, <3>2 DEF ToggleMatchmaking, Dialog
    <3> QED BY <1>1, <1>3, <2>4, <3>2, <3>3, <3>4
            DEF ToggleMatchmaking, PageTypes, ModalIsGood, DialogIsGood, Exists
  <2>5. CASE CloseDialog \/ CloseModal \/ Login
    BY <1>1, <1>2, <1>3, <2>5
    DEF CloseDialog, CloseModal, Login, PageTypes, ModalIsGood, DialogIsGood, Exists
  <2> QED BY <2>1, <2>2, <2>3, <2>4, <2>5 DEF Browse
<1>5. \A c \in Calls : PageHandles(c)
  BY <1>2 DEF PageHandles
<1> QED BY <1>2, <1>4, <1>5, PageStepKeeps

LEMMA SentAt == "sent" \notin Workers /\ "ok" \notin Workers /\ "refused" \notin Workers
                /\ Free.at \notin Workers /\ Free \notin Call
BY CheckoutScreenAssumption DEF Free, Call

LEMMA OneCallChanges ==
  ASSUME UInv, NEW c \in Calls, NEW x, call' = [call EXCEPT ![c] = x],
         call[c].at \notin Workers,
         x = Free \/ (x \in Call /\ x.at \notin Workers /\ GoodCall(x))
  PROVE  /\ \A d \in Calls : PageHandles(d)
         /\ call' \in [Calls -> Call \cup {Free}]
<1>1. call \in [Calls -> Call \cup {Free}]
  BY DEF UInv, UTypeOK
<1> QED BY <1>1 DEF PageHandles

LEMMA TypesOf ==
  ASSUME UInv
  PROVE  /\ PageTypes /\ CallsAreGood /\ ModalIsGood /\ DialogIsGood
         /\ \A c \in Calls : call[c] \in Call \cup {Free}
         /\ \A c \in Calls : call[c] # Free => call[c] \in Call /\ GoodCall(call[c])
BY DEF UInv, UTypeOK, PageTypes, CallsAreGood

LEMMA ConfirmBookingKeeps ==
  ASSUME UInv, NEW c \in Calls, ConfirmBooking(c)
  PROVE  UInv'
<1>1. /\ PageTypes /\ ModalIsGood /\ DialogIsGood
      /\ dialog # Closed /\ dialog.at = "config" /\ dialog \in Dialog
      /\ dialog.slot \in Slots /\ dialog.b \in Mine
  BY TypesOf, TopDialog DEF ConfirmBooking
<1>2. PICK F \in SUBSET Friends :
        /\ dialog.split <=> F # {}
        /\ Send(c, [op |-> "book", b |-> dialog.b, slot |-> dialog.slot,
                   kind |-> KindOf(dialog), friends |-> F, at |-> "sent", page |-> TRUE])
  BY DEF ConfirmBooking
<1> DEFINE k == [op |-> "book", b |-> dialog.b, slot |-> dialog.slot,
                 kind |-> KindOf(dialog), friends |-> F, at |-> "sent", page |-> TRUE]
<1>3. /\ KindOf(dialog) \in Kinds /\ KindOf(dialog) \in AllKinds
      /\ F # {} <=> KindOf(dialog) = "split"
  BY <1>1, <1>2, CheckoutScreenAssumption DEF KindOf, DialogIsGood, AllKinds
<1>4. k \in Call
  BY <1>1, <1>3 DEF Call
<1>5. k.at \notin Workers /\ GoodCall(k)
  BY <1>3, SentAt DEF GoodCall
<1> HIDE DEF k
<1>6. call[c] = Free /\ call' = [call EXCEPT ![c] = k]
  BY <1>2 DEF Send, k
<1>7. (\A d \in Calls : PageHandles(d)) /\ call' \in [Calls -> Call \cup {Free}]
  BY <1>4, <1>5, <1>6, SentAt, OneCallChanges
<1>8. UNCHANGED <<svars, logged, modal, troubles, booking>> /\ dialog' = Closed
  BY DEF ConfirmBooking, svars, vars, rows
<1>9. PageTypes'
  BY <1>1, <1>7, <1>8 DEF PageTypes, ConfirmBooking
<1>10. ModalIsGood' /\ DialogIsGood'
  BY <1>1, <1>8 DEF ModalIsGood, DialogIsGood, Exists
<1> QED BY <1>7, <1>8, <1>9, <1>10, PageStepKeeps

LEMMA PaymentIsCall ==
  ASSUME UInv, modal # Closed, NEW op \in {"pay", "charge"}, NEW o \in {"success", "failed"}
  PROVE  LET k == Payment(op, modal, o) IN
         /\ k \in Call /\ k.op = op /\ k.at = "sent" /\ k.b = modal.b /\ k.page
         /\ k.outcome = o /\ k.part = PartOf(modal)
         /\ ResultOf(k) \in Result /\ ResultOf(k) = ResultOf(Payment("pay", modal, o))
         /\ Exists(k.b) /\ (k.part = "primary" <=> booking[k.b].kind = "split")
         /\ k.part \in {"full", "primary"}
<1>1. modal \in Modal /\ ModalIsGood
  BY TypesOf DEF PageTypes
<1>2. /\ modal.b \in Mine /\ PartOf(modal) \in {"full", "primary"}
      /\ PartOf(modal) = "primary" <=> modal.shares
  BY <1>1 DEF Modal, PartOf
<1>3. Payment(op, modal, o) \in Call
  BY <1>2 DEF Payment, Call
<1>4. ResultOf(Payment(op, modal, o)) \in Result
  BY <1>3, CallKinds DEF Payment
<1> QED BY <1>1, <1>2, <1>3, <1>4 DEF Payment, ResultOf, ModalIsGood

LEMMA ConfirmPaymentKeeps ==
  ASSUME UInv, NEW c \in Calls, ConfirmPayment(c)
  PROVE  UInv'
<1>1. PageTypes /\ ModalIsGood /\ DialogIsGood /\ modal # Closed /\ modal \in Modal
  BY TypesOf, TopDialog DEF ConfirmPayment
<1> DEFINE k == Payment("charge", modal, "success")
<1>2. /\ k \in Call /\ k.op = "charge" /\ k.at = "sent"
      /\ Exists(k.b) /\ (k.part = "primary" <=> booking[k.b].kind = "split")
  BY <1>1, PaymentIsCall
<1> HIDE DEF k
<1>3. GoodCall(k)
  BY <1>2, SentAt DEF GoodCall
<1>4. call[c] = Free /\ call' = [call EXCEPT ![c] = k]
  BY DEF ConfirmPayment, Send, k
<1>5. (\A d \in Calls : PageHandles(d)) /\ call' \in [Calls -> Call \cup {Free}]
  BY <1>2, <1>3, <1>4, SentAt, OneCallChanges
<1>6. UNCHANGED <<svars, logged, dialog, processing, troubles, booking>>
  BY DEF ConfirmPayment, svars, vars, rows
<1>7. modal' \in Modal /\ modal'.b = modal.b /\ modal'.shares = modal.shares
  BY <1>1 DEF ConfirmPayment, Modal
<1>8. PageTypes' /\ ModalIsGood' /\ DialogIsGood'
  BY <1>1, <1>5, <1>6, <1>7 DEF PageTypes, ModalIsGood, DialogIsGood, Exists
<1> QED BY <1>5, <1>6, <1>8, PageStepKeeps

LEMMA LogoutKeeps ==
  ASSUME UInv, NEW c \in Calls, Logout(c)
  PROVE  UInv'
<1> DEFINE k == [op |-> "logout", at |-> "sent", page |-> TRUE]
<1>1. k \in Call /\ GoodCall(k) /\ k.at = "sent"
  BY SentAt DEF Call, GoodCall
<1> HIDE DEF k
<1>2. call[c] = Free /\ call' = [call EXCEPT ![c] = k]
  BY DEF Logout, Send, k
<1>3. (\A d \in Calls : PageHandles(d)) /\ call' \in [Calls -> Call \cup {Free}]
  BY <1>1, <1>2, SentAt, OneCallChanges
<1>4. UNCHANGED <<svars, page, troubles, booking>>
  BY DEF Logout, svars, vars, rows
<1>5. PageTypes' /\ ModalIsGood' /\ DialogIsGood'
  BY <1>3, <1>4, TypesOf DEF PageTypes, ModalIsGood, DialogIsGood, Exists, page
<1> QED BY <1>3, <1>4, <1>5, PageStepKeeps

LEMMA LogOutPages ==
  ASSUME UInv, LogOut, UNCHANGED booking
  PROVE  /\ logged' = FALSE /\ dialog' \in Dialog \cup {Closed} /\ modal' \in Modal \cup {Closed}
         /\ ModalIsGood' /\ DialogIsGood'
         /\ modal = Closed => modal' = Closed
<1>1. PageTypes /\ ModalIsGood /\ DialogIsGood
  BY TypesOf
<1>2. modal # Closed => /\ modal' \in Modal /\ modal'.b = modal.b /\ modal'.shares = modal.shares
  BY <1>1 DEF PageTypes, LogOut, Modal
<1> QED BY <1>1, <1>2 DEF PageTypes, LogOut, ModalIsGood, DialogIsGood, Exists

(* The answers.                                                            *)
LEMMA AnswerKeeps ==
  ASSUME UInv, NEW c \in Calls, call[c].at \notin Workers, call' = [call EXCEPT ![c] = Free],
         UNCHANGED svars, logged' \in BOOLEAN, processing' \in Slots \cup {NoSlot},
         dialog' \in Dialog \cup {Closed}, modal' \in Modal \cup {Closed},
         troubles' \in 0..Troubles, ModalIsGood', DialogIsGood'
  PROVE  UInv'
<1>1. (\A d \in Calls : PageHandles(d)) /\ call' \in [Calls -> Call \cup {Free}]
  BY OneCallChanges
<1> QED BY <1>1, PageStepKeeps DEF PageTypes

LEMMA BookedKeeps ==
  ASSUME UInv, NEW c \in Calls, Booked(c)
  PROVE  UInv'
<1>1. PageTypes /\ ModalIsGood /\ DialogIsGood
  BY TypesOf
<1>2. /\ call[c] # Free /\ call[c].at = "ok" /\ call[c].op = "book" /\ call[c].at \notin Workers
      /\ call[c] \in Call /\ GoodCall(call[c])
  BY SentAt, TypesOf DEF Booked, Free
<1>3. /\ call[c].b \in Mine /\ Exists(call[c].b)
      /\ call[c].friends # {} <=> booking[call[c].b].kind = "split"
  BY <1>2, CallKinds DEF GoodCall
<1>4. PICK t \in Terminals :
        modal' = [b |-> call[c].b, shares |-> call[c].friends # {}, secret |-> t,
                  confirmed |-> FALSE, busy |-> FALSE]
  BY DEF Booked
<1>5. (call[c].friends # {}) \in BOOLEAN
  OBVIOUS
<1>6. modal' \in Modal /\ modal'.b = call[c].b /\ (modal'.shares <=> call[c].friends # {})
  BY <1>3, <1>4, <1>5 DEF Modal
<1>7. UNCHANGED <<svars, logged, dialog, troubles, booking>> /\ processing' = NoSlot
      /\ call' = [call EXCEPT ![c] = Free]
  BY DEF Booked, svars, vars, rows
<1>8. ModalIsGood' /\ DialogIsGood'
  BY <1>1, <1>3, <1>6, <1>7 DEF ModalIsGood, DialogIsGood, Exists
<1> QED BY <1>1, <1>2, <1>6, <1>7, <1>8, AnswerKeeps DEF PageTypes

LEMMA ReplyKeeps ==
  ASSUME UInv, NEW c \in Calls, Reply(c), ~Charged(c)
  PROVE  UInv'
<1>1. PageTypes /\ ModalIsGood /\ DialogIsGood
  BY TypesOf
<1>2. CASE Booked(c)
  BY <1>2, BookedKeeps
<1>3. CASE NotBooked(c)
  <2>1. UNCHANGED <<svars, logged, dialog, modal, troubles, booking>> /\ processing' = NoSlot
        /\ call' = [call EXCEPT ![c] = Free] /\ call[c].at \notin Workers
    BY <1>3, SentAt DEF NotBooked, svars, vars, rows
  <2>2. ModalIsGood' /\ DialogIsGood'
    BY <1>1, <2>1 DEF ModalIsGood, DialogIsGood, Exists
  <2> QED BY <1>1, <2>1, <2>2, AnswerKeeps DEF PageTypes
<1>4. CASE SharePosted(c)
  <2>1. UNCHANGED <<svars, logged, dialog, processing, troubles, booking>>
        /\ call' = [call EXCEPT ![c] = Free] /\ call[c].at \notin Workers
    BY <1>4, SentAt DEF SharePosted, svars, vars, rows
  <2>2. /\ call[c] # Free /\ call[c].op = "pay" /\ call[c].part = "primary"
        /\ call[c] \in Call /\ GoodCall(call[c])
    BY <1>4, SentAt, TypesOf DEF SharePosted, Free
  <2>3. call[c].b \in Mine /\ Exists(call[c].b) /\ booking[call[c].b].kind = "split"
    BY <2>2, CallKinds DEF GoodCall
  <2>4. modal' \in Modal /\ modal'.b = call[c].b /\ modal'.shares
    BY <1>4, <2>3 DEF SharePosted, Modal
  <2>5. ModalIsGood' /\ DialogIsGood'
    BY <1>1, <2>1, <2>3, <2>4 DEF ModalIsGood, DialogIsGood, Exists
  <2> QED BY <1>1, <2>1, <2>4, <2>5, AnswerKeeps DEF PageTypes
<1>5. CASE PaymentPosted(c) \/ FailurePosted(c)
  <2>1. UNCHANGED <<svars, logged, dialog, processing, troubles, booking>>
        /\ call' = [call EXCEPT ![c] = Free] /\ call[c].at \notin Workers
    BY <1>5, SentAt DEF PaymentPosted, FailurePosted, svars, vars, rows
  <2>2. modal # Closed => modal \in Modal
    BY <1>1 DEF PageTypes
  <2>3. \/ modal' = Closed \/ modal' = modal
        \/ modal # Closed /\ modal' \in Modal /\ modal'.b = modal.b /\ modal'.shares = modal.shares
    BY <1>5, <2>2 DEF PaymentPosted, FailurePosted, Modal
  <2>4. ModalIsGood' /\ DialogIsGood' /\ modal' \in Modal \cup {Closed}
    BY <1>1, <2>1, <2>3 DEF ModalIsGood, DialogIsGood, Exists, PageTypes
  <2> QED BY <1>1, <2>1, <2>4, AnswerKeeps DEF PageTypes
<1>6. CASE LoggedOut(c)
  <2>1. UNCHANGED <<svars, processing, troubles, booking>> /\ LogOut
        /\ call' = [call EXCEPT ![c] = Free] /\ call[c] # Free /\ call[c].op = "logout"
    BY <1>6 DEF LoggedOut, svars, vars, rows
  <2>2. call[c].at \notin Workers
    BY <2>1, SentAt, TypesOf, CallKinds
  <2> QED BY <1>1, <2>1, <2>2, LogOutPages, AnswerKeeps DEF PageTypes
<1>7. CASE Declined(c)
  <2>1. UNCHANGED <<svars, logged, dialog, processing, troubles, booking>>
        /\ call' = [call EXCEPT ![c] = Free] /\ call[c] # Free /\ call[c].op = "charge"
    BY <1>7 DEF Declined, svars, vars, rows
  <2>2. call[c].at \notin Workers
    BY <2>1, SentAt, TypesOf DEF GoodCall
  <2>3. modal # Closed => modal \in Modal
    BY <1>1 DEF PageTypes
  <2>4. \/ modal' = modal
        \/ modal # Closed /\ modal' \in Modal /\ modal'.b = modal.b /\ modal'.shares = modal.shares
    BY <1>7, <2>3 DEF Declined, Modal
  <2>5. ModalIsGood' /\ DialogIsGood' /\ modal' \in Modal \cup {Closed}
    BY <1>1, <2>1, <2>4 DEF ModalIsGood, DialogIsGood, Exists, PageTypes
  <2> QED BY <1>1, <2>1, <2>2, <2>5, AnswerKeeps DEF PageTypes
<1> QED BY <1>2, <1>3, <1>4, <1>5, <1>6, <1>7 DEF Reply

(* Calls that are lost or refused, and a page that is loaded again.        *)
LEMMA TroubleType == ASSUME UInv, Trouble PROVE troubles' \in 0..Troubles
BY CheckoutScreenAssumption DEF UInv, UTypeOK, Trouble

LEMMA UnauthorisedKeeps ==
  ASSUME UInv, NEW c \in Calls, Unauthorised(c)
  PROVE  UInv'
<1>1. UNCHANGED <<svars, booking>> /\ LogOut /\ processing' = NoSlot
      /\ call' = [call EXCEPT ![c] = Free] /\ call[c].at \notin Workers
  BY SentAt DEF Unauthorised, svars, vars, rows
<1>2. troubles' \in 0..Troubles
  BY TroubleType DEF Unauthorised
<1> QED BY <1>1, <1>2, LogOutPages, AnswerKeeps

LEMMA LostKeeps ==
  ASSUME UInv, NEW c \in Calls, Lost(c)
  PROVE  UInv'
<1>1. /\ call[c] # Free /\ call[c].op \in {"book", "pay"} /\ call[c].at \notin Workers
      /\ call[c] \in Call /\ GoodCall(call[c])
  BY SentAt, TypesOf DEF Lost, Free
<1> DEFINE x == [call[c] EXCEPT !.at = "refused"]
<1>2. call' = [call EXCEPT ![c] = IF call[c].page THEN x ELSE Free]
  BY TypesOf DEF Lost, Answer, PageTypes
<1>3. /\ x \in Call /\ x.at = "refused" /\ x.op = call[c].op /\ x.b = call[c].b
      /\ call[c].op = "book" =>
           x.slot = call[c].slot /\ x.kind = call[c].kind /\ x.friends = call[c].friends
      /\ call[c].op = "pay" => x.part = call[c].part /\ ResultOf(x) = ResultOf(call[c])
  BY <1>1, CallFacts DEF Ats
<1> HIDE DEF x
<1>4. x.at \notin Workers /\ GoodCall(x)
  BY <1>1, <1>3, SentAt DEF GoodCall
<1>5. (\A d \in Calls : PageHandles(d)) /\ call' \in [Calls -> Call \cup {Free}]
  BY <1>1, <1>2, <1>3, <1>4, OneCallChanges
<1>6. UNCHANGED <<svars, page, booking>>
  BY DEF Lost, svars, vars, rows
<1>7. troubles' \in 0..Troubles
  BY TroubleType DEF Lost
<1>8. PageTypes' /\ ModalIsGood' /\ DialogIsGood'
  BY <1>5, <1>6, <1>7, TypesOf DEF PageTypes, ModalIsGood, DialogIsGood, Exists, page
<1> QED BY <1>5, <1>6, <1>8, PageStepKeeps

LEMMA ReloadKeeps ==
  ASSUME UInv, Reload
  PROVE  UInv'
<1>1. UNCHANGED <<svars, logged>> /\ dialog' = Closed /\ modal' = Closed /\ processing' = NoSlot
  BY DEF Reload
<1>2. troubles' \in 0..Troubles
  BY TroubleType DEF Reload
<1>3. ASSUME NEW c \in Calls
      PROVE  PageHandles(c) /\ call'[c] \in Call \cup {Free}
  <2>1. CASE /\ call[c] # Free /\ call[c].op \in {"book", "pay"}
             /\ call[c].at \in {"sent"} \cup Workers
    <3>1. call'[c] = [call[c] EXCEPT !.page = FALSE]
      BY <2>1 DEF Reload
    <3>2. [call[c] EXCEPT !.page = FALSE] \in Call
      BY <2>1, TypesOf, ForgottenCall
    <3> QED BY <2>1, <3>1, <3>2 DEF PageHandles
  <2>2. CASE ~(/\ call[c] # Free /\ call[c].op \in {"book", "pay"}
               /\ call[c].at \in {"sent"} \cup Workers)
    <3>1. call'[c] = Free
      BY <2>2 DEF Reload
    <3>2. call[c].at \notin Workers
      <4>1. CASE call[c] = Free
        BY <4>1, SentAt
      <4>2. CASE call[c] # Free /\ call[c].at \in Workers
        <5>1. call[c] \in Call /\ GoodCall(call[c])
          BY <4>2, TypesOf
        <5>2. call[c].op \in {"book", "pay"}
          BY <4>2, <5>1 DEF GoodCall, Handles
        <5> QED BY <2>2, <4>2, <5>2
      <4> QED BY <4>1, <4>2
    <3> QED BY <3>1, <3>2 DEF PageHandles
  <2> QED BY <2>1, <2>2
<1>4. call' \in [Calls -> Call \cup {Free}]
  <2>1. \E f : call' = [c \in Calls |-> f[c]]
    <3> DEFINE f == [c \in Calls |->
                IF call[c] # Free /\ call[c].op \in {"book", "pay"}
                     /\ call[c].at \in {"sent"} \cup Workers
                THEN [call[c] EXCEPT !.page = FALSE] ELSE Free]
    <3>1. call' = f
      BY DEF Reload
    <3>2. f = [c \in Calls |-> f[c]]
      OBVIOUS
    <3> HIDE DEF f
    <3> QED BY <3>1, <3>2
  <2> QED BY <1>3, <2>1
<1>5. PageTypes' /\ ModalIsGood' /\ DialogIsGood'
  BY <1>1, <1>2, <1>4, TypesOf DEF PageTypes, ModalIsGood, DialogIsGood
<1> QED BY <1>1, <1>3, <1>5, PageStepKeeps

(* The page reports a payment.                                             *)
LEMMA ReportStep ==
  ASSUME UInv, NEW c \in Calls, call[c].at \notin Workers, NEW k \in Call, k.op = "pay",
         k.at = "sent", Exists(k.b), k.part = "primary" <=> booking[k.b].kind = "split",
         call' = [call EXCEPT ![c] = k],
         sent' = sent \cup {ResultOf(k)},
         UNCHANGED <<now, rows, acked, events, task, reminding, seen, link, copies, refunded>>,
         UNCHANGED <<page, troubles>>
  PROVE  UInv'
<1> DEFINE e == ResultOf(k)
<1>1. /\ e \in Result /\ e.b = k.b /\ e.part = k.part /\ e.part \in {"full", "primary"}
  BY CallKinds, CallFacts
<1>2. e.part = "full" <=> booking[e.b].kind # "split"
  BY <1>1
<1>3. e \in sent'
  OBVIOUS
<1> HIDE DEF e
<1>4. BillInv' /\ Grows /\ (\A b \in Bookings : Exists(b) => Exists(b)') /\ sent \subseteq sent'
  <2>1. sent' = sent \cup {e} /\ Exists(e.b)
    BY <1>1 DEF e
  <2>2. BillInv
    BY DEF UInv
  <2> QED BY <1>1, <1>2, <2>1, <2>2, ReportKeeps
<1>5. PageTypes /\ CallsAreGood /\ OneCallEach /\ TasksAreGood /\ FullPaid /\ STypeOK'
  BY <1>4, TypesOf DEF UInv, BillInv, SInv
<1>6. UNCHANGED <<booking, task>> /\ UNCHANGED <<logged, dialog, modal, processing, troubles>>
  BY DEF rows, page
<1>7. /\ \A d \in Calls : d # c => call'[d] = call[d]
      /\ call'[c] = k
  BY <1>5 DEF PageTypes
<1>8. UTypeOK'
  BY <1>5, <1>6 DEF UTypeOK, PageTypes
<1>9. CallsAreGood'
  <2> SUFFICES ASSUME NEW d \in Calls, call'[d] # Free PROVE GoodCall(call[d])'
    BY DEF CallsAreGood
  <2>1. CASE d = c
    BY <1>1, <1>3, <1>6, <1>7, <2>1, SentAt DEF GoodCall, Exists, e
  <2>2. CASE d # c
    <3>1. call'[d] = call[d] /\ call[d] \in Call /\ GoodCall(call[d])
      BY <1>7, <2>2, TypesOf
    <3>2. ASSUME NEW z \in Call, GoodCall(z) PROVE GoodCall(z)'
      <4>1. z.at \in Workers => (Handles(z.at, z) => Handles(z.at, z)')
        BY <1>6 DEF Handles
      <4> QED BY <1>4, <3>2, <4>1, GoodCallStays
    <3>3. GoodCall(call[d]) => GoodCall(call[d])'
      BY <3>1, <3>2 DEF GoodCall
    <3> QED BY <3>1, <3>3
  <2> QED BY <2>1, <2>2
<1>10. OneCallEach'
  BY <1>5, <1>7, SentAt DEF OneCallEach
<1>11. ModalIsGood' /\ DialogIsGood'
  BY <1>4, <1>6, ModalStaysGood
<1>12. TasksAreGood'
  <2> SUFFICES ASSUME NEW w \in Workers, NEW b \in Mine, About(w, b)
               PROVE  \E d \in Calls : call'[d].at = w
    BY <1>5, <1>6 DEF TasksAreGood, About
  <2>1. PICK d \in Calls : call[d].at = w
    BY <1>5 DEF TasksAreGood
  <2> QED BY <1>7, <2>1
<1>13. FullPaid'
  BY <1>4, <1>5, <1>6 DEF FullPaid, RowPaid
<1> QED BY <1>4, <1>8, <1>9, <1>10, <1>11, <1>12, <1>13 DEF UInv

LEMMA PostFacts ==
  ASSUME UInv, NEW c \in Calls, NEW o \in {"success", "failed"}, View = "pay",
         Post(c, modal, o)
  PROVE  LET k == Payment("pay", modal, o) IN
         /\ call[c] = Free /\ call' = [call EXCEPT ![c] = k]
         /\ sent' = sent \cup {ResultOf(k)}
         /\ k \in Call /\ k.op = "pay" /\ k.at = "sent" /\ k.b = modal.b /\ k.page
         /\ k.outcome = o /\ k.part = PartOf(modal) /\ modal # Closed /\ modal \in Modal
         /\ Exists(k.b) /\ (k.part = "primary" <=> booking[k.b].kind = "split")
         /\ UNCHANGED <<now, rows, acked, events, task, reminding, seen, link, copies, refunded>>
<1>1. modal # Closed /\ modal \in Modal
  BY TopDialog
<1> QED BY <1>1, PaymentIsCall DEF Post, Send

LEMMA PostKeeps ==
  ASSUME UInv, NEW c \in Calls, MockPay(c) \/ CancelPayment(c) \/ TimerExpires(c)
  PROVE  UInv'
<1>1. PICK o \in {"success", "failed"} : Post(c, modal, o)
  BY DEF MockPay, CancelPayment, TimerExpires
<1>2. View = "pay" /\ UNCHANGED <<page, troubles>>
  BY DEF MockPay, CancelPayment, TimerExpires
<1> DEFINE k == Payment("pay", modal, o)
<1>3. /\ call[c] = Free /\ call' = [call EXCEPT ![c] = k]
      /\ sent' = sent \cup {ResultOf(k)}
      /\ k \in Call /\ k.op = "pay" /\ k.at = "sent"
      /\ Exists(k.b) /\ (k.part = "primary" <=> booking[k.b].kind = "split")
      /\ UNCHANGED <<now, rows, acked, events, task, reminding, seen, link, copies, refunded>>
  BY <1>1, <1>2, PostFacts
<1> HIDE DEF k
<1> QED BY <1>2, <1>3, SentAt, ReportStep

LEMMA ChargedFacts ==
  ASSUME UInv, NEW c \in Calls, Charged(c)
  PROVE  LET k == [call[c] EXCEPT !.op = "pay"] IN
         /\ call[c] # Free /\ call[c].op = "charge" /\ call[c].at = "sent"
         /\ call[c] \in Call /\ GoodCall(call[c])
         /\ call' = [call EXCEPT ![c] = k]
         /\ sent' = sent \cup {ResultOf(k)}
         /\ k \in Call /\ k.op = "pay" /\ k.at = "sent" /\ k.b = call[c].b
         /\ k.page = call[c].page /\ k.outcome = call[c].outcome /\ k.part = call[c].part
         /\ UNCHANGED <<now, rows, acked, events, task, reminding, seen, link, copies, refunded>>
         /\ UNCHANGED <<page, troubles>>
<1>1. /\ call[c] # Free /\ call[c].op = "charge" /\ call[c].at = "sent"
      /\ call[c] \in Call /\ GoodCall(call[c])
  BY TypesOf DEF Charged, GoodCall
<1> DEFINE k == [call[c] EXCEPT !.op = "pay"]
<1>2. /\ k \in Call /\ k.op = "pay" /\ k.at = "sent" /\ k.b = call[c].b
      /\ k.page = call[c].page /\ k.outcome = call[c].outcome /\ k.part = call[c].part
  BY <1>1 DEF Call
<1>3. ResultOf(k) = ResultOf(call[c])
  BY <1>2 DEF ResultOf
<1>4. call' = [call EXCEPT ![c] = k]
  BY TypesOf DEF Charged, PageTypes
<1>5. sent' = sent \cup {ResultOf(k)}
  BY <1>3 DEF Charged
<1> HIDE DEF k
<1>6. /\ UNCHANGED <<now, rows, acked, events, task, reminding, seen, link, copies, refunded>>
      /\ UNCHANGED <<page, troubles>>
  BY DEF Charged, page
<1> QED BY <1>1, <1>2, <1>4, <1>5, <1>6 DEF k

LEMMA ChargedKeeps ==
  ASSUME UInv, NEW c \in Calls, Charged(c)
  PROVE  UInv'
<1> DEFINE k == [call[c] EXCEPT !.op = "pay"]
<1>1. /\ call[c].op = "charge" /\ call[c].at = "sent" /\ GoodCall(call[c])
      /\ call' = [call EXCEPT ![c] = k]
      /\ sent' = sent \cup {ResultOf(k)}
      /\ k \in Call /\ k.op = "pay" /\ k.at = "sent" /\ k.b = call[c].b
      /\ k.part = call[c].part
      /\ UNCHANGED <<now, rows, acked, events, task, reminding, seen, link, copies, refunded>>
      /\ UNCHANGED <<page, troubles>>
  BY ChargedFacts
<1> HIDE DEF k
<1>2. Exists(k.b) /\ (k.part = "primary" <=> booking[k.b].kind = "split")
  BY <1>1 DEF GoodCall
<1> QED BY <1>1, <1>2, SentAt, ReportStep

(* A goroutine takes up a call.                                            *)
LEMMA ServeFacts ==
  ASSUME UInv, NEW c \in Calls, Serve(c)
  PROVE  /\ call[c] # Free /\ call[c] \in Call /\ GoodCall(call[c]) /\ call[c].at = "sent"
         /\ call[c].op \in {"book", "pay"} /\ UNCHANGED <<page, troubles>>
         /\ \/ \E w \in Workers : \E t :
                 /\ [SNext]_svars /\ task[w] = Idle /\ task' = [task EXCEPT ![w] = t]
                 /\ call' = [call EXCEPT ![c] = [call[c] EXCEPT !.at = w]]
                 /\ UNCHANGED <<now, slot, booking, sent, acked>>
                 /\ \/ /\ call[c].op = "book" /\ ~Exists(call[c].b)
                       /\ t.op = "create" /\ t.b = call[c].b /\ t.s = call[c].slot
                       /\ t.kind = call[c].kind /\ t.friends = call[c].friends
                    \/ call[c].op = "pay" /\ t.op = "checked" /\ t.e = ResultOf(call[c])
            \/ /\ call[c].op = "book" /\ UNCHANGED svars
               /\ call' = [call EXCEPT ![c] = Answer(call[c], "refused")]
<1>1. call[c].at = "sent" /\ call[c].op \in {"book", "pay"} /\ UNCHANGED <<page, troubles>>
  BY DEF Serve
<1>2. call[c] # Free /\ call[c] \in Call /\ GoodCall(call[c])
  BY <1>1, TypesOf DEF Free
<1>3. call \in [Calls -> Call \cup {Free}]
  BY TypesOf DEF PageTypes
<1> DEFINE k == call[c]
<1>4. CASE \E w \in Workers :
          /\ call' = [call EXCEPT ![c].at = w]
          /\ \/ k.op = "book" /\ Server(CreateBookingLock(w, k.b, k.slot, k.kind, k.friends))
             \/ k.op = "pay" /\ Server(PaymentWebhookCheck(w, ResultOf(k)))
  <2>1. PICK w \in Workers :
          /\ call' = [call EXCEPT ![c].at = w]
          /\ \/ k.op = "book" /\ Server(CreateBookingLock(w, k.b, k.slot, k.kind, k.friends))
             \/ k.op = "pay" /\ Server(PaymentWebhookCheck(w, ResultOf(k)))
    BY <1>4
  <2>2. call' = [call EXCEPT ![c] = [call[c] EXCEPT !.at = w]]
    BY <1>3, <2>1
  <2>3. CASE k.op = "book" /\ Server(CreateBookingLock(w, k.b, k.slot, k.kind, k.friends))
    <3>1. /\ k.b \in Bookings /\ k.slot \in Slots /\ k.kind \in Kinds
          /\ k.friends \in SUBSET Friends
      BY <1>2, <2>3, CallKinds DEF GoodCall
    <3> DEFINE t == [op |-> "create", b |-> k.b, s |-> k.slot, kind |-> k.kind,
                     friends |-> k.friends, sl |-> slot[k.slot]]
    <3>2. /\ [SNext]_svars /\ task[w] = Idle /\ ~Exists(k.b)
          /\ task' = [task EXCEPT ![w] = t]
          /\ UNCHANGED <<now, slot, booking, sent, acked>>
      BY <2>3, <3>1, CreateBegins
    <3>3. /\ t.op = "create" /\ t.b = k.b /\ t.s = k.slot
          /\ t.kind = k.kind /\ t.friends = k.friends
      OBVIOUS
    <3> HIDE DEF t
    <3> QED BY <1>1, <1>2, <2>2, <2>3, <3>2, <3>3
  <2>4. CASE k.op = "pay" /\ Server(PaymentWebhookCheck(w, ResultOf(k)))
    <3> DEFINE t == [op |-> "checked", e |-> ResultOf(k)]
    <3>1. /\ [SNext]_svars /\ task[w] = Idle /\ task' = [task EXCEPT ![w] = t]
          /\ UNCHANGED <<now, slot, booking, sent, acked>>
      BY <2>4, CheckBegins
    <3>2. t.op = "checked" /\ t.e = ResultOf(k)
      OBVIOUS
    <3> HIDE DEF t
    <3> QED BY <1>1, <1>2, <2>2, <2>4, <3>1, <3>2
  <2> QED BY <2>1, <2>3, <2>4
<1>5. CASE /\ k.op = "book" /\ UNCHANGED svars
           /\ call' = [call EXCEPT ![c] = Answer(k, "refused")]
  BY <1>1, <1>2, <1>5
<1> QED BY <1>4, <1>5 DEF Serve

LEMMA ServerKeeps ==
  ASSUME UInv, [SNext]_svars, UNCHANGED page, troubles' \in 0..Troubles,
         call' \in [Calls -> Call \cup {Free}]
  PROVE  /\ BillInv' /\ Grows /\ \A b \in Bookings : Exists(b) => Exists(b)'
         /\ UTypeOK' /\ ModalIsGood' /\ DialogIsGood'
<1>1. BillInv' /\ Grows /\ \A b \in Bookings : Exists(b) => Exists(b)'
  BY StepKeeps DEF UInv
<1>2. UTypeOK'
  BY <1>1, TypesOf DEF UTypeOK, PageTypes, page, BillInv, SInv
<1>3. ModalIsGood' /\ DialogIsGood'
  BY <1>1, ModalStaysGood DEF page
<1> QED BY <1>1, <1>2, <1>3

LEMMA ServeKeeps ==
  ASSUME UInv, NEW c \in Calls, Serve(c)
  PROVE  UInv'
<1>1. /\ call[c] # Free /\ call[c] \in Call /\ GoodCall(call[c]) /\ call[c].at = "sent"
      /\ call[c].op \in {"book", "pay"} /\ UNCHANGED <<page, troubles>>
  BY ServeFacts
<1>2. call \in [Calls -> Call \cup {Free}] /\ TasksAreGood /\ OneCallEach /\ FullPaid
  BY TypesOf DEF PageTypes, UInv
<1>3. ASSUME NEW w \in Workers, NEW t,
             [SNext]_svars, task[w] = Idle, task' = [task EXCEPT ![w] = t],
             call' = [call EXCEPT ![c] = [call[c] EXCEPT !.at = w]],
             UNCHANGED <<booking, sent>>,
             \/ /\ call[c].op = "book"
                /\ t.op = "create" /\ t.b = call[c].b /\ t.s = call[c].slot
                /\ t.kind = call[c].kind /\ t.friends = call[c].friends
             \/ call[c].op = "pay" /\ t.op = "checked" /\ t.e = ResultOf(call[c])
      PROVE  UInv'
    <2>0. PICK x : x = [call[c] EXCEPT !.at = w]
      OBVIOUS
    <2>1. /\ x \in Call /\ x.at = w /\ x.op = call[c].op /\ x.b = call[c].b
          /\ call[c].op = "book" =>
               x.slot = call[c].slot /\ x.kind = call[c].kind /\ x.friends = call[c].friends
          /\ call[c].op = "pay" => x.part = call[c].part /\ ResultOf(x) = ResultOf(call[c])
      BY <1>1, <2>0, CallFacts DEF Ats
    <2>2. call' = [call EXCEPT ![c] = x]
      BY <1>3, <2>0
    <2>3. call'[c] = x /\ \A d \in Calls : d # c => call'[d] = call[d]
      BY <1>2, <2>2
    <2>4. call' \in [Calls -> Call \cup {Free}]
      BY <1>2, <2>1, <2>2
    <2>5. /\ BillInv' /\ Grows /\ \A b \in Bookings : Exists(b) => Exists(b)'
          /\ UTypeOK' /\ ModalIsGood' /\ DialogIsGood'
      BY <1>1, <1>3, <2>4, TypesOf, ServerKeeps DEF PageTypes
    <2>6. t.op \in {"create", "checked"}
      BY <1>3
    <2>7. \A d \in Calls : call[d].at \in Workers => call'[d].at = call[d].at
      BY <1>1, <2>3, SentAt
    <2>8. \A b \in Mine : About(w, b)' => \E d \in Calls : call'[d].at = w
      BY <2>1, <2>3
    <2>9. /\ TasksAreGood' /\ FullPaid'
          /\ \A v \in Workers : task[v] # Idle => v # w /\ Stays(v)
          /\ \A k \in Call : k.at \in Workers => (Handles(k.at, k) => Handles(k.at, k)')
      BY <1>3, <2>6, <2>7, <2>8, BegunTasksGood
    <2>10. Handles(w, x)'
      <3>1. task'[w] = t
        BY <1>3, Bases DEF TypeOK, UInv
      <3> QED BY <1>3, <2>1, <2>6, <3>1 DEF Handles
    <2>11. CallsAreGood'
      <3> SUFFICES ASSUME NEW d \in Calls, call'[d] # Free PROVE GoodCall(call[d])'
        BY DEF CallsAreGood
      <3>1. CASE d = c
        <4>1. UNCHANGED <<booking, sent>>
          BY <1>3
        <4>2. GoodCall(x)'
          BY <1>1, <2>1, <2>10, <4>1, SentAt DEF GoodCall, Exists
        <4> QED BY <2>3, <3>1, <4>2 DEF GoodCall
      <3>2. CASE d # c
        <4>1. call'[d] = call[d] /\ call[d] \in Call /\ GoodCall(call[d])
          BY <2>3, <3>2, TypesOf
        <4>2. ASSUME NEW z \in Call, GoodCall(z) PROVE GoodCall(z)'
          BY <1>3, <2>5, <2>9, <4>2, GoodCallStays
        <4>3. GoodCall(call[d]) => GoodCall(call[d])'
          BY <4>1, <4>2 DEF GoodCall
        <4> QED BY <4>1, <4>3
      <3> QED BY <3>1, <3>2
    <2>12. OneCallEach'
      <3>1. \A d \in Calls : d # c => call[d].at # w
        <4> SUFFICES ASSUME NEW d \in Calls, call[d].at = w PROVE FALSE
          OBVIOUS
        <4>1. GoodCall(call[d]) /\ call[d] # Free
          BY SentAt, TypesOf
        <4>2. Handles(w, call[d])
          BY <4>1 DEF GoodCall
        <4> QED BY <1>3, <4>2 DEF Handles, Idle
      <3> QED BY <1>2, <2>1, <2>3, <3>1 DEF OneCallEach
    <2> QED BY <2>5, <2>9, <2>11, <2>12 DEF UInv
<1>4. ASSUME call[c].op = "book", UNCHANGED svars,
             call' = [call EXCEPT ![c] = Answer(call[c], "refused")]
      PROVE  UInv'
  <2> DEFINE x == [call[c] EXCEPT !.at = "refused"]
  <2>1. call' = [call EXCEPT ![c] = IF call[c].page THEN x ELSE Free]
    BY <1>4 DEF Answer
  <2>2. /\ x \in Call /\ x.at = "refused" /\ x.op = "book" /\ x.b = call[c].b
        /\ x.kind = call[c].kind /\ x.friends = call[c].friends
    BY <1>1, <1>4, CallFacts DEF Ats
  <2> HIDE DEF x
  <2>3. x.at \notin Workers /\ GoodCall(x)
    BY <1>1, <1>4, <2>2, SentAt DEF GoodCall
  <2>4. (\A d \in Calls : PageHandles(d)) /\ call' \in [Calls -> Call \cup {Free}]
    BY <1>1, <2>1, <2>2, <2>3, SentAt, OneCallChanges
  <2>5. UNCHANGED booking
    BY <1>4 DEF svars, vars, rows
  <2>6. PageTypes' /\ ModalIsGood' /\ DialogIsGood'
    BY <1>1, <2>4, <2>5, TypesOf DEF PageTypes, ModalIsGood, DialogIsGood, Exists, page
  <2> QED BY <1>4, <2>4, <2>6, PageStepKeeps
<1> QED BY <1>3, <1>4, ServeFacts

(* A goroutine goes on, and answers its call when it is done.              *)
LEMMA GoOnCalls ==
  ASSUME UInv, NEW w \in Workers, NEW a \in {"ok", "refused"}, GoOn(w, a)
  PROVE  /\ call' \in [Calls -> Call \cup {Free}]
         /\ \A c \in Calls : call[c].at # w \/ task'[w] # Idle => call'[c] = call[c]
         /\ \A c \in Calls : call[c].at = w /\ task'[w] = Idle =>
              LET x == [call[c] EXCEPT !.at = a] IN
              /\ call[c] # Free /\ call[c] \in Call /\ GoodCall(call[c]) /\ Handles(w, call[c])
              /\ call'[c] = IF call[c].page THEN x ELSE Free
              /\ x \in Call /\ x.at = a /\ x.op = call[c].op /\ x.b = call[c].b
              /\ call[c].op \in {"book", "pay"}
              /\ call[c].op = "book" =>
                   x.slot = call[c].slot /\ x.kind = call[c].kind /\ x.friends = call[c].friends
              /\ call[c].op = "pay" => /\ x.part = call[c].part /\ x.outcome = call[c].outcome
                                       /\ ResultOf(x) = ResultOf(call[c])
<1>1. \A c \in Calls : call[c].at # w \/ task'[w] # Idle => call'[c] = call[c]
  BY DEF GoOn
<1>2. ASSUME NEW c \in Calls, call[c].at = w, task'[w] = Idle
      PROVE  LET x == [call[c] EXCEPT !.at = a] IN
              /\ call[c] # Free /\ call[c] \in Call /\ GoodCall(call[c]) /\ Handles(w, call[c])
              /\ call'[c] = IF call[c].page THEN x ELSE Free
              /\ x \in Call /\ x.at = a /\ x.op = call[c].op /\ x.b = call[c].b
              /\ call[c].op \in {"book", "pay"}
              /\ call[c].op = "book" =>
                   x.slot = call[c].slot /\ x.kind = call[c].kind /\ x.friends = call[c].friends
              /\ call[c].op = "pay" => /\ x.part = call[c].part /\ x.outcome = call[c].outcome
                                       /\ ResultOf(x) = ResultOf(call[c])
  <2>1. call[c] # Free /\ call[c] \in Call /\ GoodCall(call[c])
    BY <1>2, SentAt, TypesOf
  <2>2. Handles(w, call[c]) /\ call[c].op \in {"book", "pay"}
    BY <1>2, <2>1 DEF GoodCall, Handles
  <2>3. call'[c] = IF call[c].page THEN [call[c] EXCEPT !.at = a] ELSE Free
    BY <1>2 DEF GoOn, Answer
  <2> QED BY <2>1, <2>2, <2>3, CallFacts DEF Ats
<1>3. \A c \in Calls : call'[c] \in Call \cup {Free}
  BY <1>1, <1>2, TypesOf
<1>4. \E f : call' = [c \in Calls |-> f[c]]
  <2> DEFINE f == [c \in Calls |-> IF call[c].at = w /\ task'[w] = Idle
                                   THEN Answer(call[c], a) ELSE call[c]]
  <2>1. call' = f
    BY DEF GoOn
  <2>2. f = [c \in Calls |-> f[c]]
    OBVIOUS
  <2> HIDE DEF f
  <2> QED BY <2>1, <2>2
<1> QED BY <1>1, <1>2, <1>3, <1>4

\* A goroutine goes on with the result it works on.
Hands(w) ==
  /\ task[w].op \in {"checked", "loaded"} /\ task'[w].op \in {"loaded", "ticketed"}
  /\ task'[w].e = task[w].e

(* The parts of UInv that speak of tasks, when a goroutine w goes on.      *)
LEMMA GoneTasksGood ==
  ASSUME UInv, NEW w \in Workers, NEW a \in {"ok", "refused"}, GoOn(w, a),
         [SNext]_svars, UNCHANGED page, troubles' \in 0..Troubles, UNCHANGED sent,
         \A v \in Workers : v # w => Stays(v),
         \/ task'[w] = Idle \/ Stays(w)
         \/ Hands(w),
         a = "ok" => Goes(w), FullPaid'
  PROVE  UInv'
<1>1. /\ BillInv' /\ Grows /\ \A b \in Bookings : Exists(b) => Exists(b)'
      /\ UTypeOK' /\ ModalIsGood' /\ DialogIsGood'
  BY GoOnCalls, ServerKeeps
<1>2. TasksAreGood /\ OneCallEach /\ Idle.op = "idle"
  BY DEF UInv, Idle
<1>3. ASSUME NEW c \in Calls, call[c].at = w, task'[w] = Idle, call'[c] # Free
      PROVE  call'[c].at = a /\ GoodCall(call[c])'
  <2>1. PICK x : x = [call[c] EXCEPT !.at = a]
    OBVIOUS
  <2>2. /\ call[c] # Free /\ call[c] \in Call /\ GoodCall(call[c]) /\ Handles(w, call[c])
        /\ call'[c] = x
        /\ x \in Call /\ x.at = a /\ x.op = call[c].op /\ x.b = call[c].b
        /\ call[c].op \in {"book", "pay"}
        /\ call[c].op = "book" =>
             x.slot = call[c].slot /\ x.kind = call[c].kind /\ x.friends = call[c].friends
        /\ call[c].op = "pay" => x.part = call[c].part /\ ResultOf(x) = ResultOf(call[c])
    BY <1>3, <2>1, GoOnCalls
  <2>3. GoodCall(x)'
    <3>1. CASE call[c].op = "pay"
      <4>1. GoodCall(x)
        BY <2>2, <3>1, SentAt DEF GoodCall
      <4>2. x.at \in Workers => (Handles(x.at, x) => Handles(x.at, x)')
        BY <2>2, SentAt
      <4>3. sent \subseteq sent'
        OBVIOUS
      <4> QED BY <1>1, <2>2, <4>1, <4>2, <4>3, GoodCallStays
    <3>2. CASE call[c].op = "book"
      <4>1. a = "ok" => Exists(x.b)' /\ booking'[x.b].kind = x.kind
        <5>1. task[w].op = "create" /\ task[w].b = x.b /\ task[w].kind = x.kind
          BY <2>2, <3>2 DEF Handles
        <5>2. a = "ok" => Creates(w)
          BY <5>1 DEF Goes, Loads, Marks, Saves
        <5> QED BY <5>1, <5>2 DEF Creates, Exists
      <4>2. x.at \notin Workers /\ x.op = "book"
        BY <2>2, <3>2, SentAt
      <4>3. x.kind \in Kinds /\ (x.friends # {} <=> x.kind = "split")
        BY <2>2, <3>2 DEF GoodCall
      <4> QED BY <2>2, <4>1, <4>2, <4>3 DEF GoodCall
    <3> QED BY <2>2, <3>1, <3>2
  <2> QED BY <2>2, <2>3 DEF GoodCall
<1>4. ASSUME NEW c \in Calls, call[c].at # w \/ task'[w] # Idle, call'[c] # Free
      PROVE  GoodCall(call[c])'
  <2>1. call'[c] = call[c] /\ call[c] \in Call /\ GoodCall(call[c])
    BY <1>4, GoOnCalls, TypesOf
  <2>2. PICK z : z = call[c]
    OBVIOUS
  <2>3. z.at \in Workers => (Handles(z.at, z) => Handles(z.at, z)')
    BY <1>4, <2>2 DEF Handles, Stays, Hands
  <2>4. GoodCall(z)'
    <3>1. sent \subseteq sent' /\ z \in Call /\ GoodCall(z)
      BY <2>1, <2>2
    <3> QED BY <1>1, <2>3, <3>1, GoodCallStays
  <2> QED BY <2>1, <2>2, <2>4 DEF GoodCall
<1>5. CallsAreGood'
  BY <1>3, <1>4 DEF CallsAreGood
<1>6. \A c \in Calls : call'[c].at \in Workers => call'[c].at = call[c].at
  <2> SUFFICES ASSUME NEW c \in Calls, call'[c].at \in Workers PROVE call'[c].at = call[c].at
    OBVIOUS
  <2>1. call'[c] # Free
    BY SentAt
  <2> QED BY <1>3, <2>1, GoOnCalls, SentAt
<1>7. OneCallEach'
  BY <1>2, <1>6 DEF OneCallEach
<1>8. TasksAreGood'
  <2> SUFFICES ASSUME NEW v \in Workers
               PROVE  /\ task'[v].op \in {"idle", "create", "checked", "loaded", "ticketed"}
                      /\ \A b \in Mine : About(v, b)' => \E c \in Calls : call'[c].at = v
    BY DEF TasksAreGood
  <2>1. task'[v] = Idle \/ Stays(v)
        \/ Hands(v)
    OBVIOUS
  <2>2. task'[v].op \in {"idle", "create", "checked", "loaded", "ticketed"}
    BY <1>2, <2>1 DEF TasksAreGood, Stays, Hands
  <2>3. ASSUME NEW b \in Mine, About(v, b)' PROVE \E c \in Calls : call'[c].at = v
    <3>1. About(v, b) /\ task'[v] # Idle
      BY <1>2, <2>1, <2>3 DEF About, Stays, Hands
    <3>2. PICK c \in Calls : call[c].at = v
      BY <1>2, <3>1 DEF TasksAreGood
    <3> QED BY <3>1, <3>2, GoOnCalls
  <2> QED BY <2>2, <2>3
<1> QED BY <1>1, <1>5, <1>7, <1>8 DEF UInv

LEMMA SavedKnows ==
  ASSUME UInv, NEW w \in Workers, task[w].op \in {"loaded", "ticketed"}
  PROVE  LET t == task[w] IN
         /\ t.e \in sent /\ t.e \in Result /\ t.e.b \in Bookings /\ Exists(t.e.b)
         /\ t.bk.kind = booking[t.e.b].kind /\ t.bk.slot \in Slots
         /\ t.bk \in BookingRow /\ t.sl \in SlotRow
         /\ t.e.part = "full" <=> t.bk.kind # "split"
         /\ t.e.part = "full" /\ t.e.outcome = "success" => t.e = SuccessOf(t.e.b)
<1>1. BillInv /\ TypeInv /\ PartsMatch
  BY Bases DEF UInv, BillInv
<1>2. /\ task[w].e \in sent /\ task[w].e \in Result /\ task[w].e.b \in Bookings
      /\ Exists(task[w].e.b) /\ SameOrder(task[w].bk, booking[task[w].e.b])
  BY <1>1, ShareIsGood DEF Exists
<1>3. task[w].bk.slot \in Slots /\ task[w].sl \in SlotRow /\ task[w].bk \in BookingRow
  BY <1>1, LoadedTask
<1>4. task[w].e.part = "full" /\ task[w].e.outcome = "success"
        => task[w].e = SuccessOf(task[w].e.b)
  BY <1>2 DEF Result, SuccessOf
<1> QED BY <1>1, <1>2, <1>3, <1>4 DEF PartsMatch, SameOrder

LEMMA GoesFullPaid ==
  ASSUME UInv, NEW w \in Workers, Goes(w), UNCHANGED sent,
         \A v \in Workers : v # w => Stays(v)
  PROVE  /\ FullPaid'
         /\ \/ task'[w] = Idle \/ Stays(w)
            \/ Hands(w)
<1>1. FullPaid /\ ForeignKeys /\ TypeOK /\ Idle.op = "idle"
  BY Bases DEF UInv, Idle
<1>2. CASE Creates(w)
  BY <1>1, <1>2 DEF Creates, Elsewhere, FullPaid, RowPaid, Stays
<1>3. CASE Loads(w)
  <2>1. task[w].e.b \in Bookings
    BY <1>1, <1>3 DEF Loads, ForeignKeys, TypeOK, Result
  <2>2. /\ task'[w].op = "loaded" /\ task'[w].e = task[w].e
        /\ task'[w].bk = booking[task[w].e.b]
    BY <1>3 DEF Loads
  <2>3. FullPaid'
    BY <1>1, <1>3, <2>1, <2>2 DEF Loads, FullPaid, RowPaid, Stays
  <2> QED BY <1>3, <2>2, <2>3 DEF Loads, Hands
<1>4. CASE Marks(w)
  BY <1>1, <1>4 DEF Marks, KeepsRows, Hands, FullPaid, RowPaid, Stays
<1>5. CASE Saves(w)
  <2> DEFINE t == task[w]
  <2>1. /\ t.e \in sent /\ t.e.b \in Bookings
        /\ t.e.part = "full" <=> t.bk.kind # "split"
        /\ t.e.part = "full" /\ t.e.outcome = "success" => t.e = SuccessOf(t.e.b)
    BY <1>5, SavedKnows DEF Saves
  <2>2. RowPaid(booking'[t.e.b], t.e.b)
    BY <1>5, <2>1 DEF Saves, RowPaid
  <2>3. \A b \in Bookings : RowPaid(booking'[b], b)
    BY <1>1, <1>5, <2>2 DEF Saves, Elsewhere, FullPaid
  <2> QED BY <1>1, <1>5, <2>3 DEF Saves, FullPaid, RowPaid, Stays
<1> QED BY <1>2, <1>3, <1>4, <1>5 DEF Goes

LEMMA WorkKeeps ==
  ASSUME UInv, NEW w \in Workers, Work(w)
  PROVE  UInv'
<1>1. GoOn(w, "ok") /\ UNCHANGED <<page, troubles>> /\ (Server(Step(w)) \/ SplitStep(w))
  BY DEF Work, GoOn, page
<1>2. /\ [SNext]_svars /\ Goes(w) /\ UNCHANGED sent /\ \A v \in Workers : v # w => Stays(v)
  BY <1>1, WorkGoes
<1>3. troubles' \in 0..Troubles
  BY <1>1, TypesOf DEF PageTypes
<1> QED BY <1>1, <1>2, <1>3, GoesFullPaid, GoneTasksGood

LEMMA RefuseIntentKeeps ==
  ASSUME UInv, NEW w \in Workers, RefuseIntent(w)
  PROVE  UInv'
<1>1. /\ GoOn(w, "refused") /\ UNCHANGED page /\ Server(CreateBookingRollback(w))
      /\ troubles' \in 0..Troubles
  BY TroubleType DEF RefuseIntent, GoOn
<1>2. BillInv
  BY DEF UInv
<1>3. /\ [SNext]_svars /\ task[w].op = "create" /\ task'[w] = Idle
      /\ UNCHANGED <<sent, booking>> /\ \A v \in Workers : v # w => Stays(v)
  BY <1>1, <1>2, IntentRefused
<1>4. FullPaid'
  BY <1>3 DEF UInv, FullPaid, RowPaid, Stays, Idle
<1> QED BY <1>1, <1>3, <1>4, GoneTasksGood

(* The other customers, and the clock.                                     *)
LEMMA OthersCases ==
  ASSUME UInv, Others
  PROVE  /\ UNCHANGED <<call, page, troubles>> /\ [SNext]_svars
         /\ \/ \E w \in Workers : \E t :
                 /\ task[w] = Idle /\ task' = [task EXCEPT ![w] = t]
                 /\ UNCHANGED <<now, slot, booking, sent, acked>>
                 /\ \/ /\ t.op = "create" /\ t.b \in Bookings \ Mine
                       /\ t.kind \in Kinds \ {"split"}
                    \/ /\ t.op = "checked" /\ t.e \in sent \ acked /\ t.e.b \in Bookings \ Mine
                       /\ \A v \in Workers : ~Processing(v, t.e)
            \/ /\ UNCHANGED <<now, slot, booking, acked, task>>
               /\ \E b \in Bookings \ Mine, o \in {"success", "failed"} :
                    LET e == [b |-> b, part |-> "full", outcome |-> o] IN
                    /\ sent' = sent \cup {e} /\ e \notin sent /\ Exists(b)
                    /\ \A x \in sent : x.b = b /\ x.part = "full" => "retry" \in Hazards
<1>1. UNCHANGED <<call, page, troubles>>
  BY DEF Others
<1>2. PICK b \in Bookings \ Mine :
       \/ \E w \in Workers, s \in Slots, k \in Kinds \ {"split"} :
            Server(CreateBookingLock(w, b, s, k, {}))
       \/ now < Deadline(b) /\ Server(\E o \in {"success", "failed"} : PayInFull(b, o))
       \/ \E w \in Workers, e \in sent \ acked :
            /\ e.b = b /\ \A v \in Workers : ~Processing(v, e)
            /\ Server(PaymentWebhookCheck(w, e))
  BY DEF Others
<1>3. CASE \E w \in Workers, s \in Slots, k \in Kinds \ {"split"} :
             Server(CreateBookingLock(w, b, s, k, {}))
  <2>1. PICK w \in Workers, s \in Slots, k \in Kinds \ {"split"} :
          Server(CreateBookingLock(w, b, s, k, {}))
    BY <1>3
  <2> DEFINE t == [op |-> "create", b |-> b, s |-> s, kind |-> k,
                   friends |-> {}, sl |-> slot[s]]
  <2>2. /\ [SNext]_svars /\ task[w] = Idle /\ task' = [task EXCEPT ![w] = t]
        /\ UNCHANGED <<now, slot, booking, sent, acked>>
    BY <2>1, CreateBegins
  <2>3. t.op = "create" /\ t.b = b /\ t.kind = k
    OBVIOUS
  <2> HIDE DEF t
  <2> QED BY <1>1, <2>2, <2>3
<1>4. CASE Server(\E o \in {"success", "failed"} : PayInFull(b, o))
  BY <1>1, <1>4, OtherPays
<1>5. CASE \E w \in Workers, e \in sent \ acked :
            /\ e.b = b /\ \A v \in Workers : ~Processing(v, e)
            /\ Server(PaymentWebhookCheck(w, e))
  <2>1. PICK w \in Workers, e \in sent \ acked :
            /\ e.b = b /\ \A v \in Workers : ~Processing(v, e)
            /\ Server(PaymentWebhookCheck(w, e))
    BY <1>5
  <2> DEFINE t == [op |-> "checked", e |-> e]
  <2>2. /\ [SNext]_svars /\ task[w] = Idle /\ task' = [task EXCEPT ![w] = t]
        /\ UNCHANGED <<now, slot, booking, sent, acked>>
    BY <2>1, CheckBegins
  <2>3. t.op = "checked" /\ t.e = e
    OBVIOUS
  <2> HIDE DEF t
  <2> QED BY <1>1, <2>1, <2>2, <2>3
<1> QED BY <1>2, <1>3, <1>4, <1>5

\* A step of the server that leaves the calls and their goroutines alone.
LEMMA QuietKeeps ==
  ASSUME UInv, [SNext]_svars, UNCHANGED <<call, page, troubles, booking>>, sent \subseteq sent',
         TasksAreGood', FullPaid',
         \A w \in Workers : task[w] # Idle => Stays(w)
  PROVE  UInv'
<1>1. /\ BillInv' /\ Grows /\ \A b \in Bookings : Exists(b) => Exists(b)'
      /\ UTypeOK' /\ ModalIsGood' /\ DialogIsGood'
  BY TypesOf, ServerKeeps DEF PageTypes
<1>2. CallsAreGood'
  <2> SUFFICES ASSUME NEW c \in Calls, call[c] # Free PROVE GoodCall(call[c])'
    BY DEF CallsAreGood
  <2>1. PICK z : z = call[c]
    OBVIOUS
  <2>2. z \in Call /\ GoodCall(z)
    BY <2>1, TypesOf
  <2>3. z.at \in Workers => (Handles(z.at, z) => Handles(z.at, z)')
    BY DEF Handles, Stays, Idle
  <2>4. GoodCall(z)'
    BY <1>1, <2>2, <2>3, GoodCallStays
  <2> QED BY <2>1, <2>4 DEF GoodCall
<1>3. OneCallEach'
  BY DEF UInv, OneCallEach
<1> QED BY <1>1, <1>2, <1>3 DEF UInv

LEMMA OthersKeep ==
  ASSUME UInv, Others
  PROVE  UInv'
<1>1. UNCHANGED <<call, page, troubles>> /\ [SNext]_svars
  BY OthersCases
<1>2. TypeOK /\ TasksAreGood /\ FullPaid
  BY Bases DEF UInv
<1>3. ASSUME NEW w \in Workers, NEW t,
             task[w] = Idle, task' = [task EXCEPT ![w] = t],
             UNCHANGED <<booking, sent>>,
             \/ t.op = "create" /\ t.b \in Bookings \ Mine
             \/ t.op = "checked" /\ t.e.b \in Bookings \ Mine
      PROVE  UInv'
  <2>1. task'[w] = t
    BY <1>2, <1>3 DEF TypeOK
  <2>2. \A b \in Mine : ~About(w, b)'
    BY <1>3, <2>1 DEF About
  <2>3. \A c \in Calls : call[c].at \in Workers => call'[c].at = call[c].at
    BY <1>1
  <2>4. /\ TasksAreGood' /\ FullPaid'
        /\ \A v \in Workers : task[v] # Idle => v # w /\ Stays(v)
    BY <1>3, <2>2, <2>3, BegunTasksGood
  <2> QED BY <1>1, <1>3, <2>4, QuietKeeps
<1>4. ASSUME UNCHANGED <<booking, task>>, sent \subseteq sent'
      PROVE  UInv'
  <2>1. TasksAreGood' /\ FullPaid'
    BY <1>1, <1>2, <1>4 DEF TasksAreGood, About, FullPaid, RowPaid
  <2> QED BY <1>1, <1>4, <2>1, QuietKeeps DEF Stays
<1> QED BY <1>3, <1>4, OthersCases

LEMMA ClockKeeps ==
  ASSUME UInv, Clock
  PROVE  UInv'
<1>1. /\ UNCHANGED <<call, page, troubles>> /\ [SNext]_svars
      /\ UNCHANGED <<slot, booking, sent, acked, task>>
  BY TickStep DEF Clock
<1>2. TasksAreGood' /\ FullPaid'
  BY <1>1 DEF UInv, TasksAreGood, About, FullPaid, RowPaid
<1> QED BY <1>1, <1>2, QuietKeeps DEF Stays

LEMMA UInitInv == ASSUME UInit PROVE UInv
<1>1. BillInv
  BY BillInit DEF UInit
<1>2. STypeOK
  BY <1>1, Bases
<1>3. /\ call = [c \in Calls |-> Free] /\ dialog = Closed /\ modal = Closed
      /\ \A c \in Calls : call[c] = Free
  BY DEF UInit
<1>4. UTypeOK
  <2>1. troubles \in 0..Troubles
    BY CheckoutScreenAssumption DEF UInit
  <2>2. call \in [Calls -> Call \cup {Free}]
    BY <1>3
  <2>3. logged \in BOOLEAN /\ processing \in Slots \cup {NoSlot}
    BY DEF UInit
  <2> QED BY <1>2, <1>3, <2>1, <2>2, <2>3 DEF UTypeOK
<1>5. /\ \A w \in Workers : task[w] = Idle
      /\ \A b \in Bookings : booking[b].status = "absent"
  BY DEF UInit, SInit, Init, Absent
<1>6. CallsAreGood /\ ModalIsGood /\ DialogIsGood
  BY <1>3 DEF CallsAreGood, ModalIsGood, DialogIsGood
<1>7. OneCallEach
  BY <1>3, SentAt DEF OneCallEach
<1>8. TasksAreGood /\ FullPaid
  BY <1>5 DEF TasksAreGood, About, FullPaid, RowPaid, Idle
<1> QED BY <1>1, <1>4, <1>6, <1>7, <1>8 DEF UInv

LEMMA UStutter == ASSUME UInv, UNCHANGED uvars PROVE UInv'
<1>1. UNCHANGED <<svars, call, page, troubles>> /\ UNCHANGED booking
  BY DEF uvars, svars, vars, rows
<1>2. \A c \in Calls : PageHandles(c)
  BY <1>1 DEF PageHandles
<1>3. PageTypes' /\ ModalIsGood' /\ DialogIsGood'
  BY <1>1, TypesOf DEF PageTypes, ModalIsGood, DialogIsGood, Exists, page
<1> QED BY <1>1, <1>2, <1>3, PageStepKeeps

LEMMA UNextInv == ASSUME UInv, [UNext]_uvars PROVE UInv'
<1>1. CASE Browse
  BY <1>1, BrowseKeeps, ReloadKeeps
<1>2. CASE Others \/ Clock
  BY <1>2, OthersKeep, ClockKeeps
<1>3. ASSUME NEW c \in Calls,
             Click(c) \/ TimerExpires(c) \/ Serve(c) \/ Reply(c) \/ Unauthorised(c) \/ Lost(c)
      PROVE  UInv'
  <2>1. CASE Click(c) \/ TimerExpires(c)
    BY <2>1, ConfirmBookingKeeps, PostKeeps, ConfirmPaymentKeeps, LogoutKeeps DEF Click
  <2>2. CASE Reply(c)
    BY <2>2, ReplyKeeps, ChargedKeeps
  <2> QED BY <1>3, <2>1, <2>2, ServeKeeps, UnauthorisedKeeps, LostKeeps
<1>4. ASSUME NEW w \in Workers, Work(w) \/ RefuseIntent(w)
      PROVE  UInv'
  BY <1>4, WorkKeeps, RefuseIntentKeeps
<1> QED BY <1>1, <1>2, <1>3, <1>4, UStutter DEF UNext

LEMMA UInvariant == USpec => []UInv
<1>1. UInit => UInv
  BY UInitInv
<1>2. UInv /\ [UNext]_uvars => UInv'
  BY UNextInv
<1> QED BY <1>1, <1>2, PTL DEF USpec

(* Every environment, with calls lost and an impatient or a slow user:     *)
(* the page's calls, dialogs and terminal, and the rows, keep their types. *)
THEOREM ScreenTypes == USpec => []UTypeOK
<1>1. UInv => UTypeOK
  BY DEF UInv
<1> QED BY <1>1, UInvariant, PTL
-----------------------------------------------------------------------------
(* A user in time and patient, and no call lost.                           *)

(***************************************************************************)
(* There is one call at a time, except that the countdown reports failures *)
(* beside a failure.  A terminal that can be paid has a call under way, or *)
(* a booking that is pending and has no result yet; what a call has been   *)
(* answered is so of its booking.                                          *)
(***************************************************************************)
Quiet(b) == \A e \in sent : e.b # b
Pending(b) == booking[b].status = "pending"
InPay == modal # Closed /\ ~modal.confirmed /\ modal.secret # "none"
Under(c) == call[c] # Free

BookFits(k) ==
  k.op = "book" =>
    /\ modal = Closed /\ Quiet(k.b)
    /\ booking[k.b].status = IF k.at = "ok" THEN "pending" ELSE "absent"
ChargeFits(k) ==
  k.op = "charge" =>
    /\ k.outcome = "success" /\ InPay /\ modal.b = k.b /\ Quiet(k.b)
    /\ Pending(k.b) /\ now < Deadline(k.b)
SuccessFits(k) ==
  k.op = "pay" /\ k.outcome = "success" =>
    /\ InPay /\ modal.b = k.b /\ now < Deadline(k.b)
    /\ IF k.at # "ok" THEN Pending(k.b)
       ELSE IF k.part = "full" THEN Confirmed(k.b) ELSE booking[k.b].primaryPaid
FailureFits(k) ==
  k.op = "pay" /\ k.outcome = "failed" =>
    /\ modal = Closed \/ (InPay /\ modal.b = k.b)
    /\ k.part = "full" /\ (k.at = "ok" \/ modal = Closed) => ~Pending(k.b)
CallFits(k) ==
  /\ k.page /\ dialog = Closed
  /\ k.op = "logout" => modal = Closed
  /\ k.at = "refused" => k.op = "book"
  /\ BookFits(k) /\ ChargeFits(k) /\ SuccessFits(k) /\ FailureFits(k)
CallsFit == \A c \in Calls : Under(c) => CallFits(call[c])

Beside(k, l) ==
  /\ k.op = "pay" /\ k.outcome = "failed" /\ l.op = "pay" /\ l.outcome = "failed"
  /\ k.b = l.b
Alone == \A c, d \in Calls : Under(c) /\ Under(d) /\ c # d => Beside(call[c], call[d])

MineOnce == \A e, x \in sent : e.b \in Mine /\ e.b = x.b => e = x

ModalFits ==
  modal # Closed =>
    /\ dialog = Closed
    /\ modal.confirmed => Confirmed(modal.b)
    /\ ~modal.confirmed /\ modal.secret = "none" => modal.shares /\ booking[modal.b].primaryPaid
    /\ InPay => (\E c \in Calls : Under(c)) \/ (Quiet(modal.b) /\ Pending(modal.b))
DialogFits == dialog # Closed /\ dialog.at = "config" => ~Exists(dialog.b)

\* A booking that holds its slot has a way to be paid for, or was cancelled.
Payable(b) ==
  \/ modal # Closed /\ modal.b = b
  \/ \E c \in Calls : Under(c) /\ call[c].op = "book" /\ call[c].b = b
  \/ booking[b].primaryPaid
  \/ [b |-> b, part |-> "primary", outcome |-> "failed"] \in sent
HeldFits == \A b \in Mine : Pending(b) => Payable(b)

Fits == CallsFit /\ Alone /\ MineOnce /\ ModalFits /\ DialogFits /\ HeldFits
SmoothInv == UInv /\ (Smooth => Fits)

(* Such a step, and what the invariants say before it.                     *)
Calm == UInv /\ Fits /\ Smooth

LEMMA CalmClicks ==
  ASSUME Calm
  PROVE  /\ Clicks => \A c \in Calls : call[c] = Free
         /\ \A b \in Bookings : InTime(b) => now < Deadline(b)
         /\ \A b \in Bookings : ~Exists(b) => Quiet(b)
<1>1. ForeignKeys
  BY Bases DEF Calm, UInv
<1>2. \A b \in Bookings : ~Exists(b) => Quiet(b)
  BY <1>1 DEF ForeignKeys, Exists, Quiet
<1> QED BY <1>2 DEF Calm, Smooth, Clicks, InTime

LEMMA NoCallsFit ==
  ASSUME \A c \in Calls : call'[c] = Free PROVE CallsFit' /\ Alone'
BY DEF CallsFit, Alone, Under

LEMMA CalmBrowse ==
  ASSUME Calm, Browse, ~Reload
  PROVE  Fits'
<1>1. UNCHANGED <<svars, call, troubles, booking, sent, now>>
  BY DEF Browse, OpenBreakdown, InitiateBooking, ChooseSplit, ToggleMatchmaking, CloseDialog,
         CloseModal, Login, svars, vars, rows, gateway
<1>2. UInv /\ Fits
  BY DEF Calm
<1>3. MineOnce'
  BY <1>1, <1>2 DEF Fits, MineOnce
<1>4. ASSUME \A c \in Calls : call[c] = Free, UNCHANGED modal,
             dialog' # Closed => modal = Closed, DialogFits'
      PROVE  Fits'
  <2>1. CallsFit' /\ Alone'
    BY <1>1, <1>4, NoCallsFit
  <2>2. ModalFits'
    BY <1>1, <1>2, <1>4 DEF Fits, ModalFits, InPay, Quiet, Pending, Under, Confirmed
  <2>3. HeldFits'
    BY <1>1, <1>2, <1>4 DEF Fits, HeldFits, Payable, Pending, Under
  <2> QED BY <1>3, <1>4, <2>1, <2>2, <2>3 DEF Fits
<1>5. dialog # Closed => modal = Closed /\ \A c \in Calls : call[c] = Free
  BY <1>2 DEF Fits, ModalFits, CallsFit, CallFits, Under
<1>6. CASE \E s \in Slots : OpenBreakdown(s)
  BY <1>4, <1>6, CalmClicks, TopDialog, <1>2 DEF OpenBreakdown, DialogFits
<1>7. CASE \E b \in Mine, join \in BOOLEAN : InitiateBooking(b, join)
  <2>1. PICK b \in Mine, join \in BOOLEAN : InitiateBooking(b, join)
    BY <1>7
  <2>2. dialog # Closed
    BY <1>2, <2>1, TopDialog DEF InitiateBooking
  <2>3. DialogFits'
    BY <1>1, <2>1 DEF InitiateBooking, DialogFits, Exists
  <2>4. UNCHANGED modal
    BY <2>1 DEF InitiateBooking
  <2> QED BY <1>4, <1>5, <2>2, <2>3, <2>4
<1>8. CASE (\E on \in BOOLEAN : ChooseSplit(on)) \/ ToggleMatchmaking
  <2>1. dialog # Closed /\ dialog.at = "config" /\ dialog \in Dialog
    BY <1>2, <1>8, TopDialog DEF ChooseSplit, ToggleMatchmaking
  <2>2. dialog'.b = dialog.b /\ UNCHANGED modal
    BY <1>8, <2>1 DEF ChooseSplit, ToggleMatchmaking, Dialog
  <2>3. DialogFits'
    BY <1>1, <1>2, <2>1, <2>2 DEF Fits, DialogFits, Exists
  <2> QED BY <1>4, <1>5, <2>1, <2>2, <2>3
<1>9. CASE CloseDialog \/ Login
  <2>1. UNCHANGED modal /\ (dialog' = Closed \/ dialog' = dialog)
    BY <1>9 DEF CloseDialog, Login
  <2>2. CallsFit' /\ Alone' /\ ModalFits'
    BY <1>1, <1>2, <2>1
    DEF Fits, CallsFit, CallFits, BookFits, ChargeFits, SuccessFits, FailureFits, Alone, ModalFits,
        InPay, Quiet, Pending, Under, Confirmed, Deadline
  <2>3. DialogFits' /\ HeldFits'
    BY <1>1, <1>2, <2>1 DEF Fits, DialogFits, HeldFits, Payable, Pending, Under, Exists
  <2> QED BY <1>3, <2>2, <2>3 DEF Fits
<1>10. CASE CloseModal
  <2>1. modal' = Closed /\ UNCHANGED dialog /\ modal # Closed /\ ~InPay
    BY <1>2, <1>10, TopDialog DEF CloseModal, View, InPay
  <2>2. \A c \in Calls : call[c] = Free
    <3> SUFFICES ASSUME NEW c \in Calls, Under(c) PROVE FALSE
      BY DEF Under
    <3>1. CallFits(call[c]) /\ call[c] \in Call
      BY <1>2, TypesOf DEF Fits, CallsFit, Under
    <3> QED BY <2>1, <3>1, CallKinds
            DEF CallFits, BookFits, ChargeFits, SuccessFits, FailureFits
  <2>3. CallsFit' /\ Alone'
    BY <1>1, <2>2, NoCallsFit
  <2>4. modal.confirmed \/ booking[modal.b].primaryPaid
    BY <1>2, <2>1 DEF Fits, ModalFits, InPay
  <2>5. Pending(modal.b) => booking[modal.b].primaryPaid
    BY <1>2, <2>1, <2>4 DEF Fits, ModalFits, Confirmed, Pending
  <2>6. HeldFits'
    BY <1>1, <1>2, <2>1, <2>5 DEF Fits, HeldFits, Payable, Pending, Under
  <2>7. ModalFits' /\ DialogFits'
    BY <1>1, <1>2, <2>1 DEF Fits, ModalFits, DialogFits, Exists
  <2> QED BY <1>3, <2>3, <2>6, <2>7 DEF Fits
<1> QED BY <1>6, <1>7, <1>8, <1>9, <1>10 DEF Browse

LEMMA DeadlineType ==
  ASSUME TypeOK PROVE now \in Nat /\ \A b \in Bookings : Deadline(b) \in Nat
BY CheckoutAssumption DEF TypeOK, BookingRow, Deadline, HoldFor

LEMMA CalmFacts ==
  ASSUME Calm
  PROVE  /\ UInv /\ CallsFit /\ Alone /\ MineOnce /\ ModalFits /\ DialogFits /\ HeldFits
         /\ call \in [Calls -> Call \cup {Free}]
         /\ \A c \in Calls :
              Under(c) => call[c] \in Call /\ GoodCall(call[c]) /\ CallFits(call[c])
         /\ modal # Closed => modal \in Modal /\ modal.b \in Mine /\ modal.b \in Bookings
<1>1. UInv /\ Fits
  BY DEF Calm
<1>2. call \in [Calls -> Call \cup {Free}] /\ (modal # Closed => modal \in Modal)
  BY <1>1, TypesOf DEF PageTypes
<1>3. modal # Closed => modal.b \in Mine /\ modal.b \in Bookings
  BY <1>2, CheckoutScreenAssumption DEF Modal
<1>4. \A c \in Calls : Under(c) => call[c] \in Call /\ GoodCall(call[c]) /\ CallFits(call[c])
  BY <1>1, TypesOf DEF Fits, CallsFit, Under
<1> QED BY <1>1, <1>2, <1>3, <1>4 DEF Fits

Failing(k) == k.op = "pay" /\ k.outcome = "failed"

LEMMA SingleCall ==
  ASSUME Calm, NEW c \in Calls, Under(c), ~Failing(call[c])
  PROVE  \A d \in Calls : d # c => call[d] = Free
BY CalmFacts DEF Alone, Under, Beside, Failing

(* The calls after a step that changes the only one.                       *)
LEMMA SingleFits ==
  ASSUME Calm, NEW c \in Calls, \A d \in Calls : d # c => call[d] = Free,
         NEW x, call' = [call EXCEPT ![c] = x], x # Free => CallFits(x)'
  PROVE  /\ CallsFit' /\ Alone'
         /\ call'[c] = x /\ (x # Free => \E d \in Calls : Under(d)')
         /\ \A d \in Calls : d # c => call'[d] = Free
<1>1. call'[c] = x /\ \A d \in Calls : d # c => call'[d] = Free
  BY CalmFacts
<1>2. ASSUME NEW d \in Calls, Under(d)' PROVE CallFits(call[d])'
  <2>1. d = c /\ x # Free
    BY <1>1, <1>2 DEF Under
  <2> QED BY <1>1, <2>1 DEF CallFits, BookFits, ChargeFits, SuccessFits, FailureFits
<1>3. CallsFit'
  BY <1>2 DEF CallsFit
<1>4. Alone'
  BY <1>1 DEF Alone, Under
<1> QED BY <1>1, <1>3, <1>4 DEF Under

LEMMA CalmConfirmBooking ==
  ASSUME Calm, NEW c \in Calls, ConfirmBooking(c)
  PROVE  Fits'
<1>1. /\ \A d \in Calls : call[d] = Free
      /\ UInv /\ HeldFits /\ MineOnce /\ DialogFits
      /\ \A b \in Bookings : ~Exists(b) => Quiet(b)
  BY CalmClicks, CalmFacts DEF ConfirmBooking
<1>2. /\ dialog # Closed /\ dialog.at = "config" /\ dialog.b \in Mine /\ modal = Closed
  BY <1>1, TopDialog DEF ConfirmBooking
<1>3. dialog.b \in Bookings /\ ~Exists(dialog.b) /\ Quiet(dialog.b)
  BY <1>1, <1>2, CheckoutScreenAssumption DEF DialogFits
<1>4. PICK F \in SUBSET Friends :
        Send(c, [op |-> "book", b |-> dialog.b, slot |-> dialog.slot,
                 kind |-> KindOf(dialog), friends |-> F, at |-> "sent", page |-> TRUE])
  BY DEF ConfirmBooking
<1>5. PICK x : x = [op |-> "book", b |-> dialog.b, slot |-> dialog.slot,
                 kind |-> KindOf(dialog), friends |-> F, at |-> "sent", page |-> TRUE]
  OBVIOUS
<1>6. call' = [call EXCEPT ![c] = x] /\ x.op = "book" /\ x.b = dialog.b /\ x.at = "sent" /\ x.page
  BY <1>4, <1>5 DEF Send
<1>7. UNCHANGED <<modal, sent, booking, now>> /\ dialog' = Closed
  BY DEF ConfirmBooking, svars, vars, rows, gateway
<1>8. CallFits(x)'
  BY <1>2, <1>3, <1>6, <1>7
  DEF CallFits, BookFits, ChargeFits, SuccessFits, FailureFits, Exists, Quiet
<1>9. CallsFit' /\ Alone'
  BY <1>1, <1>6, <1>8, SingleFits
<1>10. MineOnce' /\ ModalFits' /\ DialogFits'
  BY <1>1, <1>2, <1>7 DEF MineOnce, ModalFits, DialogFits
<1>11. HeldFits'
  BY <1>1, <1>2, <1>7 DEF HeldFits, Payable, Pending, Under
<1> QED BY <1>9, <1>10, <1>11 DEF Fits

LEMMA PaysInPay ==
  ASSUME Calm, View = "pay"
  PROVE  InPay /\ dialog = Closed
<1>1. modal # Closed /\ ~modal.confirmed
  BY CalmFacts, TopDialog
<1>2. ~(modal.shares /\ modal.secret = "none")
  BY <1>1 DEF View
<1> QED BY <1>1, <1>2, CalmFacts DEF ModalFits, InPay

(* The page posts a result: the only call, or one more failure of the same *)
(* booking.                                                                *)
LEMMA CalmPost ==
  ASSUME Calm, NEW c \in Calls, NEW o \in {"success", "failed"}, View = "pay",
         Post(c, modal, o), UNCHANGED page,
         \A d \in Calls : Under(d) => Failing(call[d]) /\ call[d].b = modal.b,
         o = "success" => now < Deadline(modal.b) /\ \A d \in Calls : call[d] = Free
  PROVE  Fits'
<1>0. UInv /\ InPay /\ dialog = Closed /\ modal # Closed /\ modal.b \in Mine
  BY PaysInPay, CalmFacts DEF InPay
<1>1. PICK x : x = Payment("pay", modal, o)
  OBVIOUS
<1>2. /\ call[c] = Free /\ call' = [call EXCEPT ![c] = x]
      /\ sent' = sent \cup {ResultOf(x)}
      /\ x \in Call /\ x.op = "pay" /\ x.at = "sent" /\ x.b = modal.b /\ x.page
      /\ x.outcome = o /\ x.part \in {"full", "primary"}
      /\ Exists(x.b) /\ (x.part = "primary" <=> booking[x.b].kind = "split")
      /\ UNCHANGED <<now, rows, acked, events, task, reminding, seen, link, copies, refunded>>
  BY <1>0, <1>1, PostFacts, CallKinds
<1>3. /\ ResultOf(x).b = x.b /\ ResultOf(x).part = x.part /\ ResultOf(x).outcome = x.outcome
  BY <1>2, CallFacts
<1>4. UNCHANGED <<now, booking, dialog, modal>>
  BY <1>2 DEF rows, page
<1>5. call'[c] = x /\ \A d \in Calls : d # c => call'[d] = call[d]
  BY <1>2, CalmFacts
<1>6. (\A d \in Calls : call[d] = Free) => Quiet(modal.b) /\ Pending(modal.b)
  BY <1>0, CalmFacts DEF ModalFits, Under
<1>7. \A e \in sent : e.b = x.b => e = ResultOf(x)
  <2>1. CASE \A d \in Calls : call[d] = Free
    BY <1>2, <1>6, <2>1 DEF Quiet
  <2>2. ASSUME NEW d \in Calls, Under(d) PROVE \A e \in sent : e.b = x.b => e = ResultOf(x)
    <3>1. /\ call[d] \in Call /\ GoodCall(call[d]) /\ call[d].op = "pay"
          /\ call[d].outcome = "failed" /\ call[d].b = x.b /\ o = "failed"
      BY <1>2, <2>2, CalmFacts DEF Failing, Under
    <3>2. call[d].part \in {"full", "primary"} /\ ResultOf(call[d]) \in sent
      BY <3>1, CallKinds DEF GoodCall
    <3>3. call[d].part = x.part
      BY <1>2, <3>1, <3>2 DEF GoodCall
    <3>4. ResultOf(call[d]) = ResultOf(x)
      BY <1>2, <3>1, <3>3 DEF ResultOf
    <3>5. ResultOf(x).b \in Mine
      BY <1>0, <1>2, <1>3
    <3> QED BY <1>3, <3>2, <3>4, <3>5, CalmFacts DEF MineOnce
  <2> QED BY <2>1, <2>2 DEF Under
<1>8. MineOnce'
  BY <1>2, <1>3, <1>7, CalmFacts DEF MineOnce
<1>9. ASSUME NEW d \in Calls, Under(d)' PROVE d = c \/ (CallFits(call[d])' /\ Failing(call[d])')
  <2>1. CASE d # c
    <3>1. PICK z : z = call[d]
      OBVIOUS
    <3>2. call'[d] = z /\ CallFits(z) /\ Failing(z) /\ z.b = modal.b /\ z \in Call
      BY <1>5, <1>9, <2>1, <3>1, CalmFacts DEF Under
    <3>3. CallFits(z)'
      BY <1>4, <3>2
      DEF CallFits, Failing, BookFits, ChargeFits, SuccessFits, FailureFits, InPay, Pending
    <3> QED BY <3>2, <3>3 DEF CallFits, Failing, BookFits, ChargeFits, SuccessFits, FailureFits
  <2> QED BY <2>1
<1>10. CallFits(x)'
  <2>1. o = "success" => Pending(x.b)' /\ now' < Deadline(x.b)'
    BY <1>2, <1>4, <1>6 DEF Pending, Deadline
  <2> QED BY <1>0, <1>2, <1>4, <2>1
          DEF CallFits, BookFits, ChargeFits, SuccessFits, FailureFits, InPay
<1>11. CallsFit'
  <2> SUFFICES ASSUME NEW d \in Calls, Under(d)' PROVE CallFits(call[d])'
    BY DEF CallsFit
  <2>1. CASE d = c
    BY <1>5, <1>10, <2>1 DEF CallFits, BookFits, ChargeFits, SuccessFits, FailureFits
  <2> QED BY <1>9, <2>1
<1>12. Alone'
  <2> SUFFICES ASSUME NEW d \in Calls, NEW f \in Calls, Under(d)', Under(f)', d # f
               PROVE  Beside(call[d], call[f])'
    BY DEF Alone
  <2>1. Under(d) \/ Under(f)
    BY <1>5 DEF Under
  <2>2. o = "failed"
    BY <2>1 DEF Under
  <2>3. ASSUME NEW g \in {d, f}
        PROVE  call'[g].op = "pay" /\ call'[g].outcome = "failed" /\ call'[g].b = modal.b
    <3>1. CASE g = c
      BY <1>2, <1>5, <2>2, <3>1
    <3>2. CASE g # c
      BY <1>5, <3>2 DEF Under, Failing
    <3> QED BY <3>1, <3>2
  <2> QED BY <2>3 DEF Beside
<1>13. ModalFits' /\ DialogFits'
  <2>1. Under(c)'
    BY <1>2, <1>5, SentAt DEF Under
  <2> QED BY <1>0, <1>4, <2>1, CalmFacts DEF ModalFits, DialogFits, InPay, Confirmed, Exists
<1>14. HeldFits'
  <2>1. \A d \in Calls : Under(d) => call'[d] = call[d]
    BY <1>2, <1>5 DEF Under
  <2> QED BY <1>2, <1>4, <2>1, CalmFacts DEF HeldFits, Payable, Pending, Under
<1> QED BY <1>8, <1>11, <1>12, <1>13, <1>14 DEF Fits

LEMMA CalmPays ==
  ASSUME Calm, NEW c \in Calls, MockPay(c) \/ CancelPayment(c) \/ TimerExpires(c)
  PROVE  Fits'
<1>1. View = "pay" /\ UNCHANGED page
  BY DEF MockPay, CancelPayment, TimerExpires
<1>2. InPay /\ modal.b \in Bookings
  BY <1>1, PaysInPay, CalmFacts DEF InPay
<1>3. CASE MockPay(c) \/ CancelPayment(c)
  <2>1. (\A d \in Calls : call[d] = Free) /\ now < Deadline(modal.b)
    BY <1>2, <1>3, CalmClicks DEF MockPay, CancelPayment
  <2>2. \E o \in {"success", "failed"} : Post(c, modal, o)
    BY <1>3 DEF MockPay, CancelPayment
  <2> QED BY <1>1, <2>1, <2>2, CalmPost DEF Under
<1>4. CASE TimerExpires(c)
  <2>1. Post(c, modal, "failed") /\ now >= Deadline(modal.b)
    BY <1>4 DEF TimerExpires, TimeIsUp
  <2>2. ASSUME NEW d \in Calls, Under(d) PROVE Failing(call[d]) /\ call[d].b = modal.b
    <3>1. CallFits(call[d]) /\ call[d] \in Call
      BY <2>2, CalmFacts
    <3>2. now \in Nat /\ Deadline(modal.b) \in Nat
      BY <1>2, Bases, CalmFacts, DeadlineType DEF UInv
    <3>3. ~(now < Deadline(modal.b))
      BY <2>1, <3>2
    <3>4. call[d].op \in {"book", "pay", "charge", "logout"}
          /\ (call[d].op = "pay" => call[d].outcome \in {"success", "failed"})
      BY <3>1, CallKinds
    <3>5. InPay => modal # Closed
      BY DEF InPay
    <3> QED BY <1>2, <3>1, <3>3, <3>4, <3>5
            DEF CallFits, BookFits, ChargeFits, SuccessFits, FailureFits, Failing
  <2> QED BY <1>1, <2>1, <2>2, CalmPost
<1> QED BY <1>3, <1>4

LEMMA CalmConfirmPayment ==
  ASSUME Calm, NEW c \in Calls, ConfirmPayment(c)
  PROVE  Fits'
<1>1. /\ View = "pay" /\ \A d \in Calls : call[d] = Free
      /\ UNCHANGED <<svars, logged, dialog, processing, troubles>>
      /\ UNCHANGED <<sent, booking, now>>
  BY CalmClicks DEF ConfirmPayment, svars, vars, rows, gateway
<1>2. /\ InPay /\ dialog = Closed /\ modal # Closed /\ modal \in Modal
      /\ modal.b \in Mine /\ modal.b \in Bookings
  BY <1>1, PaysInPay, CalmFacts DEF InPay
<1>3. now < Deadline(modal.b) /\ Quiet(modal.b) /\ Pending(modal.b)
  BY <1>1, <1>2, CalmClicks, CalmFacts DEF ConfirmPayment, ModalFits, Under
<1>4. PICK x : x = Payment("charge", modal, "success")
  OBVIOUS
<1>5. /\ x.op = "charge" /\ x.at = "sent" /\ x.b = modal.b /\ x.page /\ x.outcome = "success"
      /\ x \in Call
  BY <1>2, <1>4, CalmFacts, PaymentIsCall
<1>6. call' = [call EXCEPT ![c] = x]
  BY <1>4 DEF ConfirmPayment, Send
<1>7. /\ modal' # Closed /\ modal'.b = modal.b /\ modal'.confirmed = modal.confirmed
      /\ modal'.secret = modal.secret /\ modal'.shares = modal.shares
  BY <1>2 DEF ConfirmPayment, Modal, Closed
<1>8. CallFits(x)'
  BY <1>1, <1>2, <1>3, <1>5, <1>7
  DEF CallFits, BookFits, ChargeFits, SuccessFits, FailureFits, InPay, Quiet, Pending, Deadline
<1>9. CallsFit' /\ Alone' /\ \E d \in Calls : Under(d)'
  BY <1>1, <1>5, <1>6, <1>8, SentAt, SingleFits
<1>10. MineOnce' /\ DialogFits'
  BY <1>1, CalmFacts DEF MineOnce, DialogFits, Exists
<1>11. ModalFits'
  BY <1>1, <1>2, <1>7, <1>9 DEF ModalFits, InPay, Under
<1>12. HeldFits'
  BY <1>1, <1>2, <1>7, CalmFacts DEF HeldFits, Payable, Pending, Under
<1> QED BY <1>9, <1>10, <1>11, <1>12 DEF Fits

LEMMA CalmLogout ==
  ASSUME Calm, NEW c \in Calls, Logout(c)
  PROVE  Fits'
<1>1. /\ \A d \in Calls : call[d] = Free
      /\ UNCHANGED <<sent, booking, now, modal, dialog>>
  BY CalmClicks DEF Logout, page, svars, vars, rows, gateway
<1>2. dialog = Closed /\ modal = Closed
  BY CalmFacts, TopDialog DEF Logout
<1>3. PICK x : x = [op |-> "logout", at |-> "sent", page |-> TRUE]
  OBVIOUS
<1>4. x.op = "logout" /\ x.at = "sent" /\ x.page /\ call' = [call EXCEPT ![c] = x]
  BY <1>3 DEF Logout, Send
<1>5. CallFits(x)'
  BY <1>1, <1>2, <1>4 DEF CallFits, BookFits, ChargeFits, SuccessFits, FailureFits
<1>6. CallsFit' /\ Alone'
  BY <1>1, <1>4, <1>5, SingleFits
<1>7. MineOnce' /\ ModalFits' /\ DialogFits'
  BY <1>1, <1>2, CalmFacts DEF MineOnce, ModalFits, DialogFits
<1>8. HeldFits'
  BY <1>1, <1>2, CalmFacts DEF HeldFits, Payable, Pending, Under
<1> QED BY <1>6, <1>7, <1>8 DEF Fits

LEMMA CalmCharged ==
  ASSUME Calm, NEW c \in Calls, Charged(c)
  PROVE  Fits'
<1>1. PICK x : x = [call[c] EXCEPT !.op = "pay"]
  OBVIOUS
<1>2. /\ call[c] # Free /\ call[c].op = "charge" /\ call[c].at = "sent"
      /\ call' = [call EXCEPT ![c] = x]
      /\ sent' = sent \cup {ResultOf(x)}
      /\ x \in Call /\ x.op = "pay" /\ x.at = "sent" /\ x.b = call[c].b
      /\ x.page = call[c].page /\ x.outcome = call[c].outcome /\ x.part = call[c].part
      /\ UNCHANGED <<now, rows>> /\ UNCHANGED <<page, troubles>>
  BY <1>1, CalmFacts, ChargedFacts
<1>3. UNCHANGED <<now, booking, dialog, modal>>
  BY <1>2 DEF rows, page
<1>4. CallFits(call[c]) /\ \A d \in Calls : d # c => call[d] = Free
  BY <1>2, CalmFacts, SingleCall DEF Under, Failing
<1>5. /\ x.page /\ dialog = Closed /\ x.outcome = "success" /\ InPay /\ modal.b = x.b
      /\ Quiet(x.b) /\ Pending(x.b) /\ now < Deadline(x.b)
  BY <1>2, <1>4 DEF CallFits, ChargeFits
<1>6. CallFits(x)'
  BY <1>2, <1>3, <1>5
  DEF CallFits, BookFits, ChargeFits, SuccessFits, FailureFits, InPay, Pending, Deadline
<1>7. CallsFit' /\ Alone' /\ \E d \in Calls : Under(d)'
  BY <1>2, <1>4, <1>6, SentAt, SingleFits
<1>8. ResultOf(x).b = x.b
  BY <1>2, CallFacts
<1>9. MineOnce'
  BY <1>2, <1>5, <1>8, CalmFacts DEF MineOnce, Quiet
<1>10. ModalFits' /\ DialogFits'
  BY <1>3, <1>5, <1>7 DEF ModalFits, DialogFits, InPay, Under
<1>11. HeldFits'
  BY <1>2, <1>3, <1>4, CalmFacts DEF HeldFits, Payable, Pending, Under
<1> QED BY <1>7, <1>9, <1>10, <1>11 DEF Fits

(* A call goes one step further, and nothing the others rest on changes.   *)
Moves(k, x) ==
  /\ x \in Call /\ x.op = k.op
  /\ k.op \in {"book", "pay", "charge"} => x.b = k.b
  /\ k.op \in {"pay", "charge"} => x.outcome = k.outcome

LEMMA CallMoves ==
  ASSUME Calm, NEW c \in Calls, Under(c), NEW x, Moves(call[c], x),
         call' = [call EXCEPT ![c] = x],
         CallFits(x)', \A d \in Calls : d # c /\ Under(d) => CallFits(call[d])'
  PROVE  CallsFit' /\ Alone' /\ Under(c)' /\ \A d \in Calls : Under(d) <=> Under(d)'
<1>1. call'[c] = x /\ \A d \in Calls : d # c => call'[d] = call[d]
  BY CalmFacts
<1>2. x # Free
  BY SentAt DEF Moves
<1>3. CallsFit'
  <2> SUFFICES ASSUME NEW d \in Calls, Under(d)' PROVE CallFits(call[d])'
    BY DEF CallsFit
  <2>1. CASE d = c
    BY <1>1, <2>1 DEF CallFits, BookFits, ChargeFits, SuccessFits, FailureFits
  <2>2. CASE d # c
    BY <1>1, <2>2 DEF Under
  <2> QED BY <2>1, <2>2
<1>4. \A d \in Calls : Under(d) <=> Under(d)'
  BY <1>1, <1>2 DEF Under
<1>5. \A d \in Calls : Under(d) =>
        /\ call'[d].op = call[d].op
        /\ call[d].op = "pay" => call'[d].outcome = call[d].outcome /\ call'[d].b = call[d].b
  BY <1>1 DEF Moves
<1>6. Alone'
  <2> SUFFICES ASSUME NEW d \in Calls, NEW f \in Calls, Under(d)', Under(f)', d # f
               PROVE  Beside(call[d], call[f])'
    BY DEF Alone
  <2>1. Under(d) /\ Under(f) /\ Beside(call[d], call[f])
    BY <1>4, CalmFacts DEF Alone
  <2> QED BY <1>5, <2>1 DEF Beside
<1> QED BY <1>3, <1>4, <1>6

LEMMA CalmServe ==
  ASSUME Calm, NEW c \in Calls, Serve(c)
  PROVE  Fits'
<1>1. /\ Under(c) /\ call[c] \in Call /\ call[c].at = "sent" /\ call[c].op \in {"book", "pay"}
      /\ UNCHANGED <<dialog, modal>> /\ CallFits(call[c])
  BY CalmFacts, ServeFacts DEF page, Under
<1>2. \/ \E w \in Workers :
           /\ call' = [call EXCEPT ![c] = [call[c] EXCEPT !.at = w]]
           /\ UNCHANGED <<now, booking, sent>>
      \/ /\ call[c].op = "book" /\ UNCHANGED <<now, booking, sent>>
         /\ call' = [call EXCEPT ![c] = Answer(call[c], "refused")]
  BY CalmFacts, ServeFacts DEF svars, vars, rows, gateway
<1>3. PICK a \in Workers \cup {"refused"} :
        /\ call' = [call EXCEPT ![c] = [call[c] EXCEPT !.at = a]]
        /\ a = "refused" => call[c].op = "book"
        /\ UNCHANGED <<now, booking, sent>>
  <2>1. CASE call[c].op = "book" /\ UNCHANGED <<now, booking, sent>>
             /\ call' = [call EXCEPT ![c] = Answer(call[c], "refused")]
    <3>1. Answer(call[c], "refused") = [call[c] EXCEPT !.at = "refused"]
      BY <1>1 DEF Answer, CallFits
    <3> QED BY <2>1, <3>1
  <2> QED BY <1>2, <2>1, SentAt
<1>4. PICK x : x = [call[c] EXCEPT !.at = a]
  OBVIOUS
<1>5. /\ x \in Call /\ x.at = a /\ x.op = call[c].op /\ x.b = call[c].b
      /\ call[c].op = "pay" => x.part = call[c].part /\ x.outcome = call[c].outcome
      /\ a # "ok" /\ a # "sent"
  BY <1>1, <1>4, CallFacts, SentAt DEF Ats
<1>6. x.page
  BY <1>1, <1>4 DEF CallFits, Call
<1>7. CallFits(x)'
  BY <1>1, <1>3, <1>5, <1>6
  DEF CallFits, BookFits, ChargeFits, SuccessFits, FailureFits, InPay, Quiet, Pending, Deadline
<1>8. \A d \in Calls : d # c /\ Under(d) => CallFits(call[d])'
  <2> SUFFICES ASSUME NEW d \in Calls, d # c, Under(d) PROVE CallFits(call[d])'
    OBVIOUS
  <2>1. call'[d] = call[d] /\ CallFits(call[d])
    BY <1>3, CalmFacts
  <2> QED BY <1>1, <1>3, <2>1
          DEF CallFits, BookFits, ChargeFits, SuccessFits, FailureFits, InPay, Quiet, Pending,
              Deadline, Confirmed
<1>9. call' = [call EXCEPT ![c] = x] /\ Moves(call[c], x)
  BY <1>1, <1>3, <1>4, <1>5 DEF Moves
<1>10. CallsFit' /\ Alone' /\ Under(c)' /\ \A d \in Calls : Under(d) <=> Under(d)'
  BY <1>1, <1>7, <1>8, <1>9, CallMoves
<1>11. MineOnce' /\ DialogFits' /\ ModalFits'
  BY <1>1, <1>3, <1>10, CalmFacts
  DEF MineOnce, DialogFits, ModalFits, Exists, InPay, Quiet, Pending, Confirmed
<1>12. \A d \in Calls : /\ call'[d].op = call[d].op
                        /\ Under(d) /\ call[d].op = "book" => call'[d].b = call[d].b
  BY <1>5, <1>9, CalmFacts
<1>13. HeldFits'
  BY <1>1, <1>3, <1>10, <1>12, CalmFacts DEF HeldFits, Payable, Pending
<1> QED BY <1>10, <1>11, <1>13 DEF Fits

(* The answers.  All but a failure end the only call.                      *)
LEMMA LastCall ==
  ASSUME Calm, NEW c \in Calls, Under(c), ~Failing(call[c]), call' = [call EXCEPT ![c] = Free],
         UNCHANGED <<sent, booking, now>>, dialog' = Closed, ModalFits',
         \A b \in Mine : Pending(b) /\ Payable(b) => Payable(b)'
  PROVE  Fits'
<1>1. \A d \in Calls : d # c => call[d] = Free
  BY SingleCall
<1>2. CallsFit' /\ Alone'
  BY <1>1, SingleFits
<1>3. MineOnce' /\ DialogFits' /\ HeldFits'
  BY CalmFacts DEF MineOnce, DialogFits, HeldFits, Pending
<1> QED BY <1>2, <1>3 DEF Fits

LEMMA CalmBooked ==
  ASSUME Calm, NEW c \in Calls, Booked(c) \/ NotBooked(c)
  PROVE  Fits'
<1>1. /\ Under(c) /\ call[c].op = "book" /\ call' = [call EXCEPT ![c] = Free]
      /\ UNCHANGED <<sent, booking, now, dialog>>
  BY DEF Booked, NotBooked, Under, Free, svars, vars, rows, gateway
<1>2. /\ CallFits(call[c]) /\ call[c] \in Call
  BY <1>1, CalmFacts
<1>3. /\ dialog = Closed /\ modal = Closed /\ Quiet(call[c].b)
      /\ call[c].at = "ok" => Pending(call[c].b)
      /\ call[c].at = "refused" => ~Pending(call[c].b)
  BY <1>1, <1>2 DEF CallFits, BookFits, Pending
<1>4. \A d \in Calls : d # c => call[d] = Free
  BY <1>1, SingleCall DEF Failing
<1>5. CASE Booked(c)
  <2>1. PICK t \in Terminals :
          modal' = [b |-> call[c].b, shares |-> call[c].friends # {}, secret |-> t,
                    confirmed |-> FALSE, busy |-> FALSE]
    BY <1>5 DEF Booked
  <2>2. modal' # Closed /\ modal'.b = call[c].b /\ ~modal'.confirmed /\ modal'.secret # "none"
    BY <2>1, CheckoutScreenAssumption DEF Closed
  <2>3. ModalFits'
    BY <1>1, <1>3, <1>5, <2>2 DEF Booked, ModalFits, Quiet, Pending
  <2>4. \A b \in Mine : Pending(b) /\ Payable(b) => Payable(b)'
    BY <1>1, <1>3, <1>4, <2>2 DEF Payable, Under
  <2> QED BY <1>1, <1>3, <2>3, <2>4, LastCall DEF Failing
<1>6. CASE NotBooked(c)
  <2>1. modal' = Closed /\ call[c].at = "refused"
    BY <1>3, <1>6 DEF NotBooked
  <2>2. ModalFits'
    BY <2>1 DEF ModalFits
  <2>3. \A b \in Mine : Pending(b) /\ Payable(b) => Payable(b)'
    BY <1>1, <1>3, <1>4, <2>1 DEF Payable, Under
  <2> QED BY <1>1, <1>3, <2>2, <2>3, LastCall DEF Failing
<1> QED BY <1>5, <1>6

LEMMA CalmPosted ==
  ASSUME Calm, NEW c \in Calls, SharePosted(c) \/ PaymentPosted(c)
  PROVE  Fits'
<1>1. /\ Under(c) /\ call[c].op = "pay" /\ call[c].outcome = "success"
      /\ call' = [call EXCEPT ![c] = Free] /\ call[c].at \in {"ok", "refused"}
      /\ UNCHANGED <<sent, booking, now, dialog>>
  BY SentAt DEF SharePosted, PaymentPosted, Under, Free, svars, vars, rows, gateway
<1>2. CallFits(call[c]) /\ call[c] \in Call
  BY <1>1, CalmFacts
<1>3. /\ dialog = Closed /\ InPay /\ modal.b = call[c].b /\ call[c].at = "ok"
      /\ IF call[c].part = "full" THEN Confirmed(call[c].b) ELSE booking[call[c].b].primaryPaid
  BY <1>1, <1>2 DEF CallFits, SuccessFits
<1>4. modal # Closed /\ modal \in Modal
  BY <1>3, CalmFacts DEF InPay
<1>5. /\ modal' # Closed /\ modal'.b = modal.b /\ modal'.secret = "none"
      /\ IF call[c].part = "full" THEN modal'.confirmed ELSE modal'.shares /\ ~modal'.confirmed
  <2>1. CASE SharePosted(c)
    BY <1>3, <2>1 DEF SharePosted, Closed
  <2>2. CASE PaymentPosted(c)
    BY <1>3, <1>4, <2>2 DEF PaymentPosted, Closed, Modal
  <2> QED BY <2>1, <2>2
<1>6. ModalFits'
  BY <1>1, <1>3, <1>5 DEF ModalFits, InPay, Confirmed
<1>7. \A b \in Mine : Pending(b) /\ Payable(b) => Payable(b)'
  <2>1. \A d \in Calls : d # c => call[d] = Free
    BY <1>1, SingleCall DEF Failing
  <2> QED BY <1>1, <1>5, <2>1 DEF Payable, Under
<1> QED BY <1>1, <1>3, <1>6, <1>7, LastCall DEF Failing

LEMMA CalmFailurePosted ==
  ASSUME Calm, NEW c \in Calls, FailurePosted(c)
  PROVE  Fits'
<1>1. /\ Under(c) /\ call[c].op = "pay" /\ call[c].outcome = "failed"
      /\ call' = [call EXCEPT ![c] = Free] /\ call[c].at \in {"ok", "refused"}
      /\ UNCHANGED <<sent, booking, now, dialog>> /\ modal' = Closed
  BY SentAt DEF FailurePosted, Under, Free, svars, vars, rows, gateway
<1>2. CallFits(call[c]) /\ call[c] \in Call /\ GoodCall(call[c])
  BY <1>1, CalmFacts
<1>3. /\ dialog = Closed /\ call[c].at = "ok"
      /\ modal = Closed \/ modal.b = call[c].b
      /\ call[c].part = "full" => ~Pending(call[c].b)
  BY <1>1, <1>2 DEF CallFits, FailureFits
<1>4. call'[c] = Free /\ \A d \in Calls : d # c => call'[d] = call[d]
  BY <1>1, CalmFacts
<1>5. ASSUME NEW d \in Calls, Under(d)' PROVE CallFits(call[d])' /\ Under(d) /\ d # c
  <2>1. d # c /\ call'[d] = call[d] /\ Under(d)
    BY <1>4, <1>5 DEF Under
  <2>2. Beside(call[c], call[d])
    BY <1>1, <2>1, CalmFacts DEF Alone
  <2>3. CallFits(call[d]) /\ GoodCall(call[d])
    BY <2>1, CalmFacts
  <2>4. call[d].part = "full" /\ call[d].part # "primary" =>
          call[c].part # "primary"
    BY <1>1, <1>2, <2>2, <2>3 DEF GoodCall, Beside
  <2>5. call[c].part \in {"full", "primary"}
    BY <1>1, <1>2, CallKinds
  <2>6. call[d].part = "full" => ~Pending(call[d].b)
    BY <1>3, <2>2, <2>4, <2>5 DEF Beside
  <2>7. CallFits(call[d])'
    BY <1>1, <2>1, <2>2, <2>3, <2>6
    DEF CallFits, BookFits, ChargeFits, SuccessFits, FailureFits, Beside, Pending
  <2> QED BY <2>1, <2>7
<1>6. CallsFit' /\ Alone'
  <2>1. CallsFit'
    BY <1>5 DEF CallsFit
  <2>2. Alone'
    <3> SUFFICES ASSUME NEW d \in Calls, NEW f \in Calls, Under(d)', Under(f)', d # f
                 PROVE  Beside(call[d], call[f])'
      BY DEF Alone
    <3>1. Beside(call[d], call[f])
      BY <1>5, CalmFacts DEF Alone
    <3> QED BY <1>4, <1>5, <3>1 DEF Beside
  <2> QED BY <2>1, <2>2
<1>7. MineOnce' /\ ModalFits' /\ DialogFits'
  BY <1>1, <1>3, CalmFacts DEF MineOnce, ModalFits, DialogFits
<1>8. HeldFits'
  <2> SUFFICES ASSUME NEW b \in Mine, Pending(b), Payable(b) PROVE Payable(b)'
    BY <1>1, CalmFacts DEF HeldFits, Pending
  <2>1. CASE modal # Closed /\ modal.b = b
    <3>1. call[c].part = "primary"
      BY <1>1, <1>2, <1>3, <2>1, CallKinds
    <3>2. ResultOf(call[c]) = [b |-> b, part |-> "primary", outcome |-> "failed"]
      BY <1>1, <1>3, <2>1, <3>1 DEF ResultOf
    <3> QED BY <1>1, <1>2, <3>2 DEF GoodCall, Payable
  <2>2. CASE \E d \in Calls : Under(d) /\ call[d].op = "book" /\ call[d].b = b
    BY <1>1, <1>4, <2>2 DEF Payable, Under
  <2> QED BY <1>1, <2>1, <2>2 DEF Payable
<1> QED BY <1>6, <1>7, <1>8 DEF Fits

LEMMA CalmLoggedOut ==
  ASSUME Calm, NEW c \in Calls, LoggedOut(c)
  PROVE  Fits'
<1>1. /\ Under(c) /\ call[c].op = "logout" /\ call' = [call EXCEPT ![c] = Free]
      /\ UNCHANGED <<sent, booking, now>> /\ LogOut
  BY DEF LoggedOut, Under, svars, vars, rows, gateway
<1>2. modal = Closed /\ dialog = Closed
  BY <1>1, CalmFacts DEF CallFits
<1>3. modal' = Closed /\ dialog' = Closed
  BY <1>1, <1>2 DEF LogOut
<1>4. ModalFits'
  BY <1>3 DEF ModalFits
<1>5. \A b \in Mine : Pending(b) /\ Payable(b) => Payable(b)'
  <2>1. \A d \in Calls : d # c => call[d] = Free
    BY <1>1, SingleCall DEF Failing
  <2> QED BY <1>1, <1>2, <2>1 DEF Payable, Under
<1> QED BY <1>1, <1>3, <1>4, <1>5, LastCall DEF Failing

LEMMA CalmDeclined ==
  ASSUME Calm, NEW c \in Calls, Declined(c)
  PROVE  Fits'
<1>1. /\ Under(c) /\ call[c].op = "charge" /\ call' = [call EXCEPT ![c] = Free]
      /\ UNCHANGED <<sent, booking, now, dialog>>
  BY DEF Declined, Under, svars, vars, rows, gateway
<1>2. /\ dialog = Closed /\ InPay /\ modal.b = call[c].b /\ Quiet(modal.b) /\ Pending(modal.b)
  BY <1>1, CalmFacts DEF CallFits, ChargeFits
<1>3. modal # Closed /\ modal \in Modal
  BY <1>2, CalmFacts DEF InPay
<1>4. /\ modal' # Closed /\ modal'.b = modal.b /\ modal'.secret = modal.secret
      /\ modal'.confirmed = modal.confirmed
  BY <1>2, <1>3 DEF Declined, Modal, Closed
<1>5. ModalFits'
  BY <1>1, <1>2, <1>4 DEF ModalFits, InPay, Quiet, Pending
<1>6. \A b \in Mine : Pending(b) /\ Payable(b) => Payable(b)'
  <2>1. \A d \in Calls : d # c => call[d] = Free
    BY <1>1, SingleCall DEF Failing
  <2> QED BY <1>1, <1>4, <2>1 DEF Payable, Under
<1> QED BY <1>1, <1>2, <1>5, <1>6, LastCall DEF Failing

(* Steps the page does not notice.                                         *)
LEMMA CalmQuiet ==
  ASSUME Calm, UNCHANGED <<dialog, modal>>, \A c \in Calls : call'[c] = call[c],
         \A b \in Mine : booking'[b] = booking[b],
         sent \subseteq sent', \A e \in sent' \ sent : e.b \notin Mine,
         \A c \in Calls :
           /\ Under(c) /\ call[c].op \in {"charge", "pay"} /\ call[c].outcome = "success"
           /\ now < Deadline(call[c].b)
           => now' < Deadline(call[c].b)
  PROVE  Fits'
<1>1. \A b \in Mine : Quiet(b) => Quiet(b)'
  BY DEF Quiet
<1>2. ASSUME NEW c \in Calls, Under(c)' PROVE CallFits(call[c])'
  <2>1. PICK k : k = call[c]
    OBVIOUS
  <2>2. /\ k = call'[c] /\ k \in Call /\ CallFits(k) /\ Under(c)
        /\ k.op # "logout" => k.b \in Mine
    BY <1>2, <2>1, CalmFacts, CallKinds DEF Under
  <2>3. k.op \in {"charge", "pay"} /\ k.outcome = "success" =>
          (now < Deadline(k.b) => now' < Deadline(k.b))
    BY <2>1, <2>2
  <2>4. BookFits(k)'
    BY <1>1, <2>2 DEF CallFits, BookFits
  <2>5. ChargeFits(k)'
    BY <1>1, <2>2, <2>3 DEF CallFits, ChargeFits, InPay, Pending, Deadline
  <2>6. SuccessFits(k)'
    BY <2>2, <2>3 DEF CallFits, SuccessFits, InPay, Pending, Deadline, Confirmed
  <2>7. FailureFits(k)'
    BY <2>2 DEF CallFits, FailureFits, InPay, Pending
  <2>8. CallFits(k)'
    BY <2>2, <2>4, <2>5, <2>6, <2>7 DEF CallFits
  <2> QED BY <2>2, <2>8 DEF CallFits, BookFits, ChargeFits, SuccessFits, FailureFits
<1>3. CallsFit'
  BY <1>2 DEF CallsFit
<1>4. Alone'
  BY CalmFacts DEF Alone, Under, Beside
<1>5. MineOnce'
  BY CalmFacts DEF MineOnce
<1>6. ModalFits'
  <2>1. (\E c \in Calls : Under(c)) <=> (\E c \in Calls : Under(c)')
    BY DEF Under
  <2> QED BY <1>1, <2>1, CalmFacts DEF ModalFits, InPay, Pending, Confirmed
<1>7. DialogFits'
  <2>1. dialog # Closed /\ dialog.at = "config" => dialog.b \in Mine
    BY CalmFacts, TypesOf DEF PageTypes, Dialog, Closed
  <2> QED BY <2>1, CalmFacts DEF DialogFits, Exists
<1>8. HeldFits'
  BY CalmFacts DEF HeldFits, Payable, Pending, Under
<1> QED BY <1>3, <1>4, <1>5, <1>6, <1>7, <1>8 DEF Fits

LEMMA CalmOthers ==
  ASSUME Calm, Others
  PROVE  Fits'
<1>1. UInv
  BY CalmFacts
<1>2. UNCHANGED <<call, page, troubles>> /\ UNCHANGED <<now, booking>>
  BY <1>1, OthersCases
<1>3. UNCHANGED <<dialog, modal>>
  BY <1>2 DEF page
<1>4. CASE UNCHANGED sent
  BY <1>2, <1>3, <1>4, CalmQuiet
<1>5. ASSUME NEW b \in Bookings \ Mine, NEW o,
             sent' = sent \cup {[b |-> b, part |-> "full", outcome |-> o]}
      PROVE  Fits'
  BY <1>2, <1>3, <1>5, CalmQuiet
<1> QED BY <1>1, <1>4, <1>5, OthersCases

LEMMA CalmClock ==
  ASSUME Calm, Clock
  PROVE  Fits'
<1>1. UNCHANGED <<call, page, troubles>> /\ UNCHANGED <<booking, sent>> /\ now' = now + 1
  BY TickStep DEF Clock
<1>2. UNCHANGED <<dialog, modal>>
  BY <1>1 DEF page
<1>3. ASSUME NEW c \in Calls, Under(c), call[c].op \in {"charge", "pay"},
             call[c].outcome = "success"
      PROVE  now' < Deadline(call[c].b)
  <2>1. call[c] \in Call /\ call[c].b \in Bookings
    BY <1>3, CalmFacts, CallKinds
  <2>2. Paying(call[c].b)
    BY <1>3 DEF Paying, Under
  <2>3. "slow" \notin Habits
    BY DEF Calm, Smooth
  <2> QED BY <1>1, <2>1, <2>2, <2>3 DEF Clock
<1> QED BY <1>1, <1>2, <1>3, CalmQuiet

(* A goroutine goes on.                                                    *)
LEMMA WorkFacts ==
  ASSUME Calm, NEW w \in Workers, Work(w)
  PROVE  /\ [SNext]_svars /\ Goes(w) /\ GoOn(w, "ok") /\ Grows
         /\ UNCHANGED <<sent, now>> /\ UNCHANGED <<dialog, modal>>
         /\ \A v \in Workers : v # w => Stays(v)
<1>1. UInv /\ BillInv
  BY CalmFacts DEF UInv
<1> QED BY <1>1, WorkGoes, StepKeeps DEF Work, GoOn, page

(* It handles no call of this browser, or is not done with it.             *)
LEMMA CalmWorkQuiet ==
  ASSUME Calm, NEW w \in Workers, Work(w),
         (\A c \in Calls : call[c].at # w) \/ task'[w] # Idle
  PROVE  Fits'
<1>1. /\ Goes(w) /\ GoOn(w, "ok") /\ UNCHANGED <<sent, now>> /\ UNCHANGED <<dialog, modal>>
      /\ UInv /\ TasksAreGood
  BY CalmFacts, WorkFacts DEF UInv
<1>2. \A c \in Calls : call'[c] = call[c]
  BY <1>1, GoOnCalls
<1>3. \A b \in Mine : booking'[b] = booking[b]
  <2>1. CASE Loads(w) \/ Marks(w)
    BY <2>1 DEF Loads, Marks
  <2>2. CASE Creates(w)
    <3>1. task[w].b \notin Mine
      BY <1>1, <2>2 DEF Creates, TasksAreGood, About
    <3> QED BY <2>2, <3>1, CheckoutScreenAssumption DEF Creates, Elsewhere
  <2>3. CASE Saves(w)
    <3>1. task[w].e.b \notin Mine
      BY <1>1, <2>3 DEF Saves, TasksAreGood, About
    <3> QED BY <2>3, <3>1, CheckoutScreenAssumption DEF Saves, Elsewhere
  <2> QED BY <1>1, <2>1, <2>2, <2>3 DEF Goes
<1> QED BY <1>1, <1>2, <1>3, CalmQuiet

(* It answers a call.                                                      *)
LEMMA WorkAnswers ==
  ASSUME Calm, NEW w \in Workers, Work(w), NEW c \in Calls, call[c].at = w, task'[w] = Idle
  PROVE  \E x : /\ call' = [call EXCEPT ![c] = x] /\ Moves(call[c], x)
                /\ x.at = "ok" /\ x.page /\ x.op = call[c].op
                /\ x.op = "pay" => x.part = call[c].part
                /\ Under(c) /\ CallFits(call[c]) /\ GoodCall(call[c]) /\ Handles(w, call[c])
                /\ call[c] \in Call /\ call[c].op \in {"book", "pay"}
<1>1. GoOn(w, "ok") /\ UInv /\ OneCallEach
  BY CalmFacts, WorkFacts DEF UInv
<1>2. PICK x : x = [call[c] EXCEPT !.at = "ok"]
  OBVIOUS
<1>3. /\ Under(c) /\ call[c] \in Call /\ GoodCall(call[c]) /\ Handles(w, call[c])
      /\ call'[c] = IF call[c].page THEN x ELSE Free
      /\ x \in Call /\ x.at = "ok" /\ x.op = call[c].op /\ x.b = call[c].b
      /\ call[c].op \in {"book", "pay"}
      /\ call[c].op = "pay" => x.part = call[c].part /\ x.outcome = call[c].outcome
  BY <1>1, <1>2, GoOnCalls DEF Under
<1>4. CallFits(call[c]) /\ call[c].page
  BY <1>3, CalmFacts DEF CallFits
<1>5. x.page
  BY <1>2, <1>3, <1>4 DEF Call
<1>6. \A d \in Calls : d # c => call'[d] = call[d]
  <2>1. \A d \in Calls : d # c => call[d].at # w
    BY <1>1 DEF OneCallEach
  <2> QED BY <1>1, <2>1, GoOnCalls
<1>7. call' \in [Calls -> Call \cup {Free}]
  BY <1>1, GoOnCalls
<1>8. call' = [call EXCEPT ![c] = x]
  BY <1>3, <1>4, <1>6, <1>7, CalmFacts
<1>9. Moves(call[c], x)
  BY <1>3 DEF Moves
<1> QED BY <1>3, <1>4, <1>5, <1>8, <1>9

LEMMA CalmCreates ==
  ASSUME Calm, NEW w \in Workers, Work(w), NEW c \in Calls, call[c].at = w, Creates(w)
  PROVE  Fits'
<1>1. UNCHANGED <<sent, now>> /\ UNCHANGED <<dialog, modal>> /\ task'[w] = Idle
  BY WorkFacts DEF Creates
<1>2. PICK x : /\ call' = [call EXCEPT ![c] = x] /\ Moves(call[c], x)
               /\ x.at = "ok" /\ x.page /\ x.op = call[c].op
               /\ Under(c) /\ CallFits(call[c]) /\ Handles(w, call[c]) /\ call[c] \in Call
  BY <1>1, WorkAnswers
<1>3. /\ call[c].op = "book" /\ task[w].b = call[c].b /\ x.b = call[c].b
  BY <1>2 DEF Creates, Handles, Moves
<1>4. /\ booking'[x.b].status = "pending"
      /\ \A b \in Mine : b # x.b => booking'[b] = booking[b]
  BY <1>3, CheckoutScreenAssumption DEF Creates, Elsewhere
<1>5. modal = Closed /\ Quiet(x.b) /\ dialog = Closed
  BY <1>2, <1>3 DEF CallFits, BookFits
<1>6. CallFits(x)'
  BY <1>1, <1>2, <1>3, <1>4, <1>5
  DEF CallFits, BookFits, ChargeFits, SuccessFits, FailureFits, Quiet
<1>7. \A d \in Calls : d # c => call[d] = Free
  BY <1>2, <1>3, SingleCall DEF Failing
<1>8. CallsFit' /\ Alone' /\ call'[c] = x /\ x # Free
  BY <1>2, <1>6, <1>7, SingleFits, SentAt DEF Moves
<1>9. MineOnce' /\ ModalFits' /\ DialogFits'
  BY <1>1, <1>5, CalmFacts DEF MineOnce, ModalFits, DialogFits
<1>10. HeldFits'
  <2> SUFFICES ASSUME NEW b \in Mine, Pending(b)' PROVE Payable(b)'
    BY DEF HeldFits
  <2>1. CASE b = x.b
    BY <1>2, <1>3, <1>8, <2>1 DEF Payable, Under
  <2>2. CASE b # x.b
    <3>1. Payable(b)
      BY <1>4, <2>2, CalmFacts DEF HeldFits, Pending
    <3>2. ~(\E d \in Calls : Under(d) /\ call[d].op = "book" /\ call[d].b = b)
      BY <1>3, <1>7, <2>2 DEF Under
    <3> QED BY <1>1, <1>4, <2>2, <3>1, <3>2 DEF Payable
  <2> QED BY <2>1, <2>2
<1> QED BY <1>8, <1>9, <1>10 DEF Fits

LEMMA CalmSaves ==
  ASSUME Calm, NEW w \in Workers, Work(w), NEW c \in Calls, call[c].at = w, Saves(w)
  PROVE  Fits'
<1>1. UNCHANGED <<sent, now>> /\ UNCHANGED <<dialog, modal>> /\ task'[w] = Idle /\ Grows
  BY WorkFacts DEF Saves
<1>2. PICK x : /\ call' = [call EXCEPT ![c] = x] /\ Moves(call[c], x)
               /\ x.at = "ok" /\ x.page /\ x.op = call[c].op
               /\ x.op = "pay" => x.part = call[c].part
               /\ Under(c) /\ CallFits(call[c]) /\ GoodCall(call[c]) /\ Handles(w, call[c])
               /\ call[c] \in Call
  BY <1>1, WorkAnswers
<1>3. /\ call[c].op = "pay" /\ task[w].e = ResultOf(call[c])
      /\ x.b = call[c].b /\ x.outcome = call[c].outcome /\ x.part = call[c].part
  BY <1>2 DEF Saves, Handles, Moves
<1>4. /\ task[w].e.b = x.b /\ task[w].e.part = x.part /\ task[w].e.outcome = x.outcome
      /\ x.part \in {"full", "primary"} /\ x.outcome \in {"success", "failed"}
      /\ x.b \in Bookings /\ x.b \in Mine
  BY <1>2, <1>3, CallFacts, CallKinds
<1>5. /\ x.part = "full" =>
           booking'[x.b].status = IF x.outcome = "success" THEN "confirmed" ELSE "failed"
      /\ x.part = "primary" /\ x.outcome = "success" => booking'[x.b].primaryPaid
      /\ \A b \in Mine : b # x.b => booking'[b] = booking[b]
  BY <1>4, CheckoutScreenAssumption DEF Saves, Elsewhere
<1>6. /\ dialog = Closed /\ Exists(x.b) /\ ResultOf(call[c]) \in sent
      /\ modal = Closed \/ modal.b = x.b
      /\ modal # Closed => InPay
  BY <1>2, <1>3, <1>4 DEF CallFits, SuccessFits, FailureFits, GoodCall, InPay
<1>7. Deadline(x.b)' = Deadline(x.b)
  BY <1>1, <1>4, <1>6 DEF Grows, SameOrder, Deadline, HoldFor, Exists
<1>8. CallFits(x)'
  BY <1>1, <1>2, <1>3, <1>4, <1>5, <1>6, <1>7
  DEF CallFits, BookFits, ChargeFits, SuccessFits, FailureFits, InPay, Pending, Confirmed
<1>9. ASSUME NEW d \in Calls, d # c, Under(d) PROVE CallFits(call[d])'
  <2>1. Beside(call[c], call[d]) /\ CallFits(call[d]) /\ GoodCall(call[d]) /\ call[d] \in Call
        /\ call'[d] = call[d]
    BY <1>2, <1>9, CalmFacts DEF Alone
  <2>2. call[d].part = "full" => x.part = "full"
    BY <1>2, <1>3, <1>4, <2>1 DEF GoodCall, Beside
  <2>3. call[d].part = "full" => ~Pending(call[d].b)'
    BY <1>3, <1>5, <2>1, <2>2 DEF Beside, Pending
  <2> QED BY <1>1, <2>1, <2>3
          DEF CallFits, BookFits, ChargeFits, SuccessFits, FailureFits, Beside, InPay
<1>10. CallsFit' /\ Alone' /\ Under(c)' /\ \A d \in Calls : Under(d) <=> Under(d)'
  BY <1>2, <1>8, <1>9, CallMoves
<1>11. MineOnce' /\ ModalFits' /\ DialogFits'
  BY <1>1, <1>6, <1>10, CalmFacts DEF MineOnce, ModalFits, DialogFits, InPay
<1>12. HeldFits'
  <2> SUFFICES ASSUME NEW b \in Mine, Pending(b)' PROVE Payable(b)'
    BY DEF HeldFits
  <2>1. CASE b = x.b
    <3>1. CASE x.outcome = "success"
      BY <1>1, <1>2, <1>3, <1>6, <2>1, <3>1 DEF CallFits, SuccessFits, InPay, Payable
    <3>2. CASE x.outcome = "failed"
      <4>1. x.part = "primary"
        BY <1>4, <1>5, <2>1, <3>2 DEF Pending
      <4>2. ResultOf(call[c]) = [b |-> b, part |-> "primary", outcome |-> "failed"]
        BY <1>3, <2>1, <3>2, <4>1 DEF ResultOf
      <4> QED BY <1>1, <1>6, <4>2 DEF Payable
    <3> QED BY <1>4, <3>1, <3>2
  <2>2. CASE b # x.b
    <3>1. Payable(b)
      BY <1>5, <2>2, CalmFacts DEF HeldFits, Pending
    <3>2. \A d \in Calls : Under(d) => call[d].op = "pay"
      BY <1>2, <1>3, CalmFacts DEF Alone, Beside
    <3> QED BY <1>1, <1>5, <2>2, <3>1, <3>2 DEF Payable
  <2> QED BY <2>1, <2>2
<1> QED BY <1>10, <1>11, <1>12 DEF Fits

LEMMA CalmWork ==
  ASSUME Calm, NEW w \in Workers, Work(w)
  PROVE  Fits'
<1>1. Goes(w)
  BY WorkFacts
<1>2. CASE (\A c \in Calls : call[c].at # w) \/ task'[w] # Idle
  BY <1>2, CalmWorkQuiet
<1>3. ASSUME NEW c \in Calls, call[c].at = w, task'[w] = Idle PROVE Fits'
  <2>1. ~Loads(w) /\ ~Marks(w)
    BY <1>3 DEF Loads, Marks, Idle
  <2> QED BY <1>1, <1>3, <2>1, CalmCreates, CalmSaves DEF Goes
<1> QED BY <1>2, <1>3

LEMMA SmoothSteps ==
  ASSUME SmoothInv, [UNext]_uvars
  PROVE  /\ Smooth' => Smooth
         /\ Smooth /\ Smooth' =>
              \/ Browse /\ ~Reload
              \/ Others \/ Clock
              \/ \E c \in Calls : Click(c) \/ TimerExpires(c) \/ Serve(c) \/ Reply(c)
              \/ \E w \in Workers : Work(w)
              \/ UNCHANGED uvars
<1>1. troubles \in Nat
  BY CheckoutScreenAssumption DEF SmoothInv, UInv, UTypeOK
<1>2. \A c \in Calls : Unauthorised(c) \/ Lost(c) => troubles' = troubles + 1
  BY DEF Unauthorised, Lost, Trouble
<1>3. (\A w \in Workers : RefuseIntent(w) => troubles' = troubles + 1)
      /\ (Reload => troubles' = troubles + 1)
  BY DEF RefuseIntent, Reload, Trouble
<1>4. troubles' = troubles + 1 => ~Smooth'
  BY <1>1 DEF Smooth
<1>5. Browse /\ ~Reload => UNCHANGED troubles
  BY DEF Browse, OpenBreakdown, InitiateBooking, ChooseSplit, ToggleMatchmaking, CloseDialog,
         CloseModal, Login
<1>6. (Others => UNCHANGED troubles) /\ (Clock => UNCHANGED troubles)
  BY DEF Others, Clock
<1>7. \A c \in Calls : Click(c) \/ TimerExpires(c) => UNCHANGED troubles
  BY DEF Click, ConfirmBooking, MockPay, CancelPayment, ConfirmPayment, Logout, TimerExpires
<1>8. \A c \in Calls : Serve(c) \/ Reply(c) => UNCHANGED troubles
  BY DEF Serve, Reply, Booked, NotBooked, SharePosted, PaymentPosted, FailurePosted, LoggedOut,
         Charged, Declined
<1>9. \A w \in Workers : Work(w) => UNCHANGED troubles
  BY DEF Work
<1>10. UNCHANGED uvars => UNCHANGED troubles
  BY DEF uvars
<1>11. \/ Browse /\ ~Reload
       \/ Others \/ Clock
       \/ \E c \in Calls : Click(c) \/ TimerExpires(c) \/ Serve(c) \/ Reply(c)
       \/ \E w \in Workers : Work(w)
       \/ UNCHANGED uvars
       \/ troubles' = troubles + 1
  BY <1>2, <1>3 DEF UNext
<1>12. UNCHANGED troubles => (Smooth' <=> Smooth)
  BY DEF Smooth
<1> QED BY <1>4, <1>5, <1>6, <1>7, <1>8, <1>9, <1>10, <1>11, <1>12

LEMMA CalmStep ==
  ASSUME Calm, SmoothInv, [UNext]_uvars, Smooth'
  PROVE  Fits'
<1>1. CASE Browse /\ ~Reload
  BY <1>1, CalmBrowse
<1>2. CASE Others \/ Clock
  BY <1>2, CalmOthers, CalmClock
<1>3. ASSUME NEW c \in Calls, Click(c) \/ TimerExpires(c) PROVE Fits'
  BY <1>3, CalmConfirmBooking, CalmPays, CalmConfirmPayment, CalmLogout DEF Click
<1>4. ASSUME NEW c \in Calls, Serve(c) PROVE Fits'
  BY <1>4, CalmServe
<1>5. ASSUME NEW c \in Calls, Reply(c) PROVE Fits'
  BY <1>5, CalmBooked, CalmPosted, CalmFailurePosted, CalmLoggedOut, CalmCharged, CalmDeclined
  DEF Reply
<1>6. ASSUME NEW w \in Workers, Work(w) PROVE Fits'
  BY <1>6, CalmWork
<1>7. CASE UNCHANGED uvars
  <2>1. UNCHANGED <<dialog, modal, call, booking, sent, now>>
    BY <1>7 DEF uvars, svars, page, vars, rows, gateway
  <2> QED BY <2>1, CalmQuiet
<1> QED BY <1>1, <1>2, <1>3, <1>4, <1>5, <1>6, <1>7, SmoothSteps DEF Calm

LEMMA SmoothNext == ASSUME SmoothInv, [UNext]_uvars PROVE SmoothInv'
<1>1. UInv'
  BY UNextInv DEF SmoothInv
<1>2. Smooth' => Fits'
  BY SmoothSteps, CalmStep DEF SmoothInv, Calm
<1> QED BY <1>1, <1>2 DEF SmoothInv

LEMMA SmoothInit == ASSUME UInit PROVE SmoothInv
<1>1. UInv
  BY UInitInv
<1>2. /\ \A c \in Calls : call[c] = Free
      /\ dialog = Closed /\ modal = Closed /\ sent = {}
      /\ \A b \in Bookings : booking[b].status = "absent"
  BY DEF UInit, SInit, Init, Absent
<1>3. CallsFit /\ Alone /\ MineOnce /\ ModalFits /\ DialogFits
  BY <1>2 DEF CallsFit, Alone, Under, MineOnce, ModalFits, DialogFits
<1>4. HeldFits
  BY <1>2, CheckoutScreenAssumption DEF HeldFits, Pending
<1> QED BY <1>1, <1>3, <1>4 DEF SmoothInv, Fits

LEMMA SmoothInvariant == USpec => []SmoothInv
<1>1. UInit => SmoothInv
  BY SmoothInit
<1>2. SmoothInv /\ [UNext]_uvars => SmoothInv'
  BY SmoothNext
<1> QED BY <1>1, <1>2, PTL DEF USpec
-----------------------------------------------------------------------------
(* What the user sees, and what it may rely on.                            *)

(* "Booking Confirmed!" is shown of a confirmed booking, and the host is   *)
(* ticked off as paid when the host has paid: PaymentPosted and            *)
(* SharePosted draw the screens from the answer of a call, and for a user  *)
(* in time who waits for answers that come, the answer was good and the    *)
(* dialog still that of its booking.                                       *)
THEOREM ScreenTellsTruth == USpec => []ScreenIsTrue
<1>1. SmoothInv => ScreenIsTrue
  <2> SUFFICES ASSUME Smooth, ModalFits
               PROVE  /\ View = "confirmed" => Confirmed(modal.b)
                      /\ View = "split" => booking[modal.b].primaryPaid
    BY DEF SmoothInv, Fits, ScreenIsTrue
  <2>1. /\ View = "confirmed" => modal # Closed /\ modal.confirmed
        /\ View = "split" => modal # Closed /\ ~modal.confirmed /\ modal.secret = "none"
    BY DEF View
  <2> QED BY <2>1 DEF ModalFits
<1> QED BY <1>1, SmoothInvariant, PTL

(* A slot that confirmBooking holds for the user can be paid for: the      *)
(* terminal is there, or a call that opens it, until the user has          *)
(* cancelled or paid the host's share.                                     *)
THEOREM HeldCanBePaid == USpec => []HeldCanPay
<1>1. SmoothInv => HeldCanPay
  <2> SUFFICES ASSUME Smooth, HeldFits, NEW b \in Mine, booking[b].status = "pending"
               PROVE  Payable(b)
    BY DEF SmoothInv, Fits, HeldCanPay, Payable, Under
  <2> QED BY DEF HeldFits, Pending
<1> QED BY <1>1, SmoothInvariant, PTL

(* The rows of this browser are written by the goroutines of its calls;    *)
(* none of them takes back a confirmed booking.                            *)
LEMMA ConfirmedKept ==
  ASSUME Calm, NEW w \in Workers, Work(w), NEW b \in Mine, Confirmed(b)
  PROVE  Confirmed(b)'
<1>1. /\ Goes(w) /\ UInv /\ BillInv /\ TasksAreGood /\ FullPaid /\ b \in Bookings
  BY WorkFacts, CalmFacts, CheckoutScreenAssumption DEF UInv
<1>2. CASE Loads(w) \/ Marks(w)
  BY <1>2 DEF Loads, Marks, Confirmed
<1>3. CASE Creates(w)
  <2>1. booking[task[w].b].status = "absent"
    BY <1>1, <1>3, Bases DEF Creates, LockInv, CopyIsCurrent
  <2> QED BY <1>1, <1>3, <2>1 DEF Creates, Elsewhere, Confirmed
<1>4. CASE Saves(w) /\ task[w].e.b # b
  BY <1>1, <1>4 DEF Saves, Elsewhere, Confirmed
<1>5. CASE Saves(w) /\ task[w].e.b = b
  <2>1. PICK c \in Calls : call[c].at = w
    BY <1>1, <1>5 DEF Saves, TasksAreGood, About
  <2>2. Under(c) /\ call[c] \in Call /\ GoodCall(call[c]) /\ CallFits(call[c])
    BY <2>1, SentAt, CalmFacts DEF Under
  <2>3. /\ call[c].op = "pay" /\ call[c].b = b /\ call[c].at # "ok"
        /\ ResultOf(call[c]) \in sent /\ call[c].outcome \in {"success", "failed"}
        /\ ResultOf(call[c]).outcome = call[c].outcome /\ ResultOf(call[c]).b = b
    <3>1. Handles(w, call[c])
      BY <2>1, <2>2 DEF GoodCall
    <3>2. call[c].op = "pay" /\ task[w].e = ResultOf(call[c])
      BY <1>5, <3>1 DEF Saves, Handles
    <3> QED BY <1>5, <2>1, <2>2, <3>2, CallFacts, CallKinds, SentAt DEF GoodCall
  <2>4. call[c].outcome = "failed"
    BY <2>2, <2>3 DEF CallFits, SuccessFits, Pending, Confirmed
  <2>5. \E e \in sent : e.b = b /\ e.outcome = "success"
    <3>1. CASE booking[b].kind = "split"
      <4>1. booking[b] \in BookingRow
        BY <1>1, Bases DEF TypeOK
      <4>2. GoodRow(b, booking[b])
        BY <1>1, <4>1 DEF BillInv, RowsAreGood, InFlight
      <4>3. HasPaid(b, "primary")
        BY <3>1, <4>2 DEF GoodRow, BillPaid, Confirmed
      <4> QED BY <4>3 DEF HasPaid
    <3>2. CASE booking[b].kind # "split"
      <4>1. SuccessOf(b) \in sent
        BY <1>1, <3>2 DEF FullPaid, RowPaid, Confirmed
      <4> QED BY <4>1 DEF SuccessOf
    <3> QED BY <3>1, <3>2
  <2>6. MineOnce
    BY CalmFacts
  <2> QED BY <2>3, <2>4, <2>5, <2>6 DEF MineOnce
<1> QED BY <1>1, <1>2, <1>3, <1>4, <1>5 DEF Goes

LEMMA OnlyWorkWrites ==
  ASSUME UInv, [UNext]_uvars
  PROVE  UNCHANGED booking \/ \E w \in Workers : Work(w)
<1>1. CASE Browse
  BY <1>1 DEF Browse, OpenBreakdown, InitiateBooking, ChooseSplit, ToggleMatchmaking,
              CloseDialog, CloseModal, Login, Reload, svars, vars, rows
<1>2. CASE Others
  BY <1>2, OthersCases
<1>3. CASE Clock
  BY <1>3, TickStep DEF Clock
<1>4. ASSUME NEW c \in Calls, Click(c) \/ TimerExpires(c) PROVE UNCHANGED booking
  BY <1>4 DEF Click, ConfirmBooking, MockPay, CancelPayment, ConfirmPayment, Logout, TimerExpires,
              Post, svars, vars, rows
<1>5. ASSUME NEW c \in Calls, Serve(c) PROVE UNCHANGED booking
  BY <1>5, ServeFacts DEF svars, vars, rows
<1>6. ASSUME NEW c \in Calls, Reply(c) PROVE UNCHANGED booking
  BY <1>6 DEF Reply, Booked, NotBooked, SharePosted, PaymentPosted, FailurePosted, LoggedOut,
              Charged, Declined, svars, vars, rows
<1>7. ASSUME NEW c \in Calls, Unauthorised(c) \/ Lost(c) PROVE UNCHANGED booking
  BY <1>7 DEF Unauthorised, Lost, svars, vars, rows
<1>8. ASSUME NEW w \in Workers, RefuseIntent(w) PROVE UNCHANGED booking
  BY <1>8, IntentRefused DEF RefuseIntent, UInv
<1>9. CASE UNCHANGED uvars
  BY <1>9 DEF uvars, svars, vars, rows
<1> QED BY <1>1, <1>2, <1>3, <1>4, <1>5, <1>6, <1>7, <1>8, <1>9 DEF UNext

(* What the user has paid for stays: the countdown of the terminal, which  *)
(* goes on until the page knows the answer, does not take a confirmed      *)
(* booking back.                                                           *)
THEOREM PaidStays == USpec => PaidStaysConfirmed
<1>1. SmoothInv /\ [UNext]_uvars =>
        [\A b \in Mine : Smooth /\ Confirmed(b) => Confirmed(b)']_uvars
  <2> SUFFICES ASSUME SmoothInv, [UNext]_uvars, NEW b \in Mine, Smooth, Confirmed(b)
               PROVE  Confirmed(b)'
    OBVIOUS
  <2>1. CASE UNCHANGED booking
    BY <2>1 DEF Confirmed
  <2>2. Calm /\ UInv
    BY DEF SmoothInv, Calm
  <2> QED BY <2>1, <2>2, OnlyWorkWrites, ConfirmedKept
<1> QED BY <1>1, SmoothInvariant, PTL DEF USpec, PaidStaysConfirmed
-----------------------------------------------------------------------------
(* Players.                                                                *)

(***************************************************************************)
(* What a step of UNext is for the rows of the server: a goroutine begins, *)
(* a result is reported, a goroutine goes on, an intent is refused, or     *)
(* nothing.                                                                *)
(***************************************************************************)
Begins ==
  \E w \in Workers : \E t :
    /\ task[w] = Idle /\ task' = [task EXCEPT ![w] = t]
    /\ UNCHANGED <<slot, booking, sent, acked>>
    /\ \/ t.op = "create"
       \/ /\ t.op = "checked"
          /\ t.e.b \notin Mine => t.e \notin acked /\ \A v \in Workers : ~Processing(v, t.e)
Reports ==
  /\ UNCHANGED <<slot, booking, acked, task>>
  /\ \E e : /\ sent' = sent \cup {e}
            /\ e.b \notin Mine =>
                 /\ e.part = "full"
                 /\ \A x \in sent : x.b = e.b /\ x.part = "full" => "retry" \in Hazards
Refuses ==
  /\ UNCHANGED <<slot, booking, sent, acked>>
  /\ \E w \in Workers : /\ task'[w] = Idle
                        /\ \A v \in Workers : v # w => Stays(v)
Rests == UNCHANGED <<slot, booking, sent, acked, task>>

LEMMA RowSteps ==
  ASSUME UInv, [UNext]_uvars
  PROVE  Begins \/ Reports \/ Refuses \/ Rests \/ \E w \in Workers : Work(w)
<1>1. CASE Browse
  BY <1>1 DEF Browse, OpenBreakdown, InitiateBooking, ChooseSplit, ToggleMatchmaking,
              CloseDialog, CloseModal, Login, Reload, svars, vars, rows, gateway, Rests
<1>2. CASE Others
  <2>1. ASSUME NEW w \in Workers, NEW t,
               task[w] = Idle, task' = [task EXCEPT ![w] = t],
               UNCHANGED <<now, slot, booking, sent, acked>>,
               \/ t.op = "create"
               \/ /\ t.op = "checked" /\ t.e \in sent \ acked
                  /\ \A v \in Workers : ~Processing(v, t.e)
        PROVE  Begins
    BY <2>1 DEF Begins
  <2>2. ASSUME NEW b \in Bookings \ Mine, NEW o \in {"success", "failed"},
               UNCHANGED <<now, slot, booking, acked, task>>,
               LET e == [b |-> b, part |-> "full", outcome |-> o] IN
                 /\ sent' = sent \cup {e} /\ e \notin sent
                 /\ \A x \in sent : x.b = b /\ x.part = "full" => "retry" \in Hazards
        PROVE  Reports
    BY <2>2 DEF Reports
  <2> QED BY <1>2, <2>1, <2>2, OthersCases
<1>3. CASE Clock
  BY <1>3, TickStep DEF Clock, Rests
<1>4. ASSUME NEW c \in Calls, ConfirmBooking(c) \/ ConfirmPayment(c) \/ Logout(c) PROVE Rests
  BY <1>4 DEF ConfirmBooking, ConfirmPayment, Logout, svars, vars, rows, gateway, Rests
<1>5. ASSUME NEW c \in Calls, MockPay(c) \/ CancelPayment(c) \/ TimerExpires(c) PROVE Reports
  <2>1. PICK o \in {"success", "failed"} : Post(c, modal, o)
    BY <1>5 DEF MockPay, CancelPayment, TimerExpires
  <2>2. View = "pay"
    BY <1>5 DEF MockPay, CancelPayment, TimerExpires
  <2>3. PICK k : k = Payment("pay", modal, o)
    OBVIOUS
  <2>4. /\ sent' = sent \cup {ResultOf(k)} /\ k \in Call /\ k.op = "pay"
        /\ UNCHANGED <<slot, booking, acked, task>>
    BY <2>1, <2>2, <2>3, PostFacts DEF rows
  <2>5. ResultOf(k).b \in Mine
    BY <2>4, CallFacts, CallKinds
  <2> QED BY <2>4, <2>5 DEF Reports
<1>6. ASSUME NEW c \in Calls, Serve(c) PROVE Begins \/ Rests
  <2>1. call[c] \in Call
    BY <1>6, ServeFacts
  <2>2. CASE UNCHANGED svars
    BY <2>2 DEF svars, vars, rows, gateway, Rests
  <2>3. ASSUME NEW w \in Workers, NEW t,
               task[w] = Idle, task' = [task EXCEPT ![w] = t],
               UNCHANGED <<now, slot, booking, sent, acked>>,
               \/ t.op = "create"
               \/ call[c].op = "pay" /\ t.op = "checked" /\ t.e = ResultOf(call[c])
        PROVE  Begins
    <3>1. t.op = "checked" /\ call[c].op = "pay" /\ t.e = ResultOf(call[c]) => t.e.b \in Mine
      BY <2>1, CallFacts, CallKinds
    <3> QED BY <2>3, <3>1 DEF Begins
  <2> QED BY <1>6, <2>2, <2>3, ServeFacts
<1>7. ASSUME NEW c \in Calls, Charged(c) PROVE Reports
  <2>1. PICK k : k = [call[c] EXCEPT !.op = "pay"]
    OBVIOUS
  <2>2. /\ sent' = sent \cup {ResultOf(k)} /\ k \in Call /\ k.op = "pay"
        /\ UNCHANGED <<slot, booking, acked, task>>
    BY <1>7, <2>1, ChargedFacts DEF rows
  <2>3. ResultOf(k).b \in Mine
    BY <2>2, CallFacts, CallKinds
  <2> QED BY <2>2, <2>3 DEF Reports
<1>8. ASSUME NEW c \in Calls, Reply(c), ~Charged(c) PROVE Rests
  BY <1>8 DEF Reply, Booked, NotBooked, SharePosted, PaymentPosted, FailurePosted, LoggedOut,
              Declined, svars, vars, rows, gateway, Rests
<1>9. ASSUME NEW c \in Calls, Unauthorised(c) \/ Lost(c) PROVE Rests
  BY <1>9 DEF Unauthorised, Lost, svars, vars, rows, gateway, Rests
<1>10. ASSUME NEW w \in Workers, RefuseIntent(w) PROVE Refuses
  BY <1>10, IntentRefused DEF RefuseIntent, UInv, Refuses
<1>11. CASE UNCHANGED uvars
  BY <1>11 DEF uvars, svars, vars, rows, gateway, Rests
<1> QED BY <1>1, <1>2, <1>3, <1>4, <1>5, <1>6, <1>7, <1>8, <1>9, <1>10, <1>11 DEF UNext, Click

(***************************************************************************)
(* The other customers pay in full, and each of their results is worked on *)
(* by one goroutine, once.  A webhook has loaded its booking's slot.       *)
(***************************************************************************)
OtherResults ==
  \A e \in sent : e.b \notin Mine =>
    e.part = "full" /\ \A x \in sent : x.b = e.b => x = e
OthersServed ==
  /\ \A b \in Bookings \ Mine : Confirmed(b) => SuccessOf(b) \in acked
  /\ \A v \in Workers : \A e \in Result : Processing(v, e) /\ e.b \notin Mine =>
       e \notin acked /\ \A w \in Workers : Processing(w, e) => w = v
SlotStays ==
  \A w \in Workers : task[w].op \in {"loaded", "ticketed"} => task[w].bk.slot = booking[task[w].e.b].slot
OthersInv == OtherResults /\ OthersServed /\ SlotStays

LEMMA OthersResultsNext ==
  ASSUME UInv, OthersInv, "retry" \notin Hazards, [UNext]_uvars
  PROVE  OtherResults'
<1>1. UNCHANGED sent \/ Reports
  BY RowSteps, WorkGoes DEF Begins, Refuses, Rests, Work
<1>2. CASE UNCHANGED sent
  BY <1>2 DEF OthersInv, OtherResults
<1>3. CASE Reports
  <2>1. PICK e : /\ sent' = sent \cup {e}
                 /\ e.b \notin Mine =>
                      /\ e.part = "full"
                      /\ \A x \in sent : x.b = e.b /\ x.part = "full" => "retry" \in Hazards
    BY <1>3 DEF Reports
  <2>2. e.b \notin Mine => e.part = "full" /\ \A x \in sent : x.b # e.b
    BY <2>1 DEF OthersInv, OtherResults
  <2> QED BY <2>1, <2>2 DEF OthersInv, OtherResults
<1> QED BY <1>1, <1>2, <1>3

\* What a goroutine works on, before and after its step.
LEMMA TaskFacts ==
  ASSUME UInv, NEW w \in Workers, task[w].op \in {"checked", "loaded", "ticketed"}
  PROVE  /\ task[w].e \in Result /\ task[w].e \in sent /\ task[w].e.b \in Bookings
         /\ Processing(w, task[w].e) /\ Exists(task[w].e.b)
         /\ task[w].op \in {"loaded", "ticketed"} => /\ task[w].bk.slot \in Slots /\ task[w].sl \in SlotRow
                                     /\ task[w].bk.kind \in AllKinds
<1>1. TypeOK /\ ForeignKeys
  BY Bases DEF UInv
<1>2. task[w].e \in sent
  BY <1>1 DEF ForeignKeys
<1>3. task[w].e \in Result /\ task[w].e.b \in Bookings /\ Exists(task[w].e.b)
  BY <1>1, <1>2 DEF TypeOK, Result, ForeignKeys, Exists
<1>4. task[w].op \in {"loaded", "ticketed"} => /\ task[w].bk.slot \in Slots /\ task[w].sl \in SlotRow
                               /\ task[w].bk.kind \in AllKinds
  BY <1>1, LoadedTask DEF BookingRow, TypeInv
<1> QED BY <1>2, <1>3, <1>4 DEF Processing

LEMMA OthersServedNext ==
  ASSUME UInv, OthersInv, [UNext]_uvars
  PROVE  OthersServed'
<1>1. CASE Reports \/ Rests
  BY <1>1 DEF Reports, Rests, OthersInv, OthersServed, Confirmed, Processing
<1>2. CASE Begins
  <2>1. PICK w \in Workers : \E t :
          /\ task[w] = Idle /\ task' = [task EXCEPT ![w] = t]
          /\ UNCHANGED <<slot, booking, sent, acked>>
          /\ \/ t.op = "create"
             \/ /\ t.op = "checked"
                /\ t.e.b \notin Mine => t.e \notin acked /\ \A v \in Workers : ~Processing(v, t.e)
    BY <1>2 DEF Begins
  <2>2. PICK t :
          /\ task[w] = Idle /\ task' = [task EXCEPT ![w] = t]
          /\ UNCHANGED <<slot, booking, sent, acked>>
          /\ \/ t.op = "create"
             \/ /\ t.op = "checked"
                /\ t.e.b \notin Mine => t.e \notin acked /\ \A v \in Workers : ~Processing(v, t.e)
    BY <2>1
  <2>3. task'[w] = t /\ \A v \in Workers : v # w => task'[v] = task[v]
    BY <2>2, Bases DEF UInv, TypeOK
  <2>4. \A v \in Workers : \A e : Processing(v, e)' =>
          \/ v # w /\ Processing(v, e)
          \/ v = w /\ e = t.e /\ t.op = "checked"
    BY <2>2, <2>3 DEF Processing
  <2> QED BY <2>2, <2>4 DEF OthersInv, OthersServed, Confirmed
<1>3. CASE Refuses
  <2>1. PICK w \in Workers : task'[w] = Idle /\ \A v \in Workers : v # w => Stays(v)
    BY <1>3 DEF Refuses
  <2>2. \A v \in Workers : \A e : Processing(v, e)' => Processing(v, e)
    BY <2>1 DEF Stays, Processing, Idle
  <2> QED BY <1>3, <2>2 DEF Refuses, OthersInv, OthersServed, Confirmed
<1>4. ASSUME NEW w \in Workers, Work(w) PROVE OthersServed'
  <2>1. /\ Goes(w) /\ UNCHANGED sent /\ \A v \in Workers : v # w => Stays(v)
    BY <1>4, WorkGoes DEF Work
  <2>2. CASE Marks(w)
    <3>1. \A v \in Workers : \A e : Processing(v, e)' => Processing(v, e)
      BY <2>1, <2>2 DEF Marks, KeepsRows, Stays, Processing
    <3> QED BY <2>2, <3>1 DEF Marks, OthersInv, OthersServed, Confirmed
  <2>3. CASE Loads(w)
    <3>1. \A v \in Workers : \A e : Processing(v, e)' => Processing(v, e)
      BY <2>1, <2>3 DEF Loads, Stays, Processing
    <3> QED BY <2>3, <3>1 DEF Loads, OthersInv, OthersServed, Confirmed
  <2>4. \A v \in Workers : \A e : task'[w] = Idle /\ Processing(v, e)' =>
          Processing(v, e) /\ v # w
    BY <2>1 DEF Stays, Processing, Idle
  <2>5. CASE Creates(w)
    <3>1. \A b \in Bookings : Confirmed(b)' => Confirmed(b)
      BY <2>5 DEF Creates, Elsewhere, Confirmed
    <3> QED BY <2>4, <2>5, <3>1 DEF Creates, OthersInv, OthersServed
  <2>6. CASE Saves(w)
    <3> DEFINE e == task[w].e
    <3>1. /\ e \in Result /\ e \in sent /\ e.b \in Bookings /\ Processing(w, e)
          /\ acked' = acked \cup {e} /\ task'[w] = Idle
      BY <2>6, TaskFacts DEF Saves
    <3>2. ASSUME NEW b \in Bookings \ Mine, Confirmed(b)' PROVE SuccessOf(b) \in acked'
      <4>1. CASE b # e.b
        BY <2>6, <3>1, <3>2, <4>1 DEF Saves, Elsewhere, Confirmed, OthersInv, OthersServed
      <4>2. CASE b = e.b
        <5>1. e.part = "full"
          BY <3>1, <4>2 DEF OthersInv, OtherResults
        <5>2. e.outcome = "success"
          BY <2>6, <3>2, <4>2, <5>1 DEF Saves, Confirmed
        <5>3. e = SuccessOf(b)
          BY <3>1, <4>2, <5>1, <5>2 DEF Result, SuccessOf
        <5> QED BY <3>1, <5>3
      <4> QED BY <4>1, <4>2
    <3>3. ASSUME NEW v \in Workers, NEW x \in Result, Processing(v, x)', x.b \notin Mine
          PROVE  x \notin acked' /\ \A u \in Workers : Processing(u, x)' => u = v
      <4>1. Processing(v, x) /\ v # w
        BY <2>4, <3>1, <3>3
      <4>2. x \notin acked /\ \A u \in Workers : Processing(u, x) => u = v
        BY <3>3, <4>1 DEF OthersInv, OthersServed
      <4>3. x # e
        BY <3>1, <4>1, <4>2
      <4> QED BY <2>4, <3>1, <4>2, <4>3
    <3> QED BY <3>2, <3>3 DEF OthersServed
  <2> QED BY <2>1, <2>2, <2>3, <2>5, <2>6 DEF Goes
<1> QED BY <1>1, <1>2, <1>3, <1>4, RowSteps

LEMMA SlotsKept ==
  ASSUME UInv, SlotStays, NEW w \in Workers, Work(w)
  PROVE  \A b \in Bookings : Exists(b) =>
           booking'[b].slot = booking[b].slot /\ booking'[b].kind = booking[b].kind
<1>1. Goes(w) /\ Grows
  BY WorkGoes, StepKeeps DEF Work, UInv
<1>2. CASE Loads(w) \/ Marks(w)
  BY <1>2 DEF Loads, Marks
<1>3. CASE Creates(w)
  <2>1. ~Exists(task[w].b)
    BY <1>3, Bases DEF Creates, UInv, LockInv, CopyIsCurrent, Exists
  <2> QED BY <1>3, <2>1 DEF Creates, Elsewhere
<1>4. CASE Saves(w)
  <2>1. booking'[task[w].e.b].slot = booking[task[w].e.b].slot
    BY <1>4 DEF Saves, SlotStays
  <2> QED BY <1>1, <1>4, <2>1 DEF Saves, Elsewhere, Grows, SameOrder, Exists
<1> QED BY <1>1, <1>2, <1>3, <1>4 DEF Goes

LEMMA SlotStaysNext ==
  ASSUME UInv, SlotStays, [UNext]_uvars
  PROVE  SlotStays'
<1>1. CASE Reports \/ Rests
  BY <1>1 DEF Reports, Rests, SlotStays
<1>2. CASE Begins
  <2>1. TypeOK
    BY Bases DEF UInv
  <2> QED BY <1>2, <2>1 DEF Begins, SlotStays, TypeOK
<1>3. CASE Refuses
  BY <1>3 DEF Refuses, SlotStays, Stays, Idle
<1>4. ASSUME NEW w \in Workers, Work(w) PROVE SlotStays'
  <2>1. Goes(w) /\ \A v \in Workers : v # w => Stays(v)
    BY <1>4, WorkGoes DEF Work
  <2>2. \A b \in Bookings : Exists(b) => booking'[b].slot = booking[b].slot
    BY <1>4, SlotsKept
  <2>3. ASSUME NEW v \in Workers, v # w \/ Marks(w), task'[v].op \in {"loaded", "ticketed"}
        PROVE  task'[v].bk.slot = booking'[task'[v].e.b].slot
    <3>1. /\ task[v].op \in {"loaded", "ticketed"}
          /\ task'[v].e = task[v].e /\ task'[v].bk = task[v].bk
      BY <2>1, <2>3 DEF Stays, Marks, KeepsRows
    <3>2. PICK t : t = task[v]
      OBVIOUS
    <3>3. task[v].e.b \in Bookings /\ Exists(task[v].e.b)
      BY <3>1, TaskFacts
    <3>4. t.bk.slot = booking[t.e.b].slot
      BY <3>1, <3>2 DEF SlotStays
    <3>5. t.e.b \in Bookings /\ Exists(t.e.b)
      BY <3>2, <3>3
    <3>6. booking'[t.e.b].slot = booking[t.e.b].slot
      BY <2>2, <3>5
    <3> QED BY <3>1, <3>2, <3>4, <3>6
  <2>4. CASE Loads(w)
    <3>1. task'[w].bk.slot = booking'[task'[w].e.b].slot
      BY <2>4 DEF Loads
    <3> QED BY <2>3, <3>1 DEF SlotStays
  <2>5. CASE Creates(w) \/ Saves(w)
    BY <2>3, <2>5 DEF Creates, Saves, Idle, SlotStays
  <2>6. CASE Marks(w)
    BY <2>3, <2>6 DEF SlotStays
  <2> QED BY <2>1, <2>4, <2>5, <2>6 DEF Goes
<1> QED BY <1>1, <1>2, <1>3, <1>4, RowSteps

(* Confirmed bookings stay so, and a goroutine with a success has not been *)
(* there before.                                                           *)
LEMMA OtherKept ==
  ASSUME UInv, OthersInv, NEW w \in Workers, Work(w), NEW b \in Bookings \ Mine, Confirmed(b)
  PROVE  Confirmed(b)'
<1>1. /\ Goes(w) /\ BillInv /\ FullPaid
  BY WorkGoes DEF Work, UInv
<1>2. CASE Loads(w) \/ Marks(w)
  BY <1>2 DEF Loads, Marks, Confirmed
<1>3. CASE Creates(w)
  <2>1. booking[task[w].b].status = "absent"
    BY <1>1, <1>3, Bases DEF Creates, LockInv, CopyIsCurrent
  <2> QED BY <1>1, <1>3, <2>1 DEF Creates, Elsewhere, Confirmed
<1>4. CASE Saves(w) /\ task[w].e.b # b
  BY <1>1, <1>4 DEF Saves, Elsewhere, Confirmed
<1>5. CASE Saves(w) /\ task[w].e.b = b
  <2> DEFINE e == task[w].e
  <2>1. e \in Result /\ e \in sent /\ e.b = b
    BY <1>5, TaskFacts DEF Saves
  <2>2. e.part = "full" /\ \A x \in sent : x.b = b => x = e
    BY <2>1 DEF OthersInv, OtherResults
  <2>3. booking[b].kind # "split"
    BY <1>1, <2>1, <2>2 DEF BillInv, PartsMatch
  <2>4. SuccessOf(b) \in sent
    BY <1>1, <2>3 DEF FullPaid, RowPaid, Confirmed
  <2>5. e.outcome = "success"
    BY <2>2, <2>4 DEF SuccessOf
  <2> QED BY <1>5, <2>1, <2>2, <2>5 DEF Saves, Confirmed
<1> QED BY <1>1, <1>2, <1>3, <1>4, <1>5 DEF Goes

LEMMA NotYetSold ==
  ASSUME Calm, OthersInv, NEW w \in Workers, task[w].op \in {"checked", "loaded", "ticketed"},
         task[w].e.outcome = "success"
  PROVE  ~Confirmed(task[w].e.b)
<1> DEFINE e == task[w].e
<1>1. /\ e \in Result /\ e \in sent /\ e.b \in Bookings /\ Processing(w, e)
      /\ UInv /\ TasksAreGood
  BY CalmFacts, TaskFacts DEF UInv
<1>2. CASE e.b \in Mine
  <2>1. PICK c \in Calls : call[c].at = w
    BY <1>1, <1>2 DEF TasksAreGood, About
  <2>2. Under(c) /\ call[c] \in Call /\ GoodCall(call[c]) /\ CallFits(call[c])
    BY <2>1, SentAt, CalmFacts DEF Under
  <2>3. Handles(w, call[c])
    BY <2>1, <2>2 DEF GoodCall
  <2>4. call[c].op = "pay" /\ e = ResultOf(call[c])
    BY <2>3 DEF Handles
  <2>5. call[c].b = e.b /\ call[c].outcome = "success" /\ call[c].at # "ok"
    BY <2>1, <2>2, <2>4, CallFacts, SentAt
  <2> QED BY <2>2, <2>4, <2>5 DEF CallFits, SuccessFits, Pending, Confirmed
<1>3. CASE e.b \notin Mine
  <2>1. e.part = "full"
    BY <1>1, <1>3 DEF OthersInv, OtherResults
  <2>2. e = SuccessOf(e.b)
    BY <1>1, <2>1 DEF Result, SuccessOf
  <2>3. e \notin acked
    BY <1>1, <1>3 DEF OthersInv, OthersServed
  <2> QED BY <1>1, <1>3, <2>2, <2>3 DEF OthersInv, OthersServed
<1> QED BY <1>2, <1>3

(***************************************************************************)
(* A slot counts its host and the joins that are confirmed; a webhook that *)
(* has loaded the slot has not counted the join it is about.               *)
(***************************************************************************)
Counted(t) == IF t.e.outcome = "success" THEN {t.e.b} ELSE {}
SlotCounts(s) == slot[s].current <= 1 + Cardinality(JoinsOf(s))
CopyCounts(w) ==
  task[w].op \in {"loaded", "ticketed"} =>
    task[w].sl.current <= 1 + Cardinality(JoinsOf(task[w].bk.slot) \ Counted(task[w]))
Players == (\A s \in Slots : SlotCounts(s)) /\ (\A w \in Workers : CopyCounts(w))

PlayersInv == SmoothInv /\ OthersInv /\ (Smooth => Players)

LEMMA CountsMonotone ==
  ASSUME IsFiniteSet(Bookings), NEW T \in SUBSET Bookings, NEW S \in SUBSET T
  PROVE  /\ Cardinality(S) \in Nat /\ Cardinality(T) \in Nat
         /\ Cardinality(S) <= Cardinality(T)
         /\ \A b \in T \ S : Cardinality(S) + 1 <= Cardinality(T)
<1>1. IsFiniteSet(T) /\ IsFiniteSet(S)
  BY FS_Subset
<1>2. Cardinality(S) \in Nat /\ Cardinality(T) \in Nat /\ Cardinality(S) <= Cardinality(T)
  BY <1>1, FS_Subset, FS_CardinalityType
<1>3. ASSUME NEW b \in T \ S PROVE Cardinality(S) + 1 <= Cardinality(T)
  <2>1. Cardinality(S \cup {b}) = Cardinality(S) + 1
    BY <1>1, FS_AddElement
  <2>2. (S \cup {b}) \in SUBSET T
    OBVIOUS
  <2>3. Cardinality(S \cup {b}) <= Cardinality(T)
    BY <1>1, <2>2, FS_Subset
  <2> QED BY <2>1, <2>3
<1> QED BY <1>2, <1>3


LEMMA JoinsKept ==
  ASSUME Calm, OthersInv, NEW w \in Workers, Work(w)
  PROVE  \A s \in Slots : JoinsOf(s) \subseteq JoinsOf(s)'
<1> SUFFICES ASSUME NEW s \in Slots, NEW b \in JoinsOf(s) PROVE b \in JoinsOf(s)'
  OBVIOUS
<1>1. b \in Bookings /\ booking[b].slot = s /\ booking[b].kind = "join" /\ Confirmed(b)
  BY DEF JoinsOf
<1>2. UInv /\ SlotStays /\ Exists(b)
  BY <1>1, CalmFacts DEF OthersInv, Confirmed, Exists
<1>3. booking'[b].slot = s /\ booking'[b].kind = "join"
  BY <1>1, <1>2, SlotsKept
<1>4. Confirmed(b)'
  BY <1>1, <1>2, ConfirmedKept, OtherKept
<1> QED BY <1>1, <1>3, <1>4 DEF JoinsOf

LEMMA JoinsType ==
  ASSUME NEW s PROVE JoinsOf(s) \in SUBSET Bookings /\ JoinsOf(s)' \in SUBSET Bookings
BY DEF JoinsOf

LEMMA CopiesStay ==
  ASSUME UInv, IsFiniteSet(Bookings), \A s \in Slots : JoinsOf(s) \subseteq JoinsOf(s)',
         NEW v \in Workers, Stays(v) \/ Marks(v), CopyCounts(v)
  PROVE  CopyCounts(v)'
<1>0. /\ task'[v].op \in {"loaded", "ticketed"} => task[v].op \in {"loaded", "ticketed"}
      /\ KeepsRows(v)
  BY DEF Stays, Marks, KeepsRows
<1> SUFFICES ASSUME task[v].op \in {"loaded", "ticketed"}
             PROVE  CopyCounts(v)'
  BY <1>0 DEF CopyCounts
<1>1. PICK t : t = task[v]
  OBVIOUS
<1>2. /\ task'[v].e = t.e /\ task'[v].bk = t.bk /\ task'[v].sl = t.sl
      /\ t.bk.slot \in Slots /\ t.sl.current \in Nat
      /\ t.sl.current <= 1 + Cardinality(JoinsOf(t.bk.slot) \ Counted(t))
  BY <1>0, <1>1, TaskFacts DEF CopyCounts, SlotRow, KeepsRows
<1>3. PICK s \in Slots : s = t.bk.slot
  BY <1>2
<1>4. /\ JoinsOf(s) \ Counted(t) \in SUBSET (JoinsOf(s)' \ Counted(t))
      /\ JoinsOf(s)' \ Counted(t) \in SUBSET Bookings
  BY JoinsType
<1> DEFINE A == JoinsOf(s) \ Counted(t)
           B == JoinsOf(s)' \ Counted(t)
<1>5. Cardinality(A) \in Nat /\ Cardinality(B) \in Nat /\ Cardinality(A) <= Cardinality(B)
  <2> HIDE DEF A, B
  <2>1. B \in SUBSET Bookings /\ A \in SUBSET B
    BY <1>4 DEF A, B
  <2> QED BY <2>1, CountsMonotone
<1>6. t.sl.current <= 1 + Cardinality(A)
  BY <1>2, <1>3
<1> HIDE DEF A, B
<1>7. t.sl.current <= 1 + Cardinality(B)
  BY <1>2, <1>5, <1>6
<1>8. t.sl.current <= 1 + Cardinality(JoinsOf(s)' \ Counted(t))
  BY <1>7 DEF B
<1> QED BY <1>2, <1>3, <1>8 DEF CopyCounts, JoinsOf, Counted, Confirmed

LEMMA SlotCountStays ==
  ASSUME UInv, IsFiniteSet(Bookings), NEW s \in Slots, JoinsOf(s) \subseteq JoinsOf(s)',
         slot'[s].current = slot[s].current, SlotCounts(s)
  PROVE  SlotCounts(s)'
<1>1. slot[s].current \in Nat
  BY Bases DEF UInv, TypeOK, SlotRow
<1>2. Cardinality(JoinsOf(s)) \in Nat /\ Cardinality(JoinsOf(s)') \in Nat
      /\ Cardinality(JoinsOf(s)) <= Cardinality(JoinsOf(s)')
  BY JoinsType, CountsMonotone
<1>3. slot'[s].current <= 1 + Cardinality(JoinsOf(s)')
  BY <1>1, <1>2 DEF SlotCounts
<1> QED BY <1>3 DEF SlotCounts, JoinsOf, Confirmed

(* The slot that a webhook saves.                                          *)
LEMMA SavedSlotCounts ==
  ASSUME Calm, OthersInv, IsFiniteSet(Bookings), NEW w \in Workers, Work(w), Saves(w),
         CopyCounts(w), NEW s \in Slots, s = task[w].bk.slot
  PROVE  SlotCounts(s)'
<1>1. PICK t : t = task[w]
  OBVIOUS
<1>2. /\ t.op \in {"loaded", "ticketed"} /\ UInv /\ SlotStays
  BY <1>1, CalmFacts DEF Saves, OthersInv
<1>3. /\ t.e \in Result /\ t.e.b \in Bookings /\ Exists(t.e.b)
      /\ t.bk.slot \in Slots /\ t.sl.current \in Nat /\ t.bk.kind \in AllKinds
      /\ t.sl.current <= 1 + Cardinality(JoinsOf(t.bk.slot) \ Counted(t))
  BY <1>1, <1>2, TaskFacts DEF CopyCounts, SlotRow
<1>4. s = t.bk.slot
  BY <1>1
<1>5. /\ slot'[s].current \in
           IF t.e.part = "full" /\ t.e.outcome = "success"
           THEN CASE t.bk.kind = "join" -> {t.sl.current + 1}
                  [] t.bk.kind = "host" -> {1}
                  [] OTHER -> {t.sl.current}
           ELSE {t.sl.current}
      /\ booking'[t.e.b].slot = s /\ booking'[t.e.b].kind = t.bk.kind
      /\ t.e.part = "full" =>
           booking'[t.e.b].status = IF t.e.outcome = "success" THEN "confirmed" ELSE "failed"
  BY <1>1, <1>4 DEF Saves
<1> DEFINE A == JoinsOf(s) \ Counted(t)
           B == JoinsOf(s)'
<1>6. A \in SUBSET B /\ B \in SUBSET Bookings
  BY JoinsKept, JoinsType
<1>7. t.bk.kind = "join" /\ t.e.part = "full" /\ t.e.outcome = "success" => t.e.b \in B \ A
  <2> SUFFICES ASSUME t.bk.kind = "join", t.e.part = "full", t.e.outcome = "success"
               PROVE  t.e.b \in B \ A
    OBVIOUS
  <2>1. t.e.b \in B
    BY <1>3, <1>5 DEF JoinsOf, Confirmed
  <2>2. t.e.b \notin A
    BY DEF Counted
  <2> QED BY <2>1, <2>2
<1>8. t.sl.current <= 1 + Cardinality(A)
  BY <1>3, <1>4
<1> HIDE DEF A, B
<1>9. /\ Cardinality(A) \in Nat /\ Cardinality(B) \in Nat /\ Cardinality(A) <= Cardinality(B)
      /\ \A b \in B \ A : Cardinality(A) + 1 <= Cardinality(B)
  BY <1>6, CountsMonotone
<1>10. slot'[s].current <= 1 + Cardinality(B)
  <2>1. CASE t.bk.kind = "join" /\ t.e.part = "full" /\ t.e.outcome = "success"
    <3>1. slot'[s].current = t.sl.current + 1 /\ Cardinality(A) + 1 <= Cardinality(B)
      BY <1>5, <1>7, <1>9, <2>1
    <3> QED BY <1>3, <1>8, <1>9, <3>1
  <2>2. CASE ~(t.bk.kind = "join" /\ t.e.part = "full" /\ t.e.outcome = "success")
    <3>1. slot'[s].current \in {1, t.sl.current}
      BY <1>5, <2>2
    <3> QED BY <1>3, <1>8, <1>9, <3>1
  <2> QED BY <2>1, <2>2
<1>11. slot'[s].current <= 1 + Cardinality(JoinsOf(s)')
  BY <1>10 DEF B
<1> QED BY <1>11 DEF SlotCounts, JoinsOf, Confirmed

LEMMA LoadedCopyCounts ==
  ASSUME Calm, OthersInv, NEW w \in Workers, Loads(w), \A s \in Slots : SlotCounts(s)
  PROVE  CopyCounts(w)'
<1>1. PICK e : e = task[w].e
  OBVIOUS
<1>2. /\ task'[w] = [op |-> "loaded", e |-> e, bk |-> booking[e.b], sl |-> slot[booking[e.b].slot]]
      /\ UNCHANGED <<booking, slot, acked>> /\ task[w].op = "checked"
  BY <1>1 DEF Loads
<1>3. e.b \in Bookings /\ Exists(e.b)
  BY <1>1, <1>2, CalmFacts, TaskFacts
<1>4. booking[e.b].slot \in Slots
  BY <1>3, CalmFacts, Bases DEF UInv, ForeignKeys, Exists
<1>5. PICK s \in Slots : s = booking[e.b].slot
  BY <1>4
<1>6. PICK t : t = task'[w]
  OBVIOUS
<1>7. t.bk.slot = s /\ t.sl = slot[s] /\ t.e = e
  BY <1>2, <1>5, <1>6
<1>8. JoinsOf(s) \ Counted(t) = JoinsOf(s)
  BY <1>1, <1>2, <1>7, NotYetSold DEF Counted, JoinsOf
<1>9. t.sl.current <= 1 + Cardinality(JoinsOf(t.bk.slot) \ Counted(t))
  BY <1>7, <1>8 DEF SlotCounts
<1> QED BY <1>2, <1>6, <1>9 DEF CopyCounts, JoinsOf, Counted, Confirmed

LEMMA PlayersWork ==
  ASSUME Calm, OthersInv, IsFiniteSet(Bookings), NEW w \in Workers, Work(w), Players
  PROVE  Players'
<1>1. /\ Goes(w) /\ UInv /\ \A v \in Workers : v # w => task'[v] = task[v]
  BY CalmFacts, WorkFacts DEF Stays
<1>2. \A s \in Slots : JoinsOf(s) \subseteq JoinsOf(s)'
  BY JoinsKept
<1>3. \A v \in Workers : v # w => CopyCounts(v)'
  BY <1>1, <1>2, CopiesStay DEF Players, Stays
<1>4. ASSUME NEW s \in Slots, slot'[s].current = slot[s].current PROVE SlotCounts(s)'
  BY <1>1, <1>2, <1>4, SlotCountStays DEF Players
<1>5. CASE Loads(w)
  <2>1. CopyCounts(w)'
    BY <1>5, LoadedCopyCounts DEF Players
  <2>2. \A s \in Slots : SlotCounts(s)'
    BY <1>4, <1>5 DEF Loads
  <2> QED BY <1>3, <2>1, <2>2 DEF Players
<1>6. CASE Marks(w)
  <2>1. CopyCounts(w)'
    BY <1>1, <1>2, <1>6, CopiesStay DEF Players
  <2>2. \A s \in Slots : SlotCounts(s)'
    BY <1>4, <1>6 DEF Marks
  <2> QED BY <1>3, <2>1, <2>2 DEF Players
<1>7. CASE Creates(w)
  <2>1. CopyCounts(w)'
    BY <1>7 DEF Creates, Idle, CopyCounts
  <2>2. \A s \in Slots : SlotCounts(s)'
    BY <1>4, <1>7 DEF Creates
  <2> QED BY <1>3, <2>1, <2>2 DEF Players
<1>8. CASE Saves(w)
  <2>1. CopyCounts(w)'
    BY <1>8 DEF Saves, Idle, CopyCounts
  <2>2. ASSUME NEW s \in Slots PROVE SlotCounts(s)'
    <3>1. CASE s # task[w].bk.slot
      BY <1>4, <1>8, <3>1 DEF Saves
    <3>2. CASE s = task[w].bk.slot
      BY <1>8, <3>2, SavedSlotCounts DEF Players
    <3> QED BY <3>1, <3>2
  <2> QED BY <1>3, <2>1, <2>2 DEF Players
<1> QED BY <1>1, <1>5, <1>6, <1>7, <1>8 DEF Goes

LEMMA PlayersNext ==
  ASSUME PlayersInv, IsFiniteSet(Bookings), "retry" \notin Hazards, [UNext]_uvars
  PROVE  PlayersInv'
<1>1. SmoothInv /\ UInv /\ OthersInv
  BY DEF PlayersInv, SmoothInv
<1>2. SmoothInv' /\ OthersInv'
  BY <1>1, SmoothNext, OthersResultsNext, OthersServedNext, SlotStaysNext DEF OthersInv
<1>3. ASSUME Smooth' PROVE Players'
  <2>1. Smooth /\ Players /\ Calm
    BY <1>1, <1>3, SmoothSteps DEF PlayersInv, SmoothInv, Calm
  <2>2. ASSUME UNCHANGED <<slot, booking>>,
               \A w \in Workers : task'[w].op \in {"loaded", "ticketed"} => task'[w] = task[w]
        PROVE  Players'
    <3>1. \A s \in Slots : SlotCounts(s)'
      BY <2>1, <2>2 DEF Players, SlotCounts, JoinsOf, Confirmed
    <3>2. \A w \in Workers : CopyCounts(w)'
      <4> SUFFICES ASSUME NEW w \in Workers, task'[w].op \in {"loaded", "ticketed"}
                   PROVE  CopyCounts(w)'
        BY DEF CopyCounts
      <4>1. \A s \in Slots : JoinsOf(s) \subseteq JoinsOf(s)'
        BY <2>2 DEF JoinsOf, Confirmed
      <4> QED BY <1>1, <2>1, <2>2, <4>1, CopiesStay DEF Players, Stays
    <3> QED BY <3>1, <3>2 DEF Players
  <2>3. CASE Reports \/ Rests
    BY <2>2, <2>3 DEF Reports, Rests
  <2>4. CASE Refuses
    BY <2>2, <2>4 DEF Refuses, Stays, Idle
  <2>5. CASE Begins
    <3>1. TypeOK
      BY <1>1, Bases DEF UInv
    <3>2. \A w \in Workers : task'[w].op \in {"loaded", "ticketed"} => task'[w] = task[w]
      BY <2>5, <3>1 DEF Begins, TypeOK
    <3> QED BY <2>2, <2>5, <3>2 DEF Begins
  <2>6. CASE \E w \in Workers : Work(w)
    BY <1>1, <2>1, <2>6, PlayersWork
  <2> QED BY <1>1, <2>3, <2>4, <2>5, <2>6, RowSteps
<1> QED BY <1>2, <1>3 DEF PlayersInv

LEMMA PlayersInit == ASSUME UInit, IsFiniteSet(Bookings) PROVE PlayersInv
<1>1. SmoothInv
  BY SmoothInit
<1>2. /\ sent = {} /\ acked = {} /\ \A w \in Workers : task[w] = Idle
      /\ \A b \in Bookings : booking[b].status = "absent"
      /\ \A s \in Slots : slot[s].current = 0
  BY DEF UInit, SInit, Init, Absent
<1>3. OthersInv
  BY <1>2 DEF OthersInv, OtherResults, OthersServed, SlotStays, Confirmed, Processing, Idle
<1>4. \A s \in Slots : SlotCounts(s)
  <2> SUFFICES ASSUME NEW s \in Slots PROVE SlotCounts(s)
    OBVIOUS
  <2>1. Cardinality(JoinsOf(s)) \in Nat
    BY JoinsType, FS_Subset, FS_CardinalityType
  <2> QED BY <1>2, <2>1 DEF SlotCounts
<1>5. \A w \in Workers : CopyCounts(w)
  BY <1>2 DEF CopyCounts, Idle
<1> QED BY <1>1, <1>3, <1>4, <1>5 DEF PlayersInv, Players

(* A slot whose match was opened by a booking never counts a player nobody *)
(* paid for.  The page posts its results without an event id, so           *)
(* HandlePaymentWebhook does not find them recorded: what keeps a payment  *)
(* from being counted twice is that it is posted once.  A webhook saves    *)
(* the slot row it loaded plus one; when others have counted meanwhile,    *)
(* their players are lost, which only makes the number smaller.            *)
(* The customers that have an attempt fail may not try again ("retry"):    *)
(* a failure delivered after the success would take the booking of a       *)
(* counted player back.                                                    *)
THEOREM NoPlayerCountedTwice ==
  ASSUME IsFiniteSet(Bookings), "retry" \notin Hazards
  PROVE  USpec => []NoPaidPlayerTwice
<1>1. UInit => PlayersInv
  BY PlayersInit
<1>2. PlayersInv /\ [UNext]_uvars => PlayersInv'
  BY PlayersNext
<1>3. PlayersInv => NoPaidPlayerTwice
  BY DEF PlayersInv, Players, SlotCounts, NoPaidPlayerTwice, NoPhantomPlayer
<1> QED BY <1>1, <1>2, <1>3, PTL DEF USpec
==============================================================================
