--------------------------- MODULE AdminScreenProofs ---------------------------
(***************************************************************************)
(* Proofs about AdminScreen, for any slots, dates, bounds and any number   *)
(* of orders and loads under way.                                          *)
(***************************************************************************)
EXTENDS AdminScreen, SequenceTheorems, TLAPS

(***************************************************************************)
(* The type invariant in a form that is inductive: what is under way is a  *)
(* sequence, what is shown a function.                                     *)
(***************************************************************************)
Shown == UNION {[S -> Row] : S \in SUBSET Slots}

RowsOK == row \in [Slots -> Row] /\ maint \in BOOLEAN /\ saving \subseteq Save
            /\ visit \in [Slots -> {"none", "admitted", "emitted"}]
PageOK == /\ date \in Dates /\ status \in BOOLEAN /\ list \in Shown
          /\ ticked \subseteq Slots /\ meant \subseteq Slots /\ dialog \in BOOLEAN
          /\ silent \subseteq Slots
CountsOK == /\ acts \in Nat /\ orders \in Nat /\ troubles \in Nat
            /\ orders + acts + troubles <= MaxActs
OrdersOK == order \in [Calls -> Order \cup {Free}]
LoadsOK == loads \in Seq(Load) /\ Len(loads) <= MaxLoads
EventsOK == events \in Seq(Event)

Types == RowsOK /\ PageOK /\ CountsOK /\ OrdersOK /\ LoadsOK /\ EventsOK
-----------------------------------------------------------------------------
(* What is shown, asked and answered.                                      *)

LEMMA ShownOf ==
  ASSUME NEW S \in SUBSET Slots, NEW f \in [S -> Row]
  PROVE  f \in Shown
BY DEF Shown

LEMMA ShownIs ==
  ASSUME NEW f \in Shown
  PROVE  DOMAIN f \subseteq Slots /\ f \in [DOMAIN f -> Row]
BY DEF Shown

LEMMA TypesImplyOK == Types => ATypeOK
<1> SUFFICES ASSUME Types PROVE ATypeOK
  OBVIOUS
<1>1. DOMAIN list \subseteq Slots /\ \A s \in DOMAIN list : list[s] \in Row
  BY ShownIs DEF Types, PageOK
<1>2. \A i \in DOMAIN loads : loads[i] \in Load
  BY DEF Types, LoadsOK
<1>3. \A i \in DOMAIN events : events[i] \in Event
  BY DEF Types, EventsOK
<1>4. acts \in 0..MaxActs /\ orders \in 0..MaxActs /\ troubles \in 0..MaxActs
  BY AdminScreenAssumption DEF Types, CountsOK
<1>5. \A c \in Calls : order[c] = Free \/ order[c] \in Order
  BY DEF Types, OrdersOK
<1> QED BY <1>1, <1>2, <1>3, <1>4, <1>5 DEF Types, ATypeOK, RowsOK, PageOK, LoadsOK

LEMMA LoadKinds ==
  ASSUME NEW l \in Load
  PROVE  /\ l.date \in Dates /\ l.at \in {"asked", "rows", "shown", "status"}
         /\ l.at = "rows" => l.rows \in Shown /\ l.stale \subseteq Slots
         /\ l.at = "status" => l.on \in BOOLEAN
BY DEF Load, Shown

LEMMA LoadOf ==
  ASSUME NEW d \in Dates
  PROVE  /\ [date |-> d, at |-> "asked"] \in Load /\ [date |-> d, at |-> "shown"] \in Load
         /\ \A f \in Shown, S \in SUBSET Slots :
              [date |-> d, at |-> "rows", rows |-> f, stale |-> S] \in Load
         /\ \A on \in BOOLEAN : [date |-> d, at |-> "status", on |-> on] \in Load
BY DEF Load, Shown

LEMMA OrderKinds ==
  ASSUME NEW o \in Order
  PROVE  /\ o # Free /\ o.date \in Dates
         /\ o.op \in SlotOps \cup {"bulk_lock", "bulk_price", "maintenance",
                                   "generate", "multiplier", "other"}
         /\ o.at \in {"sent", "ok", "refused", "loaded"}
         /\ o.op \in SlotOps => o.s \in Slots
         /\ o.at = "loaded" => o.op \in SlotOps /\ o.copy \in Row
         /\ o.op \in {"bulk_lock", "bulk_price"} => o.ids \subseteq Slots /\ o.on \in BOOLEAN
         /\ o.op = "maintenance" => o.on \in BOOLEAN
<1>1. \A x \in Order : x # Free
  BY DEF Order, Free, SlotOps
<1> QED BY <1>1 DEF Order, SlotOps

\* An order that is not loaded can go on to any answer.
LEMMA OrderMoves ==
  ASSUME NEW o \in Order, o.at \in {"sent", "ok", "refused"},
         NEW a \in {"sent", "ok", "refused"}
  PROVE  [o EXCEPT !.at = a] \in Order
BY DEF Order, SlotOps

LEMMA RemoveAtProperties ==
  ASSUME NEW S, NEW q \in Seq(S), NEW i \in 1..Len(q)
  PROVE  /\ RemoveAt(q, i) \in Seq(S) /\ Len(RemoveAt(q, i)) = Len(q) - 1
         /\ \A j \in 1..(Len(q) - 1) :
              RemoveAt(q, i)[j] = IF j < i THEN q[j] ELSE q[j + 1]
<1> DEFINE l == SubSeq(q, 1, i - 1)
           r == SubSeq(q, i + 1, Len(q))
<1>1. Len(q) \in Nat /\ \A j \in 1..Len(q) : q[j] \in S
  BY LenProperties, ElementOfSeq
<1>2. l \in Seq(S) /\ Len(l) = i - 1 /\ \A j \in 1..(i - 1) : l[j] = q[j]
  BY <1>1, SubSeqProperties
<1>3. r \in Seq(S) /\ Len(r) = Len(q) - i /\ \A j \in 1..(Len(q) - i) : r[j] = q[i + j]
  BY <1>1, SubSeqProperties
<1> HIDE DEF l, r
<1>4. /\ l \o r \in Seq(S) /\ Len(l \o r) = Len(q) - 1
      /\ \A j \in 1..(Len(q) - 1) :
           (l \o r)[j] = IF j <= i - 1 THEN l[j] ELSE r[j - (i - 1)]
  BY <1>1, <1>2, <1>3, ConcatProperties
<1>5. ASSUME NEW j \in 1..(Len(q) - 1)
      PROVE  (l \o r)[j] = IF j < i THEN q[j] ELSE q[j + 1]
  <2>1. CASE j < i
    <3>1. j \in 1..(i - 1)
      BY <2>1
    <3> QED BY <1>2, <1>4, <2>1, <3>1
  <2>2. CASE ~(j < i)
    <3>1. j - (i - 1) \in 1..(Len(q) - i) /\ i + (j - (i - 1)) = j + 1 /\ ~(j <= i - 1)
      BY <1>1, <2>2
    <3>2. r[j - (i - 1)] = q[j + 1]
      BY <1>3, <3>1
    <3> QED BY <1>4, <2>2, <3>1, <3>2
  <2> QED BY <2>1, <2>2
<1> QED BY <1>4, <1>5 DEF RemoveAt, l, r
-----------------------------------------------------------------------------
(* Types: one lemma for the steps of each part.                            *)

LEMMA InitTypes == AInit => Types
<1> SUFFICES ASSUME AInit PROVE Types
  OBVIOUS
<1>1. list \in Shown
  <2>1. list \in [{} -> Row]
    BY DEF AInit
  <2> QED BY <2>1, ShownOf
<1>2. RowsOK /\ PageOK
  <2>1. \A s \in Slots : (DateOf[s] \in Made) \in BOOLEAN
    OBVIOUS
  <2>2. row \in [Slots -> Row]
    BY <2>1 DEF AInit, Row
  <2> QED BY <1>1, <2>2, AdminScreenAssumption DEF AInit, RowsOK, PageOK
<1>3. CountsOK /\ OrdersOK /\ EventsOK
  BY AdminScreenAssumption DEF AInit, CountsOK, OrdersOK, EventsOK
<1>4. [date |-> First, at |-> "asked"] \in Load
  BY LoadOf, AdminScreenAssumption
<1>5. LoadsOK
  BY <1>4, AdminScreenAssumption DEF AInit, LoadsOK
<1> QED BY <1>2, <1>3, <1>5 DEF Types

LEMMA AdminSlotsShown ==
  ASSUME Types, NEW d \in Dates
  PROVE  AdminSlots(d) \in Shown
<1> DEFINE S == {x \in Slots : row[x].made /\ DateOf[x] = d}
<1>1. AdminSlots(d) \in [S -> Row]
  BY DEF AdminSlots, Types, RowsOK
<1> QED BY <1>1, ShownOf

\* One more load.
LEMMA OneMore ==
  ASSUME LoadsOK, NEW d \in Dates, CanLoad
  PROVE  /\ WithLoad(d) \in Seq(Load) /\ Len(WithLoad(d)) = Len(loads) + 1
         /\ Len(WithLoad(d)) <= MaxLoads
         /\ \A j \in 1..Len(loads) : WithLoad(d)[j] = loads[j]
         /\ WithLoad(d)[Len(loads) + 1] = [date |-> d, at |-> "asked"]
<1>1. [date |-> d, at |-> "asked"] \in Load
  BY LoadOf
<1>2. Len(loads) \in Nat
  BY DEF LoadsOK
<1> QED BY <1>1, <1>2, AppendProperties, AdminScreenAssumption DEF WithLoad, CanLoad, LoadsOK

\* A load goes on to its next stage.
LEMMA NextStage ==
  ASSUME LoadsOK, NEW i \in DOMAIN loads, NEW l \in Load, loads' = [loads EXCEPT ![i] = l]
  PROVE  /\ LoadsOK' /\ Len(loads') = Len(loads) /\ DOMAIN loads' = DOMAIN loads
         /\ \A j \in DOMAIN loads : loads'[j] = IF j = i THEN l ELSE loads[j]
<1>1. DOMAIN loads = 1..Len(loads) /\ Len(loads) \in Nat
  BY DEF LoadsOK
<1>2. /\ loads' \in Seq(Load) /\ Len(loads') = Len(loads)
      /\ \A j \in 1..Len(loads) : loads'[j] = IF j = i THEN l ELSE loads[j]
  BY <1>1, ExceptSeq DEF LoadsOK
<1> QED BY <1>1, <1>2 DEF LoadsOK

LEMMA OneLess ==
  ASSUME LoadsOK, NEW i \in DOMAIN loads, loads' = RemoveAt(loads, i)
  PROVE  /\ LoadsOK' /\ Len(loads') = Len(loads) - 1
         /\ DOMAIN loads' = 1..(Len(loads) - 1)
         /\ \A j \in 1..(Len(loads) - 1) :
              loads'[j] = IF j < i THEN loads[j] ELSE loads[j + 1]
<1>1. DOMAIN loads = 1..Len(loads) /\ Len(loads) \in Nat /\ MaxLoads \in Nat
  BY AdminScreenAssumption DEF LoadsOK
<1>2. /\ loads' \in Seq(Load) /\ Len(loads') = Len(loads) - 1
      /\ \A j \in 1..(Len(loads) - 1) :
           loads'[j] = IF j < i THEN loads[j] ELSE loads[j + 1]
  BY <1>1, RemoveAtProperties DEF LoadsOK
<1> QED BY <1>1, <1>2 DEF LoadsOK

LEMMA OneMoreEvent ==
  ASSUME EventsOK, NEW e \in Event, events' = Append(events, e)
  PROVE  /\ EventsOK' /\ Len(events') = Len(events) + 1
         /\ \A j \in 1..Len(events) : events'[j] = events[j]
         /\ events'[Len(events) + 1] = e
BY AppendProperties DEF EventsOK

LEMMA LoadSteps ==
  ASSUME Types, NEW i \in DOMAIN loads,
         AnswerLoad(i) \/ ShowRows(i) \/ ShowStatus(i) \/ LoadLost(i)
  PROVE  Types'
<1>1. loads[i] \in Load /\ LoadsOK /\ CountsOK
  BY DEF Types, LoadsOK
<1>2. CASE AnswerLoad(i)
  <2> DEFINE l == IF loads[i].at = "asked"
                  THEN [date |-> loads[i].date, at |-> "rows",
                        rows |-> AdminSlots(loads[i].date), stale |-> {}]
                  ELSE [date |-> loads[i].date, at |-> "status", on |-> maint]
  <2>1. l \in Load
    BY <1>1, LoadKinds, LoadOf, AdminSlotsShown DEF Types, RowsOK
  <2>2. loads' = [loads EXCEPT ![i] = l]
    BY <1>2 DEF AnswerLoad
  <2>3. LoadsOK'
    BY <1>1, <2>1, <2>2, NextStage
  <2> QED
    BY <1>2, <2>3 DEF AnswerLoad, Types, RowsOK, PageOK, CountsOK, OrdersOK, EventsOK,
                      server, page
<1>3. CASE ShowRows(i)
  <2> DEFINE l == [date |-> loads[i].date, at |-> "shown"]
  <2>1. l \in Load /\ loads[i].rows \in Shown /\ loads[i].stale \subseteq Slots
    BY <1>1, <1>3, LoadKinds, LoadOf DEF ShowRows
  <2>2. loads' = [loads EXCEPT ![i] = l]
    BY <1>3 DEF ShowRows
  <2>3. LoadsOK'
    BY <1>1, <2>1, <2>2, NextStage
  <2> QED
    BY <1>3, <2>1, <2>3 DEF ShowRows, Types, RowsOK, PageOK, CountsOK, OrdersOK, EventsOK,
                      server
<1>4. CASE ShowStatus(i)
  <2>1. LoadsOK'
    BY <1>1, <1>4, OneLess DEF ShowStatus
  <2>2. loads[i].on \in BOOLEAN
    BY <1>1, <1>4, LoadKinds DEF ShowStatus
  <2> QED
    BY <1>4, <2>1, <2>2 DEF ShowStatus, Types, RowsOK, PageOK, CountsOK, OrdersOK, EventsOK,
                      server
<1>5. CASE LoadLost(i)
  <2>1. LoadsOK'
    BY <1>1, <1>5, OneLess DEF LoadLost
  <2>2. CountsOK'
    BY <1>1, <1>5, AdminScreenAssumption DEF LoadLost, Trouble, MayAct, CountsOK, server
  <2> QED
    BY <1>5, <2>1, <2>2 DEF LoadLost, Types, RowsOK, PageOK, OrdersOK, EventsOK,
                      server, page
<1> QED BY <1>2, <1>3, <1>4, <1>5

LEMMA EventKinds ==
  ASSUME NEW e \in Event
  PROVE  /\ e.type \in {"slot", "available", "reload"}
         /\ e.type \in {"slot", "available"} => e.s \in Slots
         /\ e.type = "slot" => e.sl \in Row
BY DEF Event

LEMMA DispatchedShown ==
  ASSUME Types, NEW e \in Event
  PROVE  Dispatched(e) \in Shown /\ DOMAIN Dispatched(e) = DOMAIN list
<1>1. list \in Shown
  BY DEF Types, PageOK
<1>2. DOMAIN list \subseteq Slots /\ list \in [DOMAIN list -> Row]
  BY <1>1, ShownIs
<1>3. Dispatched(e) \in [DOMAIN list -> Row]
  BY <1>2, EventKinds DEF Dispatched, Row
<1> QED BY <1>2, <1>3, ShownOf

LEMMA EventSteps ==
  ASSUME Types, HandleWSEvent
  PROVE  /\ Types' /\ Head(events) \in Event /\ Len(events') = Len(events) - 1
         /\ \A j \in 1..Len(events') : events'[j] = events[j + 1]
<1>1. /\ Head(events) \in Event /\ EventsOK' /\ Len(events') = Len(events) - 1
      /\ \A j \in 1..Len(events') : events'[j] = events[j + 1]
  BY HeadTailProperties DEF HandleWSEvent, Types, EventsOK
<1>2. list' \in Shown
  BY <1>1, DispatchedShown DEF HandleWSEvent
<1>3. LoadsOK'
  <2>1. CASE Head(events).type = "reload"
    BY <2>1, OneMore, AdminScreenAssumption DEF HandleWSEvent, Types, LoadsOK
  <2>2. CASE Head(events).type # "reload"
    BY <2>2 DEF HandleWSEvent, Types, LoadsOK
  <2> QED BY <2>1, <2>2
<1> QED
  BY <1>1, <1>2, <1>3 DEF HandleWSEvent, Types, RowsOK, PageOK, CountsOK, OrdersOK, server
\* Ticks, dialogs and dates.
LEMMA PageSteps ==
  ASSUME Types,
         \/ OpenPrice \/ ClosePrice \/ \E d \in Dates : SelectDate(d)
         \/ \E all \in BOOLEAN : SelectAll(all) \/ \E s \in Slots : ToggleSlotSelect(s)
  PROVE  Types'
<1>1. DOMAIN list \subseteq Slots
  BY ShownIs DEF Types, PageOK
<1>2. CASE OpenPrice \/ ClosePrice \/ \E all \in BOOLEAN : SelectAll(all)
  BY <1>1, <1>2 DEF OpenPrice, ClosePrice, SelectAll, Types, RowsOK, PageOK, CountsOK,
                    OrdersOK, LoadsOK, EventsOK, server
<1>3. CASE \E s \in Slots : ToggleSlotSelect(s)
  BY <1>1, <1>3 DEF ToggleSlotSelect, Types, RowsOK, PageOK, CountsOK,
                    OrdersOK, LoadsOK, EventsOK, server
<1>4. ASSUME NEW d \in Dates, SelectDate(d) PROVE Types'
  <2>1. LoadsOK'
    BY <1>4, OneMore DEF SelectDate, Types, LoadsOK
  <2> QED
    BY <1>4, <2>1 DEF SelectDate, Types, RowsOK, PageOK, CountsOK, OrdersOK, EventsOK, server
<1> QED BY <1>2, <1>3, <1>4

(***************************************************************************)
(* What the administrator can order: of which kind, and what the page must *)
(* have shown.                                                             *)
(***************************************************************************)
Ordered(o) ==
  /\ o \in Order /\ o.at = "sent" /\ Clicks
  /\ dialog <=> o.op = "bulk_price"
  /\ o.op = "bulk_price" => o.ids = ticked

LEMMA ClicksOrder ==
  ASSUME Types, NEW c \in Calls, Click(c)
  PROVE  \E o : Ordered(o) /\ Send(c, o)
<1>0. DOMAIN list \subseteq Slots /\ date \in Dates /\ ticked \subseteq Slots
      /\ status \in BOOLEAN /\ dialog \in BOOLEAN
  BY ShownIs DEF Types, PageOK
<1>1. \A s \in DOMAIN list, op \in SlotOps : SlotOrder(op, s) \in Order
  BY <1>0 DEF SlotOrder, Order
<1>2. CASE OrderSlot(c)
  <2>1. PICK s \in DOMAIN list, op \in SlotOps : Send(c, SlotOrder(op, s))
    BY <1>2 DEF OrderSlot, SlotOps
  <2>2. Ordered(SlotOrder(op, s))
    BY <1>1, <1>2 DEF Ordered, OrderSlot, SlotOrder, SlotOps
  <2> QED BY <2>1, <2>2
<1>3. CASE SubmitPrice(c)
  <2> DEFINE o == [op |-> "bulk_price", ids |-> ticked, on |-> FALSE, date |-> date,
                   at |-> "sent"]
  <2>1. o \in Order
    BY <1>0 DEF Order
  <2>2. Ordered(o) /\ Send(c, o)
    BY <1>3, <2>1 DEF Ordered, SubmitPrice
  <2> QED BY <2>2
<1>4. CASE ToggleMaintenance(c)
  <2> DEFINE o == [op |-> "maintenance", on |-> ~status, date |-> date, at |-> "sent"]
  <2>1. o \in Order
    BY <1>0 DEF Order
  <2>2. Ordered(o) /\ Send(c, o)
    BY <1>4, <2>1 DEF Ordered, ToggleMaintenance
  <2> QED BY <2>2
<1>5. ASSUME NEW on \in BOOLEAN, BulkLockToggle(c, on)
      PROVE  \E o : Ordered(o) /\ Send(c, o)
  <2> DEFINE o == [op |-> "bulk_lock", ids |-> ticked, on |-> on, date |-> date, at |-> "sent"]
  <2>1. o \in Order
    BY <1>0 DEF Order
  <2>2. Ordered(o) /\ Send(c, o)
    BY <1>5, <2>1 DEF Ordered, BulkLockToggle
  <2> QED BY <2>2
<1>6. CASE OrderRest(c)
  <2>1. PICK op \in {"generate", "multiplier", "other"} :
          Send(c, [op |-> op, date |-> date, at |-> "sent"])
    BY <1>6 DEF OrderRest
  <2>2. [op |-> op, date |-> date, at |-> "sent"] \in Order
    BY <1>0 DEF Order
  <2>3. Ordered([op |-> op, date |-> date, at |-> "sent"])
    BY <1>6, <2>2 DEF Ordered, OrderRest
  <2> QED BY <2>1, <2>3
<1> QED BY <1>2, <1>3, <1>4, <1>5, <1>6 DEF Click

\* One order changes.
LEMMA OrderChanges ==
  ASSUME OrdersOK, NEW c \in Calls, NEW o \in Order \cup {Free},
         order' = [order EXCEPT ![c] = o]
  PROVE  OrdersOK' /\ \A d \in Calls : order'[d] = IF d = c THEN o ELSE order[d]
BY DEF OrdersOK

LEMMA ClickTypes ==
  ASSUME Types, NEW c \in Calls, Click(c)
  PROVE  Types'
<1>1. PICK o : Ordered(o) /\ Send(c, o)
  BY ClicksOrder
<1>2. OrdersOK'
  BY <1>1, OrderChanges DEF Ordered, Send, Types
<1>3. CountsOK'
  BY <1>1, AdminScreenAssumption DEF Send, MayAct, Types, CountsOK, server
<1> QED
  BY <1>1, <1>2, <1>3 DEF Send, Types, RowsOK, PageOK, LoadsOK, EventsOK, server, page

LEMMA UnderWay ==
  ASSUME OrdersOK, NEW c \in Calls, order[c].at # "none"
  PROVE  order[c] \in Order
BY DEF OrdersOK, Free

LEMMA LoadSlotTypes ==
  ASSUME Types, NEW c \in Calls, LoadSlot(c)
  PROVE  Types'
<1> DEFINE o == order[c]
           l == [op |-> o.op, s |-> o.s, date |-> o.date, at |-> "loaded", copy |-> row[o.s]]
<1>1. o \in Order /\ o.at = "sent" /\ o.op \in SlotOps
  BY UnderWay DEF LoadSlot, Types
<1>2. o.s \in Slots /\ o.date \in Dates
  BY <1>1, OrderKinds
<1>3. row[o.s] \in Row
  BY <1>2 DEF Types, RowsOK
<1>4. l \in Order
  BY <1>1, <1>2, <1>3 DEF Order
<1>5. [o EXCEPT !.at = "refused"] \in Order
  BY <1>1, OrderMoves
<1>6. OrdersOK'
  <2>1. \/ order' = [order EXCEPT ![c] = l]
        \/ order' = [order EXCEPT ![c] = [o EXCEPT !.at = "refused"]]
    BY DEF LoadSlot
  <2> HIDE DEF l
  <2> QED BY <1>4, <1>5, <2>1, OrderChanges DEF Types
<1> QED
  BY <1>6 DEF LoadSlot, Types, RowsOK, PageOK, CountsOK, LoadsOK, EventsOK, server, page

LEMMA SaveSlotTypes ==
  ASSUME Types, NEW c \in Calls, SaveSlot(c)
  PROVE  Types' /\ order[c] \in Order /\ Edited(order[c]) \in Row
<1> DEFINE o == order[c]
           a == [op |-> o.op, s |-> o.s, date |-> o.date, at |-> "ok"]
<1>1. o \in Order /\ o.at = "loaded"
  BY UnderWay DEF SaveSlot, Types
<1>2. o.s \in Slots /\ o.date \in Dates /\ o.op \in SlotOps /\ o.copy \in Row
  BY <1>1, OrderKinds
<1>3. Edited(o) \in Row
  BY <1>2 DEF Edited, Row, SlotOps
<1>4. a \in Order
  BY <1>2 DEF Order
<1>5. OrdersOK'
  <2>1. order' = [order EXCEPT ![c] = a]
    BY DEF SaveSlot
  <2> HIDE DEF a
  <2> QED BY <1>4, <2>1, OrderChanges DEF Types
<1>6. Emitted(o) \in Seq(Event)
  <2>1. [type |-> "slot", s |-> o.s, sl |-> Edited(o)] \in Event
    BY <1>2, <1>3 DEF Event
  <2>2. [type |-> "available", s |-> o.s] \in Event
    BY <1>2 DEF Event
  <2> QED BY <2>1, <2>2, <1>2 DEF Emitted, SlotOps
<1>7. EventsOK'
  BY <1>6, ConcatProperties DEF SaveSlot, Types, EventsOK
<1>8. RowsOK'
  BY <1>2, <1>3 DEF SaveSlot, Types, RowsOK
<1> QED
  BY <1>1, <1>3, <1>5, <1>7, <1>8 DEF SaveSlot, Types, PageOK, CountsOK, LoadsOK, page

LEMMA HandleTypes ==
  ASSUME Types, NEW c \in Calls, Handle(c)
  PROVE  Types' /\ order[c] \in Order
<1> DEFINE o == order[c]
<1>1. o \in Order /\ o.at = "sent"
  BY UnderWay DEF Handle, Types
<1>2. /\ o.op \in {"bulk_lock", "bulk_price"} => o.on \in BOOLEAN
      /\ o.op = "maintenance" => o.on \in BOOLEAN
  BY <1>1, OrderKinds
<1>3. OrdersOK'
  <2>1. order' = [order EXCEPT ![c] = [o EXCEPT !.at = "ok"]]
    BY DEF Handle
  <2>2. [o EXCEPT !.at = "ok"] \in Order
    BY <1>1, OrderMoves
  <2> QED BY <2>1, <2>2, OrderChanges DEF Types
<1>4. EventsOK'
  <2>1. [type |-> "reload"] \in Event
    BY DEF Event
  <2> QED BY <2>1, OneMoreEvent DEF Handle, Types, EventsOK
<1>5. \A s \in Slots : /\ row[s] \in Row
                       /\ o.op = "bulk_lock" => [row[s] EXCEPT !.locked = o.on] \in Row
                       /\ [row[s] EXCEPT !.priced = TRUE] \in Row
                       /\ [row[s] EXCEPT !.made = TRUE] \in Row
  BY <1>2 DEF Types, RowsOK, Row
<1>6. row' \in [Slots -> Row]
  <2> DEFINE R(s) ==
       IF o.op = "bulk_lock" /\ s \in BulkTarget(o) THEN [row[s] EXCEPT !.locked = o.on]
       ELSE IF o.op = "bulk_price" /\ s \in BulkTarget(o) THEN [row[s] EXCEPT !.priced = TRUE]
       ELSE IF o.op = "generate" /\ DateOf[s] = o.date THEN [row[s] EXCEPT !.made = TRUE]
       ELSE row[s]
  <2>1. row' = [s \in Slots |-> R(s)]
    BY DEF Handle
  <2>2. \A s \in Slots : R(s) \in Row
    BY <1>5
  <2> HIDE DEF R
  <2> QED BY <2>1, <2>2
<1>7. RowsOK'
  BY <1>2, <1>6 DEF Handle, Types, RowsOK
<1> QED
  BY <1>1, <1>3, <1>4, <1>7 DEF Handle, Types, PageOK, CountsOK, LoadsOK, page

LEMMA AnswerTypes ==
  ASSUME Types, NEW c \in Calls, Answered(c) \/ Refused(c) \/ Lost(c)
  PROVE  Types' /\ order[c] \in Order
<1>1. order[c] \in Order
  BY UnderWay DEF Types, Answered, Refused, Lost
<1>2. CASE Answered(c)
  <2>1. LoadsOK'
    BY <1>1, <1>2, OneMore, OrderKinds DEF Answered, Types, LoadsOK
  <2>2. OrdersOK'
    BY <1>2, OrderChanges DEF Answered, Types
  <2>3. PageOK'
    BY <1>2 DEF Answered, Types, PageOK
  <2> QED
    BY <1>1, <1>2, <2>1, <2>2, <2>3 DEF Answered, Types, RowsOK, CountsOK, EventsOK, server
<1>3. CASE Refused(c)
  <2>1. OrdersOK'
    BY <1>3, OrderChanges DEF Refused, Types
  <2> QED
    BY <1>1, <1>3, <2>1 DEF Refused, Types, RowsOK, PageOK, CountsOK, LoadsOK, EventsOK,
                            server, page
<1>4. CASE Lost(c)
  <2>1. [order[c] EXCEPT !.at = "refused"] \in Order
    BY <1>1, <1>4, OrderMoves DEF Lost
  <2>2. order' = [order EXCEPT ![c] = [order[c] EXCEPT !.at = "refused"]]
    BY <1>4 DEF Lost
  <2>3. OrdersOK'
    BY <2>1, <2>2, OrderChanges DEF Types
  <2>4. CountsOK'
    BY <1>4, AdminScreenAssumption DEF Lost, Trouble, MayAct, Types, CountsOK, server
  <2> QED
    BY <1>1, <1>4, <2>3, <2>4 DEF Lost, Types, RowsOK, PageOK, LoadsOK, EventsOK, server, page
<1> QED BY <1>2, <1>3, <1>4

LEMMA CopyKinds ==
  ASSUME NEW r \in Row, NEW b \in BOOLEAN
  PROVE  /\ [r EXCEPT !.held = b] \in Row /\ [r EXCEPT !.locked = b] \in Row
         /\ [r EXCEPT !.held = FALSE, !.booked = b] \in Row
BY DEF Row

LEMMA CustomerTypes ==
  ASSUME Types, NEW s \in Slots, MaintenanceCheck(s) \/ CreateBooking(s)
  PROVE  Types'
<1>0. [type |-> "reload"] \in Event
  BY DEF Event
<1>2. CASE MaintenanceCheck(s)
  BY <1>2, AdminScreenAssumption
     DEF MaintenanceCheck, MayAct, Types, RowsOK, PageOK, CountsOK, OrdersOK, LoadsOK,
         EventsOK, page
<1>3. CASE CreateBooking(s)
  <2>1. EventsOK'
    BY <1>0, <1>3, OneMoreEvent DEF CreateBooking, Types, EventsOK
  <2>2. row' \in [Slots -> Row]
    <3>1. row' = row \/ row' = [row EXCEPT ![s].held = TRUE]
      BY <1>3 DEF CreateBooking
    <3>2. row \in [Slots -> Row]
      BY DEF Types, RowsOK
    <3> QED BY <3>1, <3>2 DEF Row
  <2>3. visit' \in [Slots -> {"none", "admitted", "emitted"}]
    <3>1. visit' = [visit EXCEPT ![s] = "none"] \/ visit' = [visit EXCEPT ![s] = "emitted"]
      BY <1>3 DEF CreateBooking
    <3> QED BY <3>1 DEF Types, RowsOK
  <2>4. maint' = maint /\ saving' = saving
    BY <1>3 DEF CreateBooking
  <2>5. RowsOK'
    BY <2>2, <2>3, <2>4 DEF Types, RowsOK
  <2> QED
    BY <1>3, <2>1, <2>5 DEF CreateBooking, Types, PageOK, CountsOK, OrdersOK, LoadsOK, page
<1> QED BY <1>2, <1>3

\* A copy of which only the hold is gone.
LEMMA LapsedCopies ==
  ASSUME Types, NEW s \in Slots, HoldRunsOut(s)
  PROVE  /\ row' \in [Slots -> Row]
         /\ \A x \in Slots : row'[x].priced = row[x].priced /\ row'[x].locked = row[x].locked
         /\ \A c \in Calls :
              \/ order'[c] = order[c]
              \/ /\ order[c] \in Order /\ order[c].at = "loaded"
                 /\ order'[c] = [order[c] EXCEPT !.copy = [order[c].copy EXCEPT !.held = FALSE]]
<1>1. row \in [Slots -> Row] /\ row' = [row EXCEPT ![s].held = FALSE]
  BY DEF HoldRunsOut, Types, RowsOK
<1>2. \A c \in Calls :
        \/ order'[c] = order[c]
        \/ order[c].at = "loaded" /\ order'[c] = [order[c] EXCEPT !.copy.held = FALSE]
  BY DEF HoldRunsOut
<1>3. \A c \in Calls : order[c].at = "loaded" => order[c] \in Order
  BY UnderWay DEF Types
<1> QED BY <1>1, <1>2, <1>3 DEF Row

LEMMA LapsedOrder ==
  ASSUME NEW o \in Order, o.at = "loaded", NEW r \in Row
  PROVE  /\ [o EXCEPT !.copy = r] \in Order
         /\ LET a == [o EXCEPT !.copy = r] IN
            a.op = o.op /\ a.at = "loaded" /\ a.s = o.s /\ a.copy = r
BY OrderKinds DEF Order, SlotOps

LEMMA LapseTypes ==
  ASSUME Types, NEW s \in Slots, HoldRunsOut(s)
  PROVE  Types'
<1>1. row' \in [Slots -> Row]
  BY LapsedCopies
<1>2. saving' \subseteq Save
  <2> SUFFICES ASSUME NEW x \in saving
               PROVE  (IF x.s = s THEN [x EXCEPT !.copy.held = FALSE] ELSE x) \in Save
    BY DEF HoldRunsOut
  <2>1. x \in Save
    BY DEF Types, RowsOK
  <2>2. [x.copy EXCEPT !.held = FALSE] \in Row
    BY <2>1, CopyKinds DEF Save
  <2>3. [x EXCEPT !.copy = [x.copy EXCEPT !.held = FALSE]] \in Save
    BY <2>1, <2>2 DEF Save
  <2> QED BY <2>1, <2>3
<1>3. OrdersOK'
  <2>1. ASSUME NEW c \in Calls PROVE order'[c] \in Order \cup {Free}
    <3>1. order[c] \in Order \cup {Free}
      BY DEF Types, OrdersOK
    <3>2. ASSUME order[c] \in Order, order[c].at = "loaded"
          PROVE  [order[c] EXCEPT !.copy = [order[c].copy EXCEPT !.held = FALSE]] \in Order
      BY <3>2, OrderKinds, CopyKinds, LapsedOrder
    <3> QED BY <3>1, <3>2, LapsedCopies
  <2>2. order' = [c \in Calls |-> order'[c]]
    BY DEF HoldRunsOut
  <2> QED BY <2>1, <2>2 DEF OrdersOK
<1> QED
  BY <1>1, <1>2, <1>3 DEF HoldRunsOut, Types, RowsOK, PageOK, CountsOK, LoadsOK, EventsOK, page

LEMMA FunctionIsSeq ==
  ASSUME NEW S, NEW n \in Nat, NEW f \in [1..n -> S]
  PROVE  f \in Seq(S) /\ Len(f) = n
<1>1. f \in Seq(S)
  BY SeqDef
<1>2. DOMAIN f = 1..Len(f) /\ Len(f) \in Nat /\ DOMAIN f = 1..n
  BY <1>1, LenProperties
<1>3. \A m \in Nat : 1..n = 1..m => m = n
  <2> SUFFICES ASSUME NEW m \in Nat, 1..n = 1..m PROVE m = n
    OBVIOUS
  <2>1. (n > 0 => n \in 1..m) /\ (m > 0 => m \in 1..n)
    OBVIOUS
  <2> QED BY <2>1
<1>4. 1..n = 1..Len(f) /\ Len(f) \in Nat
  BY <1>2
<1>5. Len(f) = n
  BY <1>3, <1>4, Zenon
<1> QED BY <1>1, <1>5

\* Rows not yet shown are marked stale.
LEMMA BehindLoads ==
  ASSUME LoadsOK, NEW S \in SUBSET Slots, loads' = Behind(S)
  PROVE  /\ LoadsOK' /\ Len(loads') = Len(loads) /\ DOMAIN loads' = DOMAIN loads
         /\ \A i \in DOMAIN loads :
              /\ loads[i].at = "rows" =>
                   /\ loads'[i].at = "rows" /\ loads'[i].rows = loads[i].rows
                   /\ loads'[i].stale = loads[i].stale \cup S
              /\ loads[i].at # "rows" => loads'[i] = loads[i]
<1>1. Len(loads) \in Nat /\ DOMAIN loads = 1..Len(loads) /\ \A i \in DOMAIN loads : loads[i] \in Load
  BY DEF LoadsOK
<1> DEFINE F(i) == IF loads[i].at = "rows" THEN [loads[i] EXCEPT !.stale = loads[i].stale \cup S]
                   ELSE loads[i]
<1>2. ASSUME NEW i \in 1..Len(loads)
      PROVE  /\ F(i) \in Load
             /\ loads[i].at = "rows" =>
                  /\ F(i).at = "rows" /\ F(i).rows = loads[i].rows
                  /\ F(i).stale = loads[i].stale \cup S
             /\ loads[i].at # "rows" => F(i) = loads[i]
  <2>1. loads[i] \in Load
    BY <1>1
  <2>2. CASE loads[i].at = "rows"
    <3>1. PICK d \in Dates, f \in Shown, T \in SUBSET Slots :
            loads[i] = [date |-> d, at |-> "rows", rows |-> f, stale |-> T]
      BY <2>1, <2>2 DEF Load, Shown
    <3>2. F(i) = [date |-> d, at |-> "rows", rows |-> f, stale |-> T \cup S]
      <4>1. F(i) = [loads[i] EXCEPT !.stale = loads[i].stale \cup S]
        BY <2>2
      <4>2. loads[i].stale = T
        BY <3>1
      <4>3. PICK U : U = T \cup S
        OBVIOUS
      <4>4. [loads[i] EXCEPT !.stale = U] =
              [date |-> d, at |-> "rows", rows |-> f, stale |-> U]
        <5>1. PICK l : l = loads[i]
          OBVIOUS
        <5> HIDE DEF F
        <5>2. [l EXCEPT !.stale = U] = [date |-> d, at |-> "rows", rows |-> f, stale |-> U]
          BY <3>1, <5>1
        <5> QED BY <5>1, <5>2
      <4> HIDE DEF F
      <4> QED BY <4>1, <4>2, <4>3, <4>4, Zenon
    <3>3. T \cup S \in SUBSET Slots
      OBVIOUS
    <3>4. [date |-> d, at |-> "rows", rows |-> f, stale |-> T \cup S] \in Load
      BY <3>3, LoadOf
    <3> QED BY <2>2, <3>1, <3>2, <3>4
  <2> QED BY <2>1, <2>2
<1>3. loads' = [i \in 1..Len(loads) |-> F(i)]
  BY <1>1 DEF Behind
<1> HIDE DEF F
<1>4. loads' \in Seq(Load) /\ Len(loads') = Len(loads)
  BY <1>1, <1>2, <1>3, FunctionIsSeq
<1> QED BY <1>1, <1>2, <1>3, <1>4 DEF LoadsOK

LEMMA SaveKinds ==
  ASSUME NEW x \in Save
  PROVE  /\ x.s \in Slots /\ x.copy \in Row /\ Written(x) \in Row
         /\ x.by \in {"paid", "failed", "release", "toggle"}
         /\ Heard(x) \in Seq(Event)
<1>1. x.s \in Slots /\ x.copy \in Row /\ x.by \in {"paid", "failed", "release", "toggle"}
  BY DEF Save
<1>2. Written(x) \in Row
  <2>1. (~x.copy.locked) \in BOOLEAN
    OBVIOUS
  <2> QED BY <1>1, <2>1, CopyKinds DEF Written
<1>3. Heard(x) \in Seq(Event)
  <2>1. [type |-> "slot", s |-> x.s, sl |-> Written(x)] \in Event
    BY <1>1, <1>2 DEF Event
  <2>2. [type |-> "available", s |-> x.s] \in Event
    BY <1>1 DEF Event
  <2> QED BY <1>1, <2>1, <2>2 DEF Heard
<1> QED BY <1>1, <1>2, <1>3

LEMMA ElsewhereTypes ==
  ASSUME Types,
         \/ MaintenanceElsewhere
         \/ \E s \in Slots, by \in {"paid", "failed", "release", "toggle"} : LoadElsewhere(s, by)
         \/ \E x \in saving : SaveElsewhere(x)
         \/ \E S \in SUBSET Slots, on \in BOOLEAN : BulkLockElsewhere(S, on)
  PROVE  Types'
<1>0. [type |-> "reload"] \in Event /\ Decided(row') \in SUBSET Slots /\ LoadsOK
  BY DEF Event, Decided, Types
<1>1. CASE MaintenanceElsewhere
  <2>1. EventsOK'
    BY <1>0, <1>1, OneMoreEvent DEF MaintenanceElsewhere, Types
  <2>2. CountsOK'
    BY <1>1, AdminScreenAssumption DEF MaintenanceElsewhere, MayAct, Types, CountsOK
  <2> QED
    BY <1>1, <2>1, <2>2 DEF MaintenanceElsewhere, Types, RowsOK, PageOK, OrdersOK, LoadsOK, page
<1>2. ASSUME NEW s \in Slots, NEW by \in {"paid", "failed", "release", "toggle"},
             LoadElsewhere(s, by)
      PROVE  Types'
  <2>1. [by |-> by, s |-> s, copy |-> row[s]] \in Save
    BY DEF Save, Types, RowsOK
  <2>2. RowsOK'
    BY <1>2, <2>1 DEF LoadElsewhere, Types, RowsOK
  <2>3. CountsOK'
    BY <1>2, AdminScreenAssumption DEF LoadElsewhere, MayAct, Types, CountsOK
  <2> QED
    BY <1>2, <2>2, <2>3 DEF LoadElsewhere, Types, PageOK, OrdersOK, LoadsOK, EventsOK, page
<1>3. ASSUME NEW x \in saving, SaveElsewhere(x) PROVE Types'
  <2>1. x \in Save /\ x.s \in Slots /\ Written(x) \in Row /\ Heard(x) \in Seq(Event)
    BY SaveKinds DEF Types, RowsOK
  <2>2. RowsOK'
    BY <1>3, <2>1 DEF SaveElsewhere, Types, RowsOK
  <2>3. EventsOK'
    BY <1>3, <2>1, ConcatProperties DEF SaveElsewhere, Types, EventsOK
  <2>4. LoadsOK'
    BY <1>0, <1>3, BehindLoads DEF SaveElsewhere
  <2>5. PageOK'
    BY <1>0, <1>3 DEF SaveElsewhere, Types, PageOK
  <2> QED
    BY <1>3, <2>2, <2>3, <2>4, <2>5 DEF SaveElsewhere, Types, CountsOK, OrdersOK
<1>4. ASSUME NEW S \in SUBSET Slots, NEW on \in BOOLEAN, BulkLockElsewhere(S, on) PROVE Types'
  <2>1. row' \in [Slots -> Row]
    BY <1>4, CopyKinds DEF BulkLockElsewhere, Types, RowsOK
  <2>2. RowsOK'
    BY <1>4, <2>1 DEF BulkLockElsewhere, Types, RowsOK
  <2>3. CountsOK'
    BY <1>4, AdminScreenAssumption DEF BulkLockElsewhere, MayAct, Types, CountsOK
  <2>4. LoadsOK'
    BY <1>0, <1>4, BehindLoads DEF BulkLockElsewhere
  <2>5. PageOK'
    BY <1>0, <1>4 DEF BulkLockElsewhere, Types, PageOK
  <2> QED
    BY <1>4, <2>2, <2>3, <2>4, <2>5 DEF BulkLockElsewhere, Types, OrdersOK, EventsOK
<1> QED BY <1>1, <1>2, <1>3, <1>4

\* Customers change nothing of what administrators decide.
LEMMA CustomersDecideNothing ==
  ASSUME Types, NEW s \in Slots, MaintenanceCheck(s) \/ CreateBooking(s) \/ HoldRunsOut(s)
  PROVE  \A x \in Slots : row'[x].priced = row[x].priced /\ row'[x].locked = row[x].locked
<1>1. row \in [Slots -> Row] /\ row[s] \in Row
  BY DEF Types, RowsOK
<1>2. CASE row' = row
  BY <1>2
<1>3. CASE row' = [row EXCEPT ![s].held = TRUE]
  BY <1>1, <1>3 DEF Row
<1>4. CASE HoldRunsOut(s)
  BY <1>4, LapsedCopies
<1> QED BY <1>2, <1>3, <1>4 DEF MaintenanceCheck, CreateBooking

LEMMA StepTypes == Types /\ [ANext]_avars => Types'
<1>1. ASSUME Types, UNCHANGED avars PROVE Types'
  BY <1>1 DEF avars, server, page, Types, RowsOK, PageOK, CountsOK, OrdersOK, LoadsOK, EventsOK
<1>2. ASSUME Types, ANext PROVE Types'
  BY <1>2, LoadSteps, EventSteps, PageSteps, ClickTypes, LoadSlotTypes, SaveSlotTypes,
     HandleTypes, AnswerTypes, CustomerTypes, LapseTypes, ElsewhereTypes DEF ANext
<1> QED BY <1>1, <1>2

LEMMA AlwaysTypes == ASpec => []Types
BY InitTypes, StepTypes, PTL DEF ASpec

(***************************************************************************)
(* The rows, the page and what is under way between them are what they are *)
(* said to be, whatever the administrator's habits, the order of the       *)
(* answers and the calls that are lost.                                    *)
(***************************************************************************)
THEOREM ConsoleTypes == ASpec => []ATypeOK
BY AlwaysTypes, TypesImplyOK, PTL
-----------------------------------------------------------------------------
(***************************************************************************)
(* Prices.  An administrator who waits for the answers has one order under *)
(* way at most.  While the dialog is open that is the price order, so what *)
(* is ticked changes only when the dialog closes.                          *)
(***************************************************************************)
Patient == "impatient" \notin Habits

PriceOrder(o) ==
  /\ dialog => o.op = "bulk_price"
  /\ o.op = "bulk_price" => o.ids # {} /\ o.ids \subseteq meant
  /\ o.at = "loaded" /\ o.copy.priced => o.s \in meant

Prices ==
  /\ PricedIsMeant
  /\ dialog => ticked # {} /\ ticked \subseteq meant
  /\ \A c \in Calls : order[c] # Free => PriceOrder(order[c])
  /\ \A x \in saving : x.copy.priced => x.s \in meant

LEMMA InitPrices == AInit => Prices
BY DEF AInit, Prices, PricedIsMeant

\* Of the rows only who got a price matters.
LEMMA PricesKept ==
  ASSUME Prices, UNCHANGED <<order, dialog, ticked, meant, saving>>,
         \A s \in Slots : row'[s].priced => row[s].priced
  PROVE  Prices'
BY DEF Prices, PricedIsMeant, PriceOrder

LEMMA PagePrices ==
  ASSUME Types, Prices, Patient,
         \/ OpenPrice \/ ClosePrice \/ \E d \in Dates : SelectDate(d)
         \/ \E all \in BOOLEAN : SelectAll(all) \/ \E s \in Slots : ToggleSlotSelect(s)
  PROVE  Prices'
<1>1. CASE OpenPrice
  <2>1. \A c \in Calls : order[c] = Free /\ order'[c] = Free
    BY <1>1 DEF OpenPrice, Clicks, Patient
  <2> QED
    BY <1>1, <2>1 DEF OpenPrice, Prices, PricedIsMeant, server
<1>2. CASE ClosePrice
  BY <1>2 DEF ClosePrice, Prices, PricedIsMeant, PriceOrder, server
<1>3. CASE \E d \in Dates : SelectDate(d)
  BY <1>3, PricesKept DEF SelectDate, server
<1>4. CASE \E all \in BOOLEAN : SelectAll(all) \/ \E s \in Slots : ToggleSlotSelect(s)
  BY <1>4 DEF SelectAll, ToggleSlotSelect, Prices, PricedIsMeant, PriceOrder, server
<1> QED BY <1>1, <1>2, <1>3, <1>4

LEMMA ClickPrices ==
  ASSUME Types, Prices, Patient, NEW c \in Calls, Click(c)
  PROVE  Prices'
<1>1. PICK o : Ordered(o) /\ Send(c, o)
  BY ClicksOrder
<1>2. \A d \in Calls : order[d] = Free
  BY <1>1 DEF Ordered, Clicks, Patient
<1>3. \A d \in Calls : order'[d] = IF d = c THEN o ELSE Free
  BY <1>1, <1>2 DEF Send, Types, OrdersOK
<1>4. UNCHANGED <<row, dialog, ticked, meant, saving>>
  BY <1>1 DEF Send, server, page
<1>5. PriceOrder(o)
  BY <1>1 DEF Ordered, PriceOrder, Prices
<1> QED BY <1>3, <1>4, <1>5 DEF Prices, PricedIsMeant, PriceOrder

LEMMA LoadSlotPrices ==
  ASSUME Types, Prices, NEW c \in Calls, LoadSlot(c)
  PROVE  Prices'
<1>1. order[c] \in Order /\ order[c].op \in SlotOps /\ order[c].at = "sent"
  BY UnderWay DEF LoadSlot, Types
<1>2. order[c].s \in Slots /\ order[c] # Free
  BY <1>1, OrderKinds
<1>3. PriceOrder(order[c]) /\ ~dialog
  BY <1>1, <1>2 DEF Prices, PriceOrder, SlotOps
<1>4. UNCHANGED <<row, dialog, ticked, meant, saving>>
  BY DEF LoadSlot, server, page
<1>5. PriceOrder(order[c])'
  <2>1. \/ order'[c] = [op |-> order[c].op, s |-> order[c].s, date |-> order[c].date,
                        at |-> "loaded", copy |-> row[order[c].s]]
        \/ order'[c] = [order[c] EXCEPT !.at = "refused"]
    BY DEF LoadSlot, Types, OrdersOK
  <2>2. row[order[c].s].priced => order[c].s \in meant
    BY <1>2 DEF Prices, PricedIsMeant
  <2> QED BY <1>1, <1>3, <1>4, <2>1, <2>2 DEF PriceOrder, SlotOps, Order
<1>6. \A d \in Calls : d # c => order'[d] = order[d]
  BY DEF LoadSlot, Types, OrdersOK
<1> QED BY <1>4, <1>5, <1>6 DEF Prices, PricedIsMeant, PriceOrder

\* The order of c ends, or has only an answer to wait for; the page stays.
LEMMA OrderEnds ==
  ASSUME Types, Prices, NEW c \in Calls, order[c] \in Order,
         NEW o, order' = [order EXCEPT ![c] = o],
         \/ o = Free
         \/ o.op = order[c].op /\ o.at # "loaded"
              /\ (o.op = "bulk_price" => o.ids = order[c].ids),
         UNCHANGED <<dialog, ticked, meant, saving>>,
         \A s \in Slots : row'[s].priced => s \in meant
  PROVE  Prices'
<1>1. \A d \in Calls : order'[d] = IF d = c THEN o ELSE order[d]
  BY DEF Types, OrdersOK
<1>2. PriceOrder(order[c])
  BY OrderKinds DEF Prices
<1>3. o # Free => PriceOrder(o)'
  BY <1>2 DEF PriceOrder
<1> QED BY <1>1, <1>3 DEF Prices, PricedIsMeant, PriceOrder

LEMMA SaveSlotPrices ==
  ASSUME Types, Prices, NEW c \in Calls, SaveSlot(c)
  PROVE  Prices'
<1> DEFINE o == order[c]
           a == [op |-> o.op, s |-> o.s, date |-> o.date, at |-> "ok"]
<1>1. o \in Order /\ o.at = "loaded" /\ Edited(o) \in Row
  BY SaveSlotTypes DEF SaveSlot
<1>2. o.s \in Slots /\ o # Free /\ o.op \in SlotOps /\ o.copy \in Row
  BY <1>1, OrderKinds
<1>3. PriceOrder(o)
  BY <1>2 DEF Prices
<1>4. Edited(o).priced = o.copy.priced
  BY <1>2 DEF Edited, SlotOps, Row
<1>5. \A s \in Slots : row'[s].priced => s \in meant
  BY <1>1, <1>2, <1>3, <1>4 DEF SaveSlot, Types, RowsOK, PriceOrder, Prices, PricedIsMeant
<1>6. /\ order' = [order EXCEPT ![c] = a] /\ UNCHANGED <<dialog, ticked, meant, saving>>
      /\ a.op = o.op /\ a.at # "loaded" /\ a.op # "bulk_price"
  BY <1>2 DEF SaveSlot, page, SlotOps
<1> HIDE DEF a
<1> QED BY <1>1, <1>5, <1>6, OrderEnds

LEMMA HandlePrices ==
  ASSUME Types, Prices, NEW c \in Calls, Handle(c)
  PROVE  Prices'
<1> DEFINE o == order[c]
<1>1. o \in Order /\ o.at = "sent"
  BY HandleTypes DEF Handle
<1>2. PriceOrder(o) /\ o # Free
  BY <1>1, OrderKinds DEF Prices
<1>3. o.op = "bulk_price" => \A s \in BulkTarget(o) : s \in meant
  BY <1>2 DEF PriceOrder, BulkTarget
<1>4. \A s \in Slots : row'[s].priced => s \in meant
  <2>1. ASSUME NEW s \in Slots PROVE row'[s].priced => s \in meant
    <3>1. row[s] \in Row
      BY DEF Types, RowsOK
    <3>2. row[s].priced => s \in meant
      BY DEF Prices, PricedIsMeant
    <3> QED BY <1>3, <3>1, <3>2 DEF Handle, Row
  <2> QED BY <2>1
<1>5. /\ order' = [order EXCEPT ![c] = [o EXCEPT !.at = "ok"]]
      /\ UNCHANGED <<dialog, ticked, meant, saving>>
  BY DEF Handle, page
<1>6. LET a == [o EXCEPT !.at = "ok"] IN
      a.op = o.op /\ a.at # "loaded" /\ (a.op = "bulk_price" => a.ids = o.ids)
  BY <1>1 DEF Order
<1> QED BY <1>1, <1>4, <1>5, <1>6, OrderEnds

LEMMA AnswerPrices ==
  ASSUME Types, Prices, NEW c \in Calls, Answered(c) \/ Refused(c) \/ Lost(c)
  PROVE  Prices'
<1>1. order[c] \in Order
  BY AnswerTypes
<1>2. PriceOrder(order[c]) /\ order[c] # Free
  BY <1>1, OrderKinds DEF Prices
<1>3. CASE Answered(c)
  <2>1. \A d \in Calls : order'[d] = IF d = c THEN Free ELSE order[d]
    BY <1>3 DEF Answered, Types, OrdersOK
  <2>2. ~dialog' /\ UNCHANGED <<row, meant, saving>>
    BY <1>2, <1>3 DEF Answered, PriceOrder, server
  <2> QED BY <2>1, <2>2 DEF Prices, PricedIsMeant, PriceOrder
<1>4. CASE Refused(c)
  <2>1. order' = [order EXCEPT ![c] = Free] /\ UNCHANGED <<row, dialog, ticked, meant, saving>>
    BY <1>4 DEF Refused, server, page
  <2> QED BY <1>1, <2>1, OrderEnds DEF Prices, PricedIsMeant
<1>5. CASE Lost(c)
  <2>1. /\ order' = [order EXCEPT ![c] = [order[c] EXCEPT !.at = "refused"]]
        /\ UNCHANGED <<row, dialog, ticked, meant, saving>>
    BY <1>5 DEF Lost, server, page
  <2>2. LET a == [order[c] EXCEPT !.at = "refused"] IN
        a.op = order[c].op /\ a.at # "loaded" /\ (a.op = "bulk_price" => a.ids = order[c].ids)
    BY <1>1 DEF Order
  <2> QED BY <1>1, <2>1, <2>2, OrderEnds DEF Prices, PricedIsMeant
<1> QED BY <1>3, <1>4, <1>5

\* What others write was read by them.
LEMMA WrittenPrice ==
  ASSUME NEW x \in Save
  PROVE  Written(x).priced = x.copy.priced
BY SaveKinds DEF Written, Row

LEMMA OtherPrices ==
  ASSUME Types, Prices,
         \/ \E i \in DOMAIN loads : AnswerLoad(i) \/ ShowRows(i) \/ ShowStatus(i) \/ LoadLost(i)
         \/ HandleWSEvent \/ MaintenanceElsewhere
         \/ \E s \in Slots : MaintenanceCheck(s) \/ CreateBooking(s)
         \/ \E S \in SUBSET Slots, on \in BOOLEAN : BulkLockElsewhere(S, on)
  PROVE  Prices'
<1>1. CASE \/ \E i \in DOMAIN loads : AnswerLoad(i) \/ ShowRows(i) \/ ShowStatus(i) \/ LoadLost(i)
           \/ HandleWSEvent \/ MaintenanceElsewhere
  BY <1>1, PricesKept
     DEF AnswerLoad, ShowRows, ShowStatus, LoadLost, HandleWSEvent, MaintenanceElsewhere,
         server, page
<1>2. CASE \E s \in Slots : MaintenanceCheck(s) \/ CreateBooking(s)
  <2>1. \A s \in Slots : row'[s].priced => row[s].priced
    BY <1>2, CustomersDecideNothing
  <2>2. UNCHANGED <<order, dialog, ticked, meant, saving>>
    BY <1>2 DEF MaintenanceCheck, CreateBooking, page
  <2> QED BY <2>1, <2>2, PricesKept
<1>3. CASE \E S \in SUBSET Slots, on \in BOOLEAN : BulkLockElsewhere(S, on)
  <2>1. \A s \in Slots : row'[s].priced => row[s].priced
    BY <1>3 DEF BulkLockElsewhere, Types, RowsOK, Row
  <2> QED BY <1>3, <2>1, PricesKept DEF BulkLockElsewhere
<1> QED BY <1>1, <1>2, <1>3

LEMMA LapsePrices ==
  ASSUME Types, Prices, NEW s \in Slots, HoldRunsOut(s)
  PROVE  Prices'
<1>1. UNCHANGED <<dialog, ticked, meant>>
  BY DEF HoldRunsOut, page
<1>2. PricedIsMeant'
  BY <1>1, LapsedCopies DEF Prices, PricedIsMeant
<1>3. ASSUME NEW c \in Calls, order'[c] # Free PROVE PriceOrder(order[c])'
  <2>1. CASE order'[c] = order[c]
    BY <1>1, <1>3, <2>1 DEF Prices, PriceOrder
  <2>2. CASE order'[c] # order[c]
    <3>1. PICK r : r = [order[c].copy EXCEPT !.held = FALSE]
      OBVIOUS
    <3>2. PICK o : o = order[c]
      OBVIOUS
    <3>3. o \in Order /\ o.at = "loaded" /\ order'[c] = [o EXCEPT !.copy = r]
      BY <2>2, <3>1, <3>2, LapsedCopies
    <3>4. o.copy \in Row /\ o # Free /\ o.op \in SlotOps
      BY <3>3, OrderKinds
    <3>5. r \in Row /\ r.priced = o.copy.priced
      BY <3>1, <3>2, <3>4 DEF Row
    <3>6. PriceOrder(o)
      BY <3>2, <3>4 DEF Prices
    <3>7. PICK a : a = [o EXCEPT !.copy = r]
      OBVIOUS
    <3>8. a.op = o.op /\ a.at = "loaded" /\ a.s = o.s /\ a.copy = r
      BY <3>3, <3>5, <3>7, LapsedOrder
    <3>9. PriceOrder(a)'
      BY <1>1, <3>3, <3>4, <3>5, <3>6, <3>8 DEF PriceOrder, SlotOps
    <3> QED BY <3>3, <3>7, <3>9 DEF PriceOrder
  <2> QED BY <2>1, <2>2
<1>4. \A x \in saving' : x.copy.priced => x.s \in meant'
  <2> SUFFICES ASSUME NEW y \in saving,
                      NEW x, x = IF y.s = s THEN [y EXCEPT !.copy.held = FALSE] ELSE y
               PROVE  x.copy.priced => x.s \in meant
    BY <1>1 DEF HoldRunsOut
  <2>1. y \in Save /\ (y.copy.priced => y.s \in meant)
    BY DEF Types, RowsOK, Prices
  <2>2. x.s = y.s /\ x.copy.priced = y.copy.priced
    BY <2>1 DEF Save, Row
  <2> QED BY <2>1, <2>2
<1> QED BY <1>1, <1>2, <1>3, <1>4 DEF Prices

LEMMA CopyPrices ==
  ASSUME Types, Prices,
         \/ \E s \in Slots, by \in {"paid", "failed", "release", "toggle"} : LoadElsewhere(s, by)
         \/ \E x \in saving : SaveElsewhere(x)
  PROVE  Prices'
<1>1. ASSUME NEW s \in Slots, NEW by \in {"paid", "failed", "release", "toggle"},
             LoadElsewhere(s, by)
      PROVE  Prices'
  <2>1. /\ UNCHANGED <<row, dialog, ticked, meant, order>>
        /\ saving' = saving \cup {[by |-> by, s |-> s, copy |-> row[s]]}
    BY <1>1 DEF LoadElsewhere, page
  <2>2. row[s].priced => s \in meant
    BY DEF Prices, PricedIsMeant
  <2>3. \A x \in saving' : x.copy.priced => x.s \in meant'
    BY <2>1, <2>2 DEF Prices
  <2> QED BY <2>1, <2>3 DEF Prices, PricedIsMeant, PriceOrder
<1>2. ASSUME NEW x \in saving, SaveElsewhere(x) PROVE Prices'
  <2>1. x \in Save /\ x.s \in Slots /\ Written(x).priced = x.copy.priced
    BY SaveKinds, WrittenPrice DEF Types, RowsOK
  <2>2. x.copy.priced => x.s \in meant
    BY DEF Prices
  <2>3. /\ UNCHANGED <<dialog, ticked, meant, order>> /\ saving' \subseteq saving
        /\ row' = [row EXCEPT ![x.s] = Written(x)] /\ row \in [Slots -> Row]
    BY <1>2 DEF SaveElsewhere, Types, RowsOK
  <2>4. \A s \in Slots : row'[s].priced => s \in meant
    BY <2>1, <2>2, <2>3 DEF Prices, PricedIsMeant
  <2> QED BY <2>3, <2>4 DEF Prices, PricedIsMeant, PriceOrder
<1> QED BY <1>1, <1>2

LEMMA StepPrices ==
  ASSUME Patient
  PROVE  Types /\ Prices /\ [ANext]_avars => Prices'
<1>1. ASSUME Prices, UNCHANGED avars PROVE Prices'
  BY <1>1, PricesKept DEF avars, server, page
<1>2. ASSUME Types, Prices, ANext PROVE Prices'
  BY <1>2, PagePrices, ClickPrices, LoadSlotPrices, SaveSlotPrices, HandlePrices, AnswerPrices,
     OtherPrices, LapsePrices, CopyPrices DEF ANext
<1> QED BY <1>1, <1>2

(***************************************************************************)
(* An administrator who waits for the answers gives a price only to slots  *)
(* that were ticked when the dialog was opened, even if answers and events *)
(* come in any order, calls are lost, the page loads between, and other    *)
(* administrators and customers change the same rows.  That no order goes  *)
(* out empty, which would be the whole date for the server, needs that the *)
(* dialog closes with the answer that clears the ticks.                    *)
(***************************************************************************)
THEOREM OnlyMeantGetPrice ==
  ASSUME "impatient" \notin Habits
  PROVE  ASpec => []PricedIsMeant
<1>1. Types /\ Prices /\ [ANext]_avars => Prices'
  BY StepPrices DEF Patient
<1>2. Prices => PricedIsMeant
  BY DEF Prices
<1> QED BY <1>1, <1>2, InitPrices, AlwaysTypes, PTL DEF ASpec
-----------------------------------------------------------------------------
(***************************************************************************)
(* What the page says.  It is a cache of the rows and of the switch.  Each *)
(* row it shows is current, or known to have changed behind its back, or a *)
(* load or an event that will make it so is on its way, or an order that   *)
(* will load is about to be answered.                                      *)
(***************************************************************************)
Orderly == "lag" \notin Habits /\ "reorder" \notin Habits

Answering == \E c \in Calls : order[c].at = "ok"
Reloading == \E i \in DOMAIN events : events[i].type = "reload"
Waiting(l) == l.at \in {"asked", "rows"}
Patches(e, s) == e.type = "slot" /\ e.s = s
Same(r, s) == r.locked = row[s].locked /\ r.priced = row[s].priced
Right(f, s) == s \in DOMAIN f => Same(f[s], s)

\* A load brings the right row, or one that is known to be stale.
Brings(l, s) == Waiting(l) /\ (l.at = "rows" => s \in l.stale \/ Right(l.rows, s))

\* The youngest load whose rows are to be shown brings the right one.
RowTold(s) ==
  \/ Answering
  \/ \E i \in DOMAIN loads : /\ Brings(loads[i], s)
                             /\ \A j \in DOMAIN loads : j > i => ~Waiting(loads[j])
  \/ /\ s \in silent \/ Patching(s) \/ Right(list, s)
     /\ \A i \in DOMAIN loads : ~Waiting(loads[i])

\* The last patch of a row is right.
PatchTold(s) ==
  \/ Answering \/ s \in silent
  \/ \A i \in DOMAIN events :
       /\ Patches(events[i], s)
       /\ \A j \in DOMAIN events : j > i => ~Patches(events[j], s)
       => Same(events[i].sl, s)

SlotTold(s) == RowTold(s) /\ PatchTold(s)

StatusTold ==
  \/ Answering \/ Reloading
  \/ loads = <<>> /\ status = maint
  \/ loads # <<>> /\ (loads[Len(loads)].at = "status" => loads[Len(loads)].on = maint)

Console == troubles = 0 => StatusTold /\ \A s \in Slots : SlotTold(s)

LEMMA InitConsole == AInit => Console
<1> SUFFICES ASSUME AInit PROVE Console
  OBVIOUS
<1>1. loads = <<[date |-> First, at |-> "asked"]>> /\ events = <<>>
  BY DEF AInit
<1>2. ASSUME NEW s \in Slots PROVE SlotTold(s)
  <2>1. 1 \in DOMAIN loads /\ Brings(loads[1], s) /\ \A j \in DOMAIN loads : ~(j > 1)
    BY <1>1 DEF Waiting, Brings
  <2>2. RowTold(s)
    BY <2>1 DEF RowTold
  <2>3. PatchTold(s)
    BY <1>1 DEF PatchTold
  <2> QED BY <2>2, <2>3 DEF SlotTold
<1>3. StatusTold
  BY <1>1 DEF StatusTold
<1> QED BY <1>2, <1>3 DEF Console

LEMMA AnsweringTells ==
  /\ Answering => Console
  /\ Answering' => Console'
BY DEF Console, SlotTold, RowTold, PatchTold, StatusTold

LEMMA LoadsAre ==
  ASSUME Types
  PROVE  /\ Len(loads) \in Nat /\ DOMAIN loads = 1..Len(loads)
         /\ \A i \in DOMAIN loads :
              /\ loads[i].at \in {"asked", "rows", "shown", "status"}
              /\ loads[i].at = "rows" => DOMAIN loads[i].rows \subseteq Slots
BY LoadKinds, ShownIs DEF Types, LoadsOK

LEMMA EventsAre ==
  ASSUME Types
  PROVE  Len(events) \in Nat /\ DOMAIN events = 1..Len(events)
BY DEF Types, EventsOK

(***************************************************************************)
(* What keeps the page told: loads and events that go on, and a slot that  *)
(* nobody decides about.                                                   *)
(***************************************************************************)
LoadsKept ==
  /\ DOMAIN loads' = DOMAIN loads
  /\ \A i \in DOMAIN loads :
       /\ loads'[i].at = loads[i].at
       /\ loads[i].at = "rows" => /\ loads'[i].rows = loads[i].rows
                                  /\ loads[i].stale \subseteq loads'[i].stale

\* The new events are none that patch slot s.
EventsKept(s) ==
  /\ \A i \in DOMAIN events : i \in DOMAIN events' /\ events'[i] = events[i]
  /\ \A i \in DOMAIN events' : i \in DOMAIN events \/ ~Patches(events'[i], s)

RowKept(s) == row'[s].locked = row[s].locked /\ row'[s].priced = row[s].priced

LEMMA RightKept ==
  ASSUME NEW s \in Slots, RowKept(s)
  PROVE  /\ \A r : Same(r, s) => (r.locked = row'[s].locked /\ r.priced = row'[s].priced)
         /\ \A f : Right(f, s) =>
              (s \in DOMAIN f => f[s].locked = row'[s].locked /\ f[s].priced = row'[s].priced)
BY DEF RowKept, Same, Right

LEMMA PatchingIs ==
  ASSUME NEW s
  PROVE  /\ Patching(s) <=> \E i \in DOMAIN events : Patches(events[i], s)
         /\ Patching(s)' <=> \E i \in DOMAIN events' : Patches(events'[i], s)
BY DEF Patching, Patches

LEMMA RowStays ==
  ASSUME NEW s \in Slots, RowTold(s), RowKept(s), LoadsKept, EventsKept(s), ~Answering,
         list' = list, silent \subseteq silent'
  PROVE  RowTold(s)'
<1>1. \A i \in DOMAIN loads : Waiting(loads[i]) <=> Waiting(loads'[i])
  BY DEF LoadsKept, Waiting
<1>2. ASSUME NEW i \in DOMAIN loads, Brings(loads[i], s) PROVE Brings(loads[i], s)'
  BY <1>1, <1>2, RightKept DEF LoadsKept, Brings, Right, Same, Waiting
<1>3. Patching(s) => Patching(s)'
  BY PatchingIs DEF EventsKept
<1>4. Right(list, s) => Right(list, s)'
  BY RightKept DEF Right, Same
<1>5. CASE \E i \in DOMAIN loads : /\ Brings(loads[i], s)
                                   /\ \A j \in DOMAIN loads : j > i => ~Waiting(loads[j])
  <2>1. PICK i \in DOMAIN loads : /\ Brings(loads[i], s)
                                  /\ \A j \in DOMAIN loads : j > i => ~Waiting(loads[j])
    BY <1>5
  <2>2. i \in DOMAIN loads' /\ \A j \in DOMAIN loads' : j > i => ~Waiting(loads'[j])
    BY <1>1, <2>1 DEF LoadsKept
  <2>3. \E k \in DOMAIN loads' : /\ Brings(loads[k], s)'
                                 /\ \A j \in DOMAIN loads' : j > k => ~Waiting(loads'[j])
    BY <1>2, <2>1, <2>2
  <2> QED BY <2>3 DEF RowTold, Waiting
<1>6. CASE /\ s \in silent \/ Patching(s) \/ Right(list, s)
           /\ \A i \in DOMAIN loads : ~Waiting(loads[i])
  <2>1. \A i \in DOMAIN loads' : ~Waiting(loads'[i])
    BY <1>1, <1>6 DEF LoadsKept
  <2> QED BY <1>3, <1>4, <1>6, <2>1 DEF RowTold, Waiting
<1> QED BY <1>5, <1>6 DEF RowTold

LEMMA PatchStays ==
  ASSUME NEW s \in Slots, PatchTold(s), RowKept(s), EventsKept(s), ~Answering,
         silent \subseteq silent'
  PROVE  PatchTold(s)'
<1> SUFFICES ASSUME s \notin silent PROVE PatchTold(s)'
  BY DEF PatchTold
<1>1. ASSUME NEW i \in DOMAIN events', Patches(events'[i], s),
             \A j \in DOMAIN events' : j > i => ~Patches(events'[j], s)
      PROVE  Same(events[i].sl, s)'
  <2>1. i \in DOMAIN events /\ events'[i] = events[i]
    BY <1>1 DEF EventsKept
  <2>2. \A j \in DOMAIN events : j > i => ~Patches(events[j], s)
    BY <1>1 DEF EventsKept
  <2>3. Same(events[i].sl, s)
    BY <1>1, <2>1, <2>2 DEF PatchTold
  <2> QED BY <2>1, <2>3 DEF Same, RowKept
<1> QED BY <1>1 DEF PatchTold, Patches

LEMMA SlotStays ==
  ASSUME NEW s \in Slots, SlotTold(s), RowKept(s), LoadsKept, EventsKept(s), ~Answering,
         list' = list, silent \subseteq silent'
  PROVE  SlotTold(s)'
BY RowStays, PatchStays DEF SlotTold

\* No event, or one that makes the page load.
LEMMA OtherEvent ==
  ASSUME Types, NEW s, NEW e \in Event, ~Patches(e, s),
         events' = events \/ events' = Append(events, e)
  PROVE  EventsKept(s) /\ (Reloading => Reloading')
<1>1. CASE events' = events
  BY <1>1 DEF EventsKept, Reloading
<1>2. CASE events' = Append(events, e)
  <2>1. /\ \A i \in DOMAIN events : i \in DOMAIN events' /\ events'[i] = events[i]
        /\ \A i \in DOMAIN events' : i \in DOMAIN events \/ events'[i] = e
    BY <1>2, OneMoreEvent, EventsAre DEF Types, EventsOK
  <2> QED BY <2>1 DEF EventsKept, Reloading
<1> QED BY <1>1, <1>2

\* Nothing that was decided changes, and the loads go on.
LEMMA SameConsole ==
  ASSUME Types, Console, Answering => Answering',
         UNCHANGED <<loads, list, status, maint, silent, troubles>>,
         \A s \in Slots : RowKept(s),
         events' = events \/ events' = Append(events, [type |-> "reload"])
  PROVE  Console'
<1> SUFFICES ASSUME troubles = 0, ~Answering PROVE Console'
  BY AnsweringTells DEF Console
<1>1. [type |-> "reload"] \in Event /\ \A s : ~Patches([type |-> "reload"], s)
  BY DEF Event, Patches
<1>2. \A s : EventsKept(s) /\ (Reloading => Reloading')
  BY <1>1, OtherEvent
<1>3. LoadsKept
  BY DEF LoadsKept
<1>4. \A s \in Slots : SlotTold(s)'
  BY <1>2, <1>3, SlotStays DEF Console
<1>5. StatusTold'
  BY <1>2 DEF Console, StatusTold
<1> QED BY <1>4, <1>5 DEF Console

\* A new load will tell everything but what a patch spoils later.
LEMMA FreshLoad ==
  ASSUME Types, NEW d \in Dates, CanLoad, loads' = WithLoad(d)
  PROVE  StatusTold' /\ \A s \in Slots : RowTold(s)'
<1>0. PICK n : n = Len(loads) + 1
  OBVIOUS
<1>1. /\ loads' \in Seq(Load) /\ Len(loads') = n /\ loads'[n] = [date |-> d, at |-> "asked"]
      /\ Len(loads) \in Nat
  BY <1>0, OneMore DEF Types, LoadsOK
<1>2. DOMAIN loads' = 1..n /\ n \in 1..n /\ \A j \in 1..n : ~(j > n)
  BY <1>0, <1>1, LenProperties
<1>3. loads' # <<>>
  BY <1>1, <1>2
<1>4. ASSUME NEW s \in Slots PROVE RowTold(s)'
  <2>1. Brings(loads[n], s)'
    BY <1>1 DEF Brings, Waiting
  <2> QED BY <1>2, <2>1 DEF RowTold
<1> QED BY <1>1, <1>3, <1>4 DEF StatusTold

LEMMA AnswerLoadConsole ==
  ASSUME Types, Console, NEW i \in DOMAIN loads, AnswerLoad(i)
  PROVE  Console'
<1> SUFFICES ASSUME troubles = 0, ~Answering PROVE Console'
  BY AnsweringTells DEF Console, AnswerLoad, Answering
<1> DEFINE l == IF loads[i].at = "asked"
                THEN [date |-> loads[i].date, at |-> "rows",
                      rows |-> AdminSlots(loads[i].date), stale |-> {}]
                ELSE [date |-> loads[i].date, at |-> "status", on |-> maint]
<1>1. l \in Load
  <2>1. loads[i] \in Load
    BY DEF Types, LoadsOK
  <2> QED BY <2>1, LoadKinds, LoadOf, AdminSlotsShown DEF Types, RowsOK
<1>2. /\ loads[i].at \in {"asked", "shown"} /\ loads' = [loads EXCEPT ![i] = l]
      /\ UNCHANGED <<row, maint, list, status, silent, order, events, troubles>>
  BY DEF AnswerLoad, server, page
<1>3. StatusTold /\ \A s \in Slots : SlotTold(s)
  BY DEF Console
<1>4. /\ loads[i].at = "asked" => l.at = "rows" /\ \A s : Right(l.rows, s)
      /\ loads[i].at = "shown" => l.at = "status" /\ l.on = maint
  BY DEF AdminSlots, Right, Same
<1> HIDE DEF l
<1>5. /\ Len(loads') = Len(loads) /\ DOMAIN loads' = DOMAIN loads
      /\ \A j \in DOMAIN loads : loads'[j] = IF j = i THEN l ELSE loads[j]
  BY <1>1, <1>2, NextStage DEF Types
<1>6. \A j \in DOMAIN loads : Waiting(loads'[j]) <=> Waiting(loads[j])
  BY <1>2, <1>4, <1>5 DEF Waiting
<1>7. ASSUME NEW s \in Slots PROVE SlotTold(s)'
  <2>0. PatchTold(s)'
    BY <1>2, <1>3 DEF SlotTold, PatchTold, Answering, Same
  <2>1. CASE /\ s \in silent \/ Patching(s) \/ Right(list, s)
             /\ \A k \in DOMAIN loads : ~Waiting(loads[k])
    <3>1. \A k \in DOMAIN loads' : ~Waiting(loads'[k])
      BY <1>5, <1>6, <2>1
    <3>2. s \in silent' \/ Patching(s)' \/ Right(list, s)'
      BY <1>2, <2>1 DEF Patching, Right, Same
    <3> QED BY <2>0, <3>1, <3>2 DEF SlotTold, RowTold, Waiting
  <2>2. ASSUME NEW k \in DOMAIN loads, Brings(loads[k], s),
               \A j \in DOMAIN loads : j > k => ~Waiting(loads[j])
        PROVE  SlotTold(s)'
    <3>1. Brings(loads'[k], s)
      BY <1>2, <1>4, <1>5, <1>6, <2>2 DEF Brings
    <3>2. Brings(loads[k], s)'
      BY <1>2, <3>1 DEF Brings, Right, Same, Waiting
    <3>3. k \in DOMAIN loads' /\ \A j \in DOMAIN loads' : j > k => ~Waiting(loads'[j])
      BY <1>5, <1>6, <2>2
    <3>4. RowTold(s)'
      BY <3>2, <3>3 DEF RowTold, Waiting
    <3> QED BY <2>0, <3>4 DEF SlotTold
  <2> QED BY <1>3, <2>1, <2>2 DEF SlotTold, RowTold
<1>8. StatusTold'
  <2>1. Len(loads) \in Nat /\ DOMAIN loads = 1..Len(loads)
    BY LoadsAre
  <2>2. loads # <<>> /\ loads' # <<>>
    BY <1>5, <2>1
  <2>3. CASE i = Len(loads)
    BY <1>2, <1>4, <1>5, <2>2, <2>3 DEF StatusTold
  <2>4. CASE i # Len(loads)
    <3>1. Len(loads) \in DOMAIN loads
      BY <2>1
    <3> QED BY <1>2, <1>3, <1>5, <2>2, <2>4, <3>1 DEF StatusTold, Answering, Reloading
  <2> QED BY <2>3, <2>4
<1> QED BY <1>7, <1>8 DEF Console

\* The rows shown first are those of the oldest load.
LEMMA ShowRowsConsole ==
  ASSUME Types, Console, Orderly, NEW i \in DOMAIN loads, ShowRows(i)
  PROVE  Console'
<1> SUFFICES ASSUME troubles = 0, ~Answering PROVE Console'
  BY AnsweringTells DEF Console, ShowRows, Answering
<1> DEFINE l == [date |-> loads[i].date, at |-> "shown"]
<1>1. l \in Load
  <2>1. loads[i] \in Load
    BY DEF Types, LoadsOK
  <2> QED BY <2>1, LoadKinds, LoadOf
<1>2. /\ loads[i].at = "rows" /\ loads' = [loads EXCEPT ![i] = l] /\ list' = loads[i].rows
      /\ silent' = loads[i].stale \cup {s \in silent : Patching(s)}
      /\ UNCHANGED <<row, maint, status, order, events, troubles>>
  BY DEF ShowRows, server
<1>3. StatusTold /\ \A s \in Slots : SlotTold(s)
  BY DEF Console
<1>4. l.at = "shown"
  OBVIOUS
<1> HIDE DEF l
<1>5. /\ Len(loads') = Len(loads) /\ DOMAIN loads' = DOMAIN loads
      /\ \A j \in DOMAIN loads : loads'[j] = IF j = i THEN l ELSE loads[j]
  BY <1>1, <1>2, NextStage DEF Types
<1>6. Len(loads) \in Nat /\ DOMAIN loads = 1..Len(loads)
  BY LoadsAre
<1>7. \A j \in DOMAIN loads : j < i => ~Waiting(loads[j])
  BY <1>6 DEF ShowRows, Overtakes, Orderly, Waiting
<1>8. ASSUME NEW s \in Slots PROVE PatchTold(s)'
  <2>1. CASE s \in silent'
    BY <2>1 DEF PatchTold
  <2>2. CASE s \notin silent'
    <3>1. CASE s \in silent
      <4>1. ~Patching(s)
        BY <1>2, <2>2, <3>1
      <4>2. \A j \in DOMAIN events' : ~Patches(events'[j], s)
        BY <1>2, <4>1, PatchingIs
      <4> QED BY <4>2 DEF PatchTold, Patches
    <3>2. CASE s \notin silent
      BY <1>2, <1>3, <3>2 DEF SlotTold, PatchTold, Answering, Same
    <3> QED BY <3>1, <3>2
  <2> QED BY <2>1, <2>2
<1>9. ASSUME NEW s \in Slots PROVE RowTold(s)'
  <2>0. PICK k \in DOMAIN loads : /\ Brings(loads[k], s)
                                  /\ \A j \in DOMAIN loads : j > k => ~Waiting(loads[j])
    <3>1. Waiting(loads[i])
      BY <1>2 DEF Waiting
    <3> QED BY <1>3, <3>1 DEF SlotTold, RowTold
  <2>1. CASE k = i
    <3>1. \A j \in DOMAIN loads' : ~Waiting(loads'[j])
      BY <1>4, <1>5, <1>6, <1>7, <2>0, <2>1 DEF Waiting
    <3>2. s \in loads[i].stale \/ Right(loads[i].rows, s)
      BY <1>2, <2>0, <2>1 DEF Brings
    <3>3. s \in silent' \/ Right(list, s)'
      BY <1>2, <3>2 DEF Right, Same
    <3> QED BY <3>1, <3>3 DEF RowTold, Waiting
  <2>2. CASE k # i
    <3>1. loads'[k] = loads[k] /\ k \in DOMAIN loads'
      BY <1>5, <2>0, <2>2
    <3>2. \A j \in DOMAIN loads' : j > k => ~Waiting(loads'[j])
      BY <1>4, <1>5, <2>0 DEF Waiting
    <3>3. Brings(loads[k], s)'
      BY <1>2, <2>0, <3>1 DEF Brings, Right, Same, Waiting
    <3> QED BY <3>1, <3>2, <3>3 DEF RowTold, Waiting
  <2> QED BY <2>1, <2>2
<1>10. StatusTold'
  <2>1. loads # <<>> /\ loads' # <<>> /\ Len(loads) \in DOMAIN loads
    BY <1>5, <1>6
  <2> QED BY <1>2, <1>3, <1>4, <1>5, <2>1 DEF StatusTold, Answering, Reloading
<1> QED BY <1>8, <1>9, <1>10 DEF Console, SlotTold

\* So is the status: the load that is done is the first of the sequence.
LEMMA ShowStatusConsole ==
  ASSUME Types, Console, Orderly, NEW i \in DOMAIN loads, ShowStatus(i)
  PROVE  Console'
<1> SUFFICES ASSUME troubles = 0, ~Answering PROVE Console'
  BY AnsweringTells DEF Console, ShowStatus, Answering
<1>1. /\ loads[i].at = "status" /\ status' = loads[i].on /\ loads' = RemoveAt(loads, i)
      /\ UNCHANGED <<row, maint, list, silent, order, events, troubles>>
  BY DEF ShowStatus, server
<1>2. StatusTold /\ \A s \in Slots : SlotTold(s)
  BY DEF Console
<1>3. /\ Len(loads) \in Nat /\ DOMAIN loads = 1..Len(loads)
      /\ \A j \in DOMAIN loads : loads[j].at \in {"asked", "rows", "shown", "status"}
  BY LoadsAre
<1>4. i = 1
  <2>1. \A j \in 1..(i - 1) : j \in DOMAIN loads
    BY <1>3
  <2>2. \A j \in 1..(i - 1) : FALSE
    BY <1>3, <2>1 DEF ShowStatus, Overtakes, Orderly
  <2>3. 1 \in 1..(i - 1) \/ i = 1
    BY <1>3
  <2> QED BY <2>2, <2>3
<1>5. /\ Len(loads') = Len(loads) - 1 /\ DOMAIN loads' = 1..(Len(loads) - 1)
      /\ \A j \in 1..(Len(loads) - 1) : loads'[j] = loads[j + 1]
      /\ loads' \in Seq(Load)
  <2>1. \A j \in 1..(Len(loads) - 1) : ~(j < 1)
    BY <1>3
  <2> QED BY <1>1, <1>4, <2>1, OneLess DEF Types, LoadsOK
<1>6. ~Waiting(loads[1])
  BY <1>1, <1>4 DEF Waiting
<1>7. ASSUME NEW s \in Slots PROVE SlotTold(s)'
  <2>0. PatchTold(s)'
    BY <1>1, <1>2 DEF SlotTold, PatchTold, Answering, Same
  <2>1. CASE /\ s \in silent \/ Patching(s) \/ Right(list, s)
             /\ \A k \in DOMAIN loads : ~Waiting(loads[k])
    <3>1. ASSUME NEW k \in DOMAIN loads' PROVE ~Waiting(loads'[k])
      <4>1. loads'[k] = loads[k + 1] /\ k + 1 \in DOMAIN loads
        BY <1>3, <1>5
      <4> QED BY <2>1, <4>1
    <3>2. s \in silent' \/ Patching(s)' \/ Right(list, s)'
      BY <1>1, <2>1 DEF Patching, Right, Same
    <3> QED BY <2>0, <3>1, <3>2 DEF SlotTold, RowTold, Waiting
  <2>2. ASSUME NEW k \in DOMAIN loads, Brings(loads[k], s),
               \A j \in DOMAIN loads : j > k => ~Waiting(loads[j])
        PROVE  SlotTold(s)'
    <3>1. k # 1 /\ k - 1 \in DOMAIN loads'
      BY <1>3, <1>5, <1>6, <2>2 DEF Brings
    <3>2. loads'[k - 1] = loads[k]
      BY <1>3, <1>5, <3>1
    <3>3. ASSUME NEW j \in DOMAIN loads', j > k - 1 PROVE ~Waiting(loads'[j])
      <4>1. loads'[j] = loads[j + 1] /\ j + 1 \in DOMAIN loads
        BY <1>3, <1>5
      <4>2. j + 1 > k
        BY <1>3, <1>5, <3>3
      <4> QED BY <2>2, <4>1, <4>2
    <3>4. Brings(loads[k - 1], s)'
      BY <1>1, <2>2, <3>2 DEF Brings, Right, Same, Waiting
    <3>5. RowTold(s)'
      BY <3>1, <3>3, <3>4 DEF RowTold, Waiting
    <3> QED BY <2>0, <3>5 DEF SlotTold
  <2> QED BY <1>2, <2>1, <2>2 DEF SlotTold, RowTold
<1>8. StatusTold'
  <2>1. CASE Len(loads) = 1
    <3>1. loads' = <<>>
      BY <1>5, <2>1
    <3> QED BY <1>1, <1>2, <1>4, <2>1, <3>1 DEF StatusTold, Answering, Reloading
  <2>2. CASE Len(loads) # 1
    <3>1. loads # <<>> /\ loads' # <<>> /\ loads'[Len(loads')] = loads[Len(loads)]
      BY <1>3, <1>5, <2>2
    <3> QED BY <1>1, <1>2, <3>1 DEF StatusTold, Answering, Reloading
  <2> QED BY <2>1, <2>2
<1> QED BY <1>7, <1>8 DEF Console

\* A patch shows a row as another patch will, or as it is.
LEMMA EventConsole ==
  ASSUME Types, Console, HandleWSEvent
  PROVE  Console'
<1> SUFFICES ASSUME troubles = 0, ~Answering PROVE Console'
  BY AnsweringTells DEF Console, HandleWSEvent, Answering
<1>0. PICK e : e = Head(events)
  OBVIOUS
<1>1. /\ events # <<>> /\ list' = Dispatched(e)
      /\ UNCHANGED <<row, maint, status, silent, order, troubles>>
      /\ e.type = "reload" => CanLoad /\ loads' = WithLoad(First)
      /\ e.type # "reload" => loads' = loads
  BY <1>0 DEF HandleWSEvent, server
<1>2. StatusTold /\ \A s \in Slots : SlotTold(s)
  BY DEF Console
<1>3. /\ e \in Event /\ Len(events') = Len(events) - 1
      /\ \A j \in 1..Len(events') : events'[j] = events[j + 1]
      /\ Len(events) \in Nat /\ DOMAIN events = 1..Len(events) /\ DOMAIN events' = 1..Len(events')
      /\ e = events[1]
  BY <1>0, <1>1, EventSteps, EventsAre DEF Types, EventsOK
<1>4. /\ \A j \in DOMAIN events' : /\ j + 1 \in DOMAIN events /\ j \in Nat
                                   /\ events'[j] = events[j + 1]
      /\ \A j \in DOMAIN events :
           j # 1 => j - 1 \in DOMAIN events' /\ events'[j - 1] = events[j] /\ j \in Nat
      /\ 1 \in DOMAIN events
  <2>1. Len(events) > 0
    BY <1>1, <1>3 DEF Types, EventsOK
  <2> QED BY <1>3, <2>1
<1>5. ASSUME NEW s \in Slots PROVE PatchTold(s)'
  <2> SUFFICES ASSUME s \notin silent PROVE PatchTold(s)'
    BY <1>1 DEF PatchTold
  <2>1. ASSUME NEW i \in DOMAIN events', Patches(events'[i], s),
               \A j \in DOMAIN events' : j > i => ~Patches(events'[j], s)
        PROVE  Same(events[i].sl, s)'
    <3>1. i + 1 \in DOMAIN events /\ events'[i] = events[i + 1] /\ i \in Nat
      BY <1>4, <2>1
    <3>2. ASSUME NEW j \in DOMAIN events, j > i + 1 PROVE ~Patches(events[j], s)
      <4>1. j # 1 /\ j \in Nat
        BY <1>3, <3>1, <3>2
      <4>2. j - 1 \in DOMAIN events' /\ events'[j - 1] = events[j] /\ j - 1 > i
        BY <1>4, <3>1, <3>2, <4>1
      <4> QED BY <2>1, <4>2
    <3>3. Same(events[i + 1].sl, s)
      BY <1>2, <2>1, <3>1, <3>2 DEF SlotTold, PatchTold
    <3> QED BY <1>1, <3>1, <3>3 DEF Same
  <2> QED BY <2>1 DEF PatchTold, Patches
<1>6. CASE e.type = "reload"
  BY <1>1, <1>5, <1>6, FreshLoad, AdminScreenAssumption DEF Console, SlotTold
<1>7. CASE e.type # "reload"
  <2>1. loads' = loads
    BY <1>1, <1>7
  <2>2. Reloading => Reloading'
    BY <1>3, <1>4, <1>7 DEF Reloading
  <2>3. StatusTold'
    BY <1>1, <1>2, <2>1, <2>2 DEF StatusTold
  <2>4. ASSUME NEW s \in Slots, ~Patches(e, s)
        PROVE  /\ Right(list, s) => Right(list', s)
               /\ Patching(s) => Patching(s)'
    <3>1. list \in [DOMAIN list -> Row]
      BY ShownIs DEF Types, PageOK
    <3>2. \/ list' = list
          \/ e.s \in DOMAIN list /\ list' = [list EXCEPT ![e.s].booked = FALSE]
          \/ /\ e.type = "slot" /\ e.s \in DOMAIN list
             /\ list' = [list EXCEPT ![e.s] = e.sl]
      BY <1>1 DEF Dispatched
    <3>3. Right(list, s) => Right(list', s)
      BY <2>4, <3>1, <3>2 DEF Row, Right, Same, Patches
    <3>4. Patching(s) => Patching(s)'
      BY <1>3, <1>4, <2>4, PatchingIs
    <3> QED BY <3>3, <3>4
  <2>5. ASSUME NEW s \in Slots, Patches(e, s)
        PROVE  s \in silent \/ Patching(s)' \/ Right(list', s)
    <3> SUFFICES ASSUME s \notin silent, ~Patching(s)' PROVE Right(list', s)
      OBVIOUS
    <3>1. ASSUME NEW j \in DOMAIN events, j > 1 PROVE ~Patches(events[j], s)
      BY <1>3, <1>4, <3>1, PatchingIs
    <3>2. Same(e.sl, s)
      BY <1>2, <1>3, <1>4, <2>5, <3>1 DEF SlotTold, PatchTold
    <3>3. list \in [DOMAIN list -> Row]
      BY ShownIs DEF Types, PageOK
    <3>4. list' = IF s \in DOMAIN list THEN [list EXCEPT ![s] = e.sl] ELSE list
      BY <1>1, <2>5 DEF Dispatched, Patches
    <3> QED BY <3>2, <3>3, <3>4 DEF Right
  <2>6. ASSUME NEW s \in Slots PROVE RowTold(s)'
    <3>1. CASE \E i \in DOMAIN loads : /\ Brings(loads[i], s)
                                       /\ \A j \in DOMAIN loads : j > i => ~Waiting(loads[j])
      BY <1>1, <2>1, <3>1 DEF RowTold, Brings, Waiting, Right, Same
    <3>2. CASE /\ s \in silent \/ Patching(s) \/ Right(list, s)
               /\ \A i \in DOMAIN loads : ~Waiting(loads[i])
      <4>1. s \in silent \/ Patching(s)' \/ Right(list', s)
        BY <2>4, <2>5, <3>2
      <4>2. s \in silent' \/ Patching(s)' \/ Right(list, s)'
        BY <1>1, <4>1 DEF Right, Same
      <4> QED BY <2>1, <3>2, <4>2 DEF RowTold, Waiting
    <3> QED BY <1>2, <3>1, <3>2 DEF SlotTold, RowTold
  <2> QED BY <1>5, <2>3, <2>6 DEF Console, SlotTold
<1> QED BY <1>6, <1>7

LEMMA PageConsole ==
  ASSUME Types, Console,
         \/ OpenPrice \/ ClosePrice \/ \E d \in Dates : SelectDate(d)
         \/ \E all \in BOOLEAN : SelectAll(all) \/ \E s \in Slots : ToggleSlotSelect(s)
  PROVE  Console'
<1>1. ASSUME NEW d \in Dates, SelectDate(d) PROVE Console'
  <2>1. StatusTold' /\ \A s \in Slots : RowTold(s)'
    BY <1>1, FreshLoad DEF SelectDate
  <2>2. UNCHANGED <<row, order, events, silent, troubles>>
    BY <1>1 DEF SelectDate, server
  <2>3. \A s \in Slots : PatchTold(s) => PatchTold(s)'
    BY <2>2 DEF PatchTold, Answering, Same
  <2> QED BY <2>1, <2>2, <2>3 DEF Console, SlotTold
<1>2. CASE \/ OpenPrice \/ ClosePrice
           \/ \E all \in BOOLEAN : SelectAll(all) \/ \E s \in Slots : ToggleSlotSelect(s)
  <2>1. UNCHANGED <<order, loads, list, status, maint, silent, troubles, row, events>>
    BY <1>2 DEF OpenPrice, ClosePrice, SelectAll, ToggleSlotSelect, server
  <2>2. Answering => Answering'
    BY <2>1 DEF Answering
  <2> QED BY <2>1, <2>2, SameConsole DEF RowKept
<1> QED BY <1>1, <1>2

LEMMA ClickConsole ==
  ASSUME Types, Console, NEW c \in Calls, Click(c)
  PROVE  Console'
<1>1. PICK o : Ordered(o) /\ Send(c, o)
  BY ClicksOrder
<1>2. UNCHANGED <<loads, list, status, maint, silent, troubles, row, events>>
  BY <1>1 DEF Send, server, page
<1>3. Answering => Answering'
  <2>1. order[c].at # "ok" /\ \A d \in Calls : d # c => order'[d] = order[d]
    BY <1>1 DEF Send, Types, OrdersOK, Free
  <2> QED BY <2>1 DEF Answering
<1> QED BY <1>2, <1>3, SameConsole DEF RowKept

\* An order that is loaded or refused tells nothing.
LEMMA QuietOrders ==
  ASSUME Types, Console, NEW c \in Calls, LoadSlot(c) \/ Refused(c)
  PROVE  Console'
<1>1. UNCHANGED <<loads, list, status, maint, silent, troubles, row, events>>
  BY DEF LoadSlot, Refused, server, page
<1>2. order[c].at # "ok" /\ \A d \in Calls : d # c => order'[d] = order[d]
  BY DEF LoadSlot, Refused, Types, OrdersOK
<1>3. Answering => Answering'
  BY <1>2 DEF Answering
<1> QED BY <1>1, <1>3, SameConsole DEF RowKept

\* What an order wrote is told by its answer.
LEMMA DoneConsole ==
  ASSUME Types, NEW c \in Calls, SaveSlot(c) \/ Handle(c)
  PROVE  Console'
<1>1. order'[c].at = "ok"
  <2>1. CASE SaveSlot(c)
    BY <2>1 DEF SaveSlot, Types, OrdersOK
  <2>2. CASE Handle(c)
    <3>1. order[c] \in Order /\ order[c].at = "sent"
      BY <2>2, HandleTypes DEF Handle
    <3>2. [order[c] EXCEPT !.at = "ok"].at = "ok"
      BY <3>1 DEF Order
    <3> QED BY <2>2, <3>2 DEF Handle, Types, OrdersOK
  <2> QED BY <2>1, <2>2
<1> QED BY <1>1, AnsweringTells DEF Answering

\* The answer finds all events handled, and loads.
LEMMA AnsweredConsole ==
  ASSUME Types, Orderly, NEW c \in Calls, Answered(c)
  PROVE  Console'
<1>1. order[c] \in Order
  BY AnswerTypes
<1>2. StatusTold' /\ \A s \in Slots : RowTold(s)'
  BY <1>1, OrderKinds, FreshLoad DEF Answered
<1>3. events' = <<>>
  BY DEF Answered, InTime, Orderly
<1> QED BY <1>2, <1>3 DEF Console, SlotTold, PatchTold

LEMMA TroubleConsole ==
  ASSUME Types, Trouble
  PROVE  Console'
BY DEF Trouble, Types, CountsOK, Console

LEMMA CustomerConsole ==
  ASSUME Types, Console, NEW s \in Slots,
         MaintenanceCheck(s) \/ CreateBooking(s) \/ HoldRunsOut(s)
  PROVE  Console'
<1>1. \A x \in Slots : RowKept(x)
  BY CustomersDecideNothing DEF RowKept
<1>2. /\ UNCHANGED <<loads, list, status, maint, silent, troubles>>
      /\ events' = events \/ events' = Append(events, [type |-> "reload"])
  BY DEF MaintenanceCheck, CreateBooking, HoldRunsOut, page
<1>3. Answering => Answering'
  <2>1. CASE order' = order
    BY <2>1 DEF Answering
  <2>2. CASE HoldRunsOut(s)
    <3>1. \A c \in Calls : order[c].at = "ok" => order'[c] = order[c]
      BY <2>2 DEF HoldRunsOut
    <3> QED BY <3>1 DEF Answering
  <2> QED BY <2>1, <2>2 DEF MaintenanceCheck, CreateBooking
<1> QED BY <1>1, <1>2, <1>3, SameConsole

(***************************************************************************)
(* The other administrators and handlers.                                  *)
(***************************************************************************)
LEMMA LoadElsewhereConsole ==
  ASSUME Types, Console, NEW s, NEW by, LoadElsewhere(s, by)
  PROVE  Console'
<1>1. UNCHANGED <<order, loads, list, status, maint, silent, troubles, row, events>>
  BY DEF LoadElsewhere, page
<1>2. Answering => Answering'
  BY <1>1 DEF Answering
<1> QED BY <1>1, <1>2, SameConsole DEF RowKept

LEMMA MaintenanceConsole ==
  ASSUME Types, Console, MaintenanceElsewhere
  PROVE  Console'
<1> SUFFICES ASSUME troubles = 0, ~Answering PROVE Console'
  BY AnsweringTells DEF Console, MaintenanceElsewhere, Answering
<1> DEFINE e == [type |-> "reload"]
<1>1. /\ events' = Append(events, e)
      /\ UNCHANGED <<row, list, order, loads, silent, troubles>>
  BY DEF MaintenanceElsewhere, page
<1>2. e \in Event /\ e.type = "reload"
  BY DEF Event
<1> HIDE DEF e
<1>3. \A s : EventsKept(s)
  BY <1>1, <1>2, OtherEvent DEF Patches
<1>4. LoadsKept /\ \A s \in Slots : RowKept(s)
  BY <1>1 DEF LoadsKept, RowKept
<1>5. \A s \in Slots : SlotTold(s)'
  BY <1>1, <1>3, <1>4, SlotStays DEF Console
<1>6. StatusTold'
  <2>1. Len(events) + 1 \in DOMAIN events' /\ events'[Len(events) + 1] = e
    BY <1>1, <1>2, OneMoreEvent, EventsAre DEF Types, EventsOK
  <2> QED BY <1>2, <2>1 DEF StatusTold, Reloading
<1> QED BY <1>5, <1>6 DEF Console

\* Slots that change are stale in what is not shown yet, and silent.
LEMMA BehindKept ==
  ASSUME Types, NEW S \in SUBSET Slots, loads' = Behind(S)
  PROVE  /\ LoadsKept /\ Len(loads') = Len(loads)
         /\ \A i \in DOMAIN loads : /\ loads'[i].at = "rows" => S \subseteq loads'[i].stale
                                    /\ loads'[i].at # "rows" => loads'[i] = loads[i]
<1>1. /\ Len(loads') = Len(loads) /\ DOMAIN loads' = DOMAIN loads
      /\ \A i \in DOMAIN loads :
           /\ loads[i].at = "rows" =>
                /\ loads'[i].at = "rows" /\ loads'[i].rows = loads[i].rows
                /\ loads'[i].stale = loads[i].stale \cup S
           /\ loads[i].at # "rows" => loads'[i] = loads[i]
  BY BehindLoads DEF Types
<1> QED BY <1>1 DEF LoadsKept

LEMMA StatusBehind ==
  ASSUME Types, NEW S \in SUBSET Slots, loads' = Behind(S), StatusTold, ~Answering,
         UNCHANGED <<status, maint>>, Reloading => Reloading'
  PROVE  StatusTold'
<1>1. /\ Len(loads') = Len(loads) /\ DOMAIN loads' = DOMAIN loads
      /\ \A i \in DOMAIN loads : loads'[i].at # "rows" => loads'[i] = loads[i]
  BY BehindKept DEF LoadsKept
<1>2. Len(loads) \in Nat /\ DOMAIN loads = 1..Len(loads)
  BY LoadsAre
<1>3. CASE Len(loads) = 0
  <2>1. loads = <<>> /\ loads' = <<>>
    BY <1>1, <1>3, BehindLoads DEF Types, LoadsOK
  <2> QED BY <2>1 DEF StatusTold
<1>4. CASE Len(loads) # 0
  <2>1. loads # <<>> /\ loads' # <<>> /\ Len(loads) \in DOMAIN loads
    BY <1>1, <1>2, <1>4
  <2> QED BY <1>1, <2>1 DEF StatusTold
<1> QED BY <1>3, <1>4

\* The youngest load to be shown knows of a slot that it is stale.
LEMMA ChangedRow ==
  ASSUME Types, NEW s \in Slots, RowTold(s), ~Answering,
         NEW S \in SUBSET Slots, s \in S, loads' = Behind(S),
         s \in silent' \/ Patching(s)'
  PROVE  RowTold(s)'
<1>1. /\ LoadsKept
      /\ \A i \in DOMAIN loads : loads'[i].at = "rows" => s \in loads'[i].stale
  BY BehindKept
<1>2. \A i \in DOMAIN loads : Waiting(loads[i]) <=> Waiting(loads'[i])
  BY <1>1 DEF LoadsKept, Waiting
<1>3. CASE \E i \in DOMAIN loads : /\ Brings(loads[i], s)
                                   /\ \A j \in DOMAIN loads : j > i => ~Waiting(loads[j])
  <2>1. PICK i \in DOMAIN loads : /\ Brings(loads[i], s)
                                  /\ \A j \in DOMAIN loads : j > i => ~Waiting(loads[j])
    BY <1>3
  <2>2. i \in DOMAIN loads' /\ \A j \in DOMAIN loads' : j > i => ~Waiting(loads'[j])
    BY <1>1, <1>2, <2>1 DEF LoadsKept
  <2>3. Brings(loads[i], s)'
    BY <1>1, <1>2, <2>1 DEF Brings, Waiting
  <2> QED BY <2>2, <2>3 DEF RowTold, Waiting
<1>4. CASE \A i \in DOMAIN loads : ~Waiting(loads[i])
  <2>1. \A i \in DOMAIN loads' : ~Waiting(loads'[i])
    BY <1>1, <1>2, <1>4 DEF LoadsKept
  <2> QED BY <2>1 DEF RowTold, Waiting
<1> QED BY <1>3, <1>4 DEF RowTold

\* The row is as it was, and a patch of it is on its way.
LEMMA UnchangedRow ==
  ASSUME NEW s \in Slots, RowTold(s), RowKept(s), LoadsKept, ~Answering, Patching(s)'
  PROVE  RowTold(s)'
<1>1. \A i \in DOMAIN loads : Waiting(loads[i]) <=> Waiting(loads'[i])
  BY DEF LoadsKept, Waiting
<1>2. CASE \E i \in DOMAIN loads : /\ Brings(loads[i], s)
                                   /\ \A j \in DOMAIN loads : j > i => ~Waiting(loads[j])
  <2>1. PICK i \in DOMAIN loads : /\ Brings(loads[i], s)
                                  /\ \A j \in DOMAIN loads : j > i => ~Waiting(loads[j])
    BY <1>2
  <2>2. i \in DOMAIN loads' /\ \A j \in DOMAIN loads' : j > i => ~Waiting(loads'[j])
    BY <1>1, <2>1 DEF LoadsKept
  <2>3. Brings(loads[i], s)'
    BY <1>1, <2>1, RightKept DEF LoadsKept, Brings, Right, Same, Waiting
  <2> QED BY <2>2, <2>3 DEF RowTold, Waiting
<1>3. CASE \A i \in DOMAIN loads : ~Waiting(loads[i])
  <2>1. \A i \in DOMAIN loads' : ~Waiting(loads'[i])
    BY <1>1, <1>3 DEF LoadsKept
  <2> QED BY <2>1 DEF RowTold, Waiting
<1> QED BY <1>2, <1>3 DEF RowTold

LEMMA BulkLockConsole ==
  ASSUME Types, Console, NEW S \in SUBSET Slots, NEW on \in BOOLEAN, BulkLockElsewhere(S, on)
  PROVE  Console'
<1> SUFFICES ASSUME troubles = 0, ~Answering PROVE Console'
  BY AnsweringTells DEF Console, BulkLockElsewhere, Answering
<1>1. PICK D \in SUBSET Slots : D = Decided(row')
  BY DEF Decided
<1>2. /\ loads' = Behind(D) /\ silent' = silent \cup D
      /\ UNCHANGED <<list, status, maint, events, order, troubles>>
  BY <1>1 DEF BulkLockElsewhere
<1>3. \A s \in Slots \ D : RowKept(s)
  BY <1>1 DEF Decided, RowKept
<1>4. LoadsKept
  BY <1>2, BehindKept
<1>5. ASSUME NEW s \in Slots PROVE SlotTold(s)'
  <2>1. SlotTold(s) /\ EventsKept(s)
    BY <1>2 DEF Console, EventsKept
  <2>2. CASE s \in D
    <3>1. RowTold(s)'
      BY <1>2, <2>1, <2>2, ChangedRow DEF SlotTold
    <3>2. PatchTold(s)'
      BY <1>2, <2>2 DEF PatchTold
    <3> QED BY <3>1, <3>2 DEF SlotTold
  <2>3. CASE s \notin D
    BY <1>2, <1>3, <1>4, <2>1, <2>3, SlotStays
  <2> QED BY <2>2, <2>3
<1>6. StatusTold'
  BY <1>2, StatusBehind DEF Console, Reloading
<1> QED BY <1>5, <1>6 DEF Console

\* A saved row is told by a patch, or it is known that nothing tells it.
LEMMA SaveConsole ==
  ASSUME Types, Console, NEW x \in saving, SaveElsewhere(x)
  PROVE  Console'
<1> SUFFICES ASSUME troubles = 0, ~Answering PROVE Console'
  BY AnsweringTells DEF Console, SaveElsewhere, Answering
<1>1. PICK D \in SUBSET Slots : D = Decided(row')
  BY DEF Decided
<1>2. PICK z \in Slots : z = x.s
  BY SaveKinds DEF Types, RowsOK
<1>3. PICK r \in Row : r = Written(x)
  BY SaveKinds DEF Types, RowsOK
<1>4. /\ loads' = Behind(D) /\ row' = [row EXCEPT ![z] = r]
      /\ silent' = IF x.by = "toggle" THEN silent ELSE silent \cup D
      /\ events' = events \o Heard(x)
      /\ UNCHANGED <<list, status, maint, order, troubles>>
  BY <1>1, <1>2, <1>3 DEF SaveElsewhere
<1>5. row'[z] = r /\ \A s \in Slots : (s # z => row'[s] = row[s])
  BY <1>4 DEF Types, RowsOK
<1>6. D \subseteq {z} /\ \A s \in Slots \ D : RowKept(s)
  BY <1>1, <1>5 DEF Decided, RowKept
<1>7. LoadsKept
  BY <1>4, BehindKept
<1>8. silent \subseteq silent'
  BY <1>4
<1>9. CASE x.by = "toggle"
  <2>1. PICK e \in Event : e = [type |-> "slot", s |-> z, sl |-> r]
    BY DEF Event
  <2>2. events' = Append(events, e)
    <3>1. Heard(x) = <<e>>
      BY <1>2, <1>3, <1>9, <2>1 DEF Heard
    <3>2. events \in Seq(Event)
      BY DEF Types, EventsOK
    <3> QED BY <1>4, <3>1, <3>2, AppendIsConcat
  <2>3. Patches(e, z) /\ e.sl = r /\ \A s : s # z => ~Patches(e, s)
    BY <2>1 DEF Patches
  <2>4. /\ Len(events) \in Nat /\ DOMAIN events' = 1..(Len(events) + 1)
        /\ events'[Len(events) + 1] = e
    BY <2>2, OneMoreEvent, EventsAre DEF Types, EventsOK
  <2>5. PICK n \in Nat : n = Len(events) + 1
    BY <2>4
  <2>6. DOMAIN events' = 1..n /\ n \in 1..n /\ events'[n] = e
    BY <2>4, <2>5
  <2>7. ASSUME NEW s \in Slots, s # z PROVE SlotTold(s)'
    <3>1. EventsKept(s)
      BY <2>2, <2>3, <2>7, OtherEvent
    <3>2. RowKept(s)
      BY <1>6, <2>7
    <3> QED BY <1>4, <1>7, <1>8, <2>7, <3>1, <3>2, SlotStays DEF Console
  <2>8. PatchTold(z)'
    <3>1. ASSUME NEW i \in DOMAIN events', Patches(events'[i], z),
                 \A j \in DOMAIN events' : j > i => ~Patches(events'[j], z)
          PROVE  Same(events[i].sl, z)'
      <4>1. i = n
        BY <2>3, <2>6, <3>1
      <4> QED BY <1>5, <2>3, <2>6, <4>1 DEF Same
    <3> QED BY <3>1 DEF PatchTold, Patches
  <2>9. RowTold(z)'
    <3>1. Patching(z)'
      BY <2>3, <2>6, PatchingIs
    <3>3. CASE z \in D
      BY <1>4, <3>1, <3>3, ChangedRow DEF Console, SlotTold
    <3>4. CASE z \notin D
      <4>1. RowKept(z) /\ RowTold(z)
        BY <1>6, <3>4 DEF Console, SlotTold
      <4> QED BY <1>7, <3>1, <4>1, UnchangedRow
    <3> QED BY <3>3, <3>4
  <2>10. StatusTold'
    <3>1. Reloading => Reloading'
      <4>1. PICK y : ~Patches(e, y)
        <5>1. \E y : y # z
          <6>1. {z} # z \/ {} # z
            OBVIOUS
          <6> QED BY <6>1
        <5> QED BY <2>3, <5>1
      <4> QED BY <2>2, <4>1, OtherEvent
    <3> QED BY <1>4, <3>1, StatusBehind DEF Console
  <2> QED BY <2>7, <2>8, <2>9, <2>10 DEF Console, SlotTold
<1>10. CASE x.by # "toggle"
  <2>1. PICK e \in Event : e = [type |-> "available", s |-> z]
    BY DEF Event
  <2>2. events' = events \/ events' = Append(events, e)
    <3>1. Heard(x) = <<e>> \/ Heard(x) = <<>>
      BY <1>2, <1>10, <2>1 DEF Heard
    <3>2. events \in Seq(Event)
      BY DEF Types, EventsOK
    <3>3. events \o <<>> = events /\ events \o <<e>> = Append(events, e)
      BY <3>2, AppendIsConcat, EmptySeq, ConcatEmptySeq
    <3> QED BY <1>4, <3>1, <3>3
  <2>3. \A s : ~Patches(e, s)
    BY <2>1 DEF Patches
  <2>4. \A s : EventsKept(s) /\ (Reloading => Reloading')
    BY <2>2, <2>3, OtherEvent
  <2>5. ASSUME NEW s \in Slots PROVE SlotTold(s)'
    <3>1. CASE s \in D
      <4>1. s \in silent'
        BY <1>4, <1>10, <3>1
      <4>2. RowTold(s)'
        BY <1>4, <3>1, <4>1, ChangedRow DEF Console, SlotTold
      <4>3. PatchTold(s)'
        BY <4>1 DEF PatchTold
      <4> QED BY <4>2, <4>3 DEF SlotTold
    <3>2. CASE s \notin D
      BY <1>4, <1>6, <1>7, <1>8, <2>4, <3>2, SlotStays DEF Console
    <3> QED BY <3>1, <3>2
  <2>6. StatusTold'
    BY <1>4, <2>4, StatusBehind DEF Console
  <2> QED BY <2>5, <2>6 DEF Console
<1> QED BY <1>9, <1>10

LEMMA StepConsole ==
  ASSUME Orderly
  PROVE  Types /\ Console /\ [ANext]_avars => Console'
<1>1. ASSUME Types, Console, UNCHANGED avars PROVE Console'
  <2>1. UNCHANGED <<order, loads, list, status, maint, silent, troubles, row, events>>
    BY <1>1 DEF avars, server, page
  <2>2. Answering => Answering'
    BY <2>1 DEF Answering
  <2> QED BY <1>1, <2>1, <2>2, SameConsole DEF RowKept
<1>2. ASSUME Types, Console, ANext PROVE Console'
  <2>1. ASSUME NEW i \in DOMAIN loads,
               AnswerLoad(i) \/ ShowRows(i) \/ ShowStatus(i) \/ LoadLost(i)
        PROVE  Console'
    BY <1>2, <2>1, AnswerLoadConsole, ShowRowsConsole, ShowStatusConsole, TroubleConsole
       DEF LoadLost
  <2>2. CASE \/ HandleWSEvent \/ OpenPrice \/ ClosePrice \/ MaintenanceElsewhere
             \/ \E d \in Dates : SelectDate(d)
             \/ \E all \in BOOLEAN : SelectAll(all)
    BY <1>2, <2>2, EventConsole, PageConsole, MaintenanceConsole
  <2>3. ASSUME NEW s \in Slots,
               ToggleSlotSelect(s) \/ MaintenanceCheck(s) \/ CreateBooking(s) \/ HoldRunsOut(s)
        PROVE  Console'
    BY <1>2, <2>3, PageConsole, CustomerConsole
  <2>4. ASSUME NEW c \in Calls, \/ Click(c) \/ LoadSlot(c) \/ SaveSlot(c) \/ Handle(c)
                                \/ Answered(c) \/ Refused(c) \/ Lost(c)
        PROVE  Console'
    BY <1>2, <2>4, ClickConsole, QuietOrders, DoneConsole, AnsweredConsole, TroubleConsole
       DEF Lost
  <2>5. CASE \/ \E s \in Slots, by \in {"paid", "failed", "release", "toggle"} :
                  LoadElsewhere(s, by)
             \/ \E x \in saving : SaveElsewhere(x)
             \/ \E S \in SUBSET Slots, on \in BOOLEAN : BulkLockElsewhere(S, on)
    BY <1>2, <2>5, LoadElsewhereConsole, SaveConsole, BulkLockConsole
  <2> QED BY <1>2, <2>1, <2>2, <2>3, <2>4, <2>5 DEF ANext
<1> QED BY <1>1, <1>2

LEMMA QuietIsTold == Types /\ Console => ConsoleIsTrue
<1> SUFFICES ASSUME Types, Console, Quiet, troubles = 0
             PROVE  /\ status = maint
                    /\ \A s \in DOMAIN list \ silent : /\ list[s].locked = row[s].locked
                                                       /\ list[s].priced = row[s].priced
  BY DEF ConsoleIsTrue
<1>1. ~Answering
  BY DEF Quiet, Answering, Free
<1>2. loads = <<>> /\ DOMAIN loads = {} /\ DOMAIN events = {}
  BY DEF Quiet
<1>3. status = maint
  BY <1>1, <1>2 DEF Console, StatusTold, Reloading
<1>4. DOMAIN list \subseteq Slots
  BY ShownIs DEF Types, PageOK
<1>5. \A s \in Slots : s \in silent \/ Right(list, s)
  BY <1>1, <1>2 DEF Console, SlotTold, RowTold, Patching
<1> QED BY <1>3, <1>4, <1>5 DEF Right, Same

(***************************************************************************)
(* If no call is lost, events come before the answer to the order that     *)
(* emitted them and the answers of loads come in order, then the page      *)
(* tells the truth about locks, prices and the maintenance switch whenever *)
(* nothing is under way, but for the slots changed behind its back since   *)
(* it read them.  So it is for any number of orders and loads that cross,  *)
(* of handlers that save rows they loaded before, and of administrators,   *)
(* and even if the one at this page clicks on before the answers are there.*)
(* A patch may show a row older than a load that was shown before; the     *)
(* load after the answer to its order, or the patch that follows it,       *)
(* repairs that.                                                           *)
(***************************************************************************)
THEOREM ConsoleTellsTruth ==
  ASSUME "lag" \notin Habits, "reorder" \notin Habits
  PROVE  ASpec => []ConsoleIsTrue
<1>1. Types /\ Console /\ [ANext]_avars => Console'
  BY StepConsole DEF Orderly
<1> QED BY <1>1, InitConsole, QuietIsTold, AlwaysTypes, PTL DEF ASpec
==============================================================================
