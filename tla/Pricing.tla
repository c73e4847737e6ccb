------------------------------- MODULE Pricing -------------------------------
(***************************************************************************)
(* The yield engine (services/pricing_engine.go): what a customer is shown *)
(* and charged for a slot, while administrators change base prices, rules  *)
(* and the global multiplier and the weather changes.                      *)
(*                                                                         *)
(* An evaluation reads its inputs at different moments: the slot and the   *)
(* active rules, the weather after the last rule, then the global          *)
(* multiplier and the demand.  Base prices are whole paise, as the column  *)
(* holds them, and final prices whole rupees.  Multipliers are whole parts *)
(* of 1 / One, which for One large enough is every float64; their exact    *)
(* product is the fraction num / den, and what float64 makes of it is any  *)
(* price that is a rounding of it.  Logs are left out, and so is the       *)
(* coupon's preview, which prices a slot as a list without a date does.    *)
(***************************************************************************)
EXTENDS Integers, FiniteSets

CONSTANTS
  Slots,
  Peak,         \* the slots that start between 17:00 and 22:59
  StartsAt,     \* when each slot starts
  DateOf,       \* when its date begins
  Weekend,      \* the moments of a Saturday or a Sunday
  Horizon,      \* bound: the last moment of a run
  Types,        \* rule types
  Proposals,    \* the rules administrators may submit
  Prices,       \* the base prices they may submit, as stored
  Multipliers,  \* the global multipliers they may submit
  Fallback,     \* the base price of a slot without one: 500 rupees
  Tenth,        \* a multiplier of 0.1
  Accuracy,     \* float64 is less than 1 / Accuracy of a paisa off
  Evals,        \* requests that price a slot, one after the other
  None          \* no evaluation yet

One == 10 * Tenth

\* fits: the slots and booking dates the rule's turf, dates, weekdays and times
\* of day let through.  hours: MinHoursBefore of an early bird, MaxHoursBefore
\* of a last minute.
Proposal == [type : Types, mult : Int, priority : Int, hours : Int,
             fits : SUBSET (Slots \X Int)]

ASSUME PricingAssumption ==
  /\ Peak \subseteq Slots /\ Weekend \subseteq Int /\ Horizon \in Int
  /\ StartsAt \in [Slots -> Int] /\ DateOf \in [Slots -> Int]
  /\ Fallback \in Int /\ Fallback > 0
  /\ Tenth \in Int /\ Tenth > 0 /\ Accuracy \in Int /\ Accuracy > 2
  /\ Proposals \subseteq Proposal /\ Prices \subseteq Int /\ Multipliers \subseteq Int
  /\ {"peak_hour", "weekend", "weather", "surge", "early_bird", "last_minute"} \subseteq Types

VARIABLES
  base,      \* Slot.BasePrice
  rules,     \* the rules in the table
  active,    \* those of them with IsActive
  admin,     \* AdminGlobalMultiplier
  rain,      \* what the weather service says
  now,       \* the clock
  eval       \* each request's evaluation, under way or finished

pvars == <<base, rules, active, admin, rain, now, eval>>

Positive == {n \in Int : n > 0}
Uses == {"list", "book"}
Demands == {"NORMAL", "SURGE", "FLASH_SALE"}

Mut_BasePrice(p) == p

\* What the engine does with bad input.
BasePrice(p) == IF p <= 0 THEN Fallback ELSE p
Multiplier(m) == IF m <= 0 THEN One ELSE m

\* seen: the active rules when the evaluation began.  rest: those not looked
\* at yet.  applied: appliedTypes.  date: bookingDate.  left: hoursUntilSlot.
Evaluation == [use : Uses, s : Slots, base : Positive, date : Int, left : Int,
               seen : SUBSET Proposal, rest : SUBSET Proposal, applied : SUBSET Types,
               num : Positive, den : Positive, rain : BOOLEAN,
               at : {"rules", "demand"}]

Result == [use : Uses, s : Slots, base : Positive, date : Int, left : Int,
           seen : SUBSET Proposal, rain : BOOLEAN, admin : Positive, demand : Demands,
           price : Int, at : {"priced"}]
-----------------------------------------------------------------------------
(* The engine.                                                             *)

\* p rupees are a rounding of n / d paise that float64 may find.
Rounds(p, n, d) ==
  /\ 100 * p * d - n <= 50 * d + d \div Accuracy
  /\ n - 100 * p * d <= 50 * d + d \div Accuracy

Roundings(n, d) ==
  LET p == n \div (100 * d) IN {r \in {p, p + 1} : Rounds(r, n, d)}

Mut_Charged(b, num, den) ==
  IF num >= 3 * den THEN Roundings(3 * b, 1) ELSE Roundings(b * num, den)

\* Not under half of the base price and not over three times of it; the rounding
\* to a rupee comes last.
Charged(b, num, den) ==
  IF 2 * num <= den THEN Roundings(b, 2)
  ELSE IF num >= 3 * den THEN Roundings(3 * b, 1)
  ELSE Roundings(b * num, den)

\* The multiplier of a built-in step, which a rule of its type replaces.
BuiltIn(holds, type, applied, m) == IF holds /\ type \notin applied THEN m ELSE One

Times(e, m) == IF m = One THEN e ELSE [e EXCEPT !.num = @ * m, !.den = @ * One]

\* A rule without hours is not held to them.
InHours(r, left) ==
  /\ r.type = "early_bird" /\ r.hours > 0 => left >= r.hours
  /\ r.type = "last_minute" /\ r.hours > 0 => left <= r.hours

Mut_Matches(r, e) == <<e.s, e.date>> \in r.fits /\ InHours(r, e.left)

Matches(r, e) == r.type \notin e.applied /\ <<e.s, e.date>> \in r.fits /\ InHours(r, e.left)

UnderWay(e) == eval[e] # None /\ eval[e].at # "priced"

\* A booking being priced holds the lock of the slot's row.
Unlocked(s) == \A e \in Evals : UnderWay(e) => eval[e].use # "book" \/ eval[e].s # s

\* GetAvailableSlots or CreateBooking begins to price a slot: for its own date,
\* or, in a list that was asked for without one, for today.
Start(e, use, s, date) ==
  /\ ~UnderWay(e)
  /\ date = DateOf[s] \/ (use = "list" /\ date = now)
  /\ use = "book" => Unlocked(s)
  /\ eval' = [eval EXCEPT ![e] =
       [use |-> use, s |-> s, base |-> BasePrice(base[s]), date |-> date,
        left |-> StartsAt[s] - now, seen |-> active, rest |-> active, applied |-> {},
        num |-> 1, den |-> 1, rain |-> FALSE, at |-> "rules"]]
  /\ UNCHANGED <<base, rules, active, admin, rain, now>>

\* One turn of the loop.  The order of rules of one priority is not defined:
\* the query sorts by priority only, and so does sort.Slice, which is not stable.
NextRule(e) ==
  /\ UnderWay(e) /\ eval[e].at = "rules"
  /\ \E r \in eval[e].rest :
       /\ \A q \in eval[e].rest : q.priority <= r.priority
       /\ LET ev == [eval[e] EXCEPT !.rest = @ \ {r}] IN
          eval' = [eval EXCEPT ![e] =
            IF Matches(r, ev)
            THEN Times([ev EXCEPT !.applied = @ \cup {r.type}], Multiplier(r.mult))
            ELSE ev]
  /\ UNCHANGED <<base, rules, active, admin, rain, now>>

\* Peak hour, weekend and weather, where no rule of that type applied.
BuiltInTimes(e) ==
  Times(Times(Times(e, BuiltIn(e.s \in Peak, "peak_hour", e.applied, 15 * Tenth)),
              BuiltIn(e.date \in Weekend, "weekend", e.applied, 13 * Tenth)),
        BuiltIn(rain, "weather", e.applied, 7 * Tenth))

BuiltInRules(e) ==
  /\ UnderWay(e) /\ eval[e].at = "rules" /\ eval[e].rest = {}
  /\ eval' = [eval EXCEPT ![e] = [BuiltInTimes(@) EXCEPT !.rain = rain, !.at = "demand"]]
  /\ UNCHANGED <<base, rules, active, admin, rain, now>>

DemandTimes(e, d) ==
  Times(e, CASE d = "SURGE"      -> BuiltIn(TRUE, "surge", e.applied, 14 * Tenth)
             [] d = "FLASH_SALE" -> BuiltIn(TRUE, "last_minute", e.applied, 7 * Tenth)
             [] d = "NORMAL"     -> One)

\* The administrator's multiplier, the demand, and the price.  The demand is a
\* count of the bookings of 30 days, which are not modelled: it may be any.
Finish(e) ==
  /\ UnderWay(e) /\ eval[e].at = "demand"
  /\ \E d \in Demands :
       LET ev == eval[e]
           f == DemandTimes(Times(ev, Multiplier(admin)), d)
       IN  \E p \in Charged(ev.base, f.num, f.den) :
             eval' = [eval EXCEPT ![e] =
               [use |-> ev.use, s |-> ev.s, base |-> ev.base, date |-> ev.date,
                left |-> ev.left, seen |-> ev.seen, rain |-> ev.rain,
                admin |-> Multiplier(admin), demand |-> d, price |-> p, at |-> "priced"]]
  /\ UNCHANGED <<base, rules, active, admin, rain, now>>
-----------------------------------------------------------------------------
(* The administrators.                                                     *)

\* A priority that is not positive becomes 10, and a multiplier must be in
\* 0.2..5.0.  The column's default makes every new rule active.
AdminCreatePricingRule(p) ==
  /\ 2 * Tenth <= p.mult /\ p.mult <= 50 * Tenth
  /\ LET r == [p EXCEPT !.priority = IF @ <= 0 THEN 10 ELSE @] IN
       /\ r \notin rules
       /\ rules' = rules \cup {r} /\ active' = active \cup {r}
  /\ UNCHANGED <<base, admin, rain, now, eval>>

AdminTogglePricingRule(r) ==
  /\ active' = IF r \in active THEN active \ {r} ELSE active \cup {r}
  /\ UNCHANGED <<base, rules, admin, rain, now, eval>>

UpdatePricingMultiplier(m) ==
  /\ 2 * Tenth <= m /\ m <= 50 * Tenth
  /\ admin' = m
  /\ UNCHANGED <<base, rules, active, rain, now, eval>>

\* UpdateSlotPrice takes any price.
UpdateSlotPrice(s, p) ==
  /\ Unlocked(s)
  /\ base' = [base EXCEPT ![s] = p]
  /\ UNCHANGED <<rules, active, admin, rain, now, eval>>

\* BulkEditSlotPrice takes positive ones, of which the column may make 0.
BulkEditSlotPrice(S, p) ==
  /\ p >= 0 /\ \A s \in S : Unlocked(s)
  /\ base' = [s \in Slots |-> IF s \in S THEN p ELSE base[s]]
  /\ UNCHANGED <<rules, active, admin, rain, now, eval>>
-----------------------------------------------------------------------------
(* The world.                                                              *)

UpdateWeatherState ==
  /\ rain' = ~rain
  /\ UNCHANGED <<base, rules, active, admin, now, eval>>

TimePasses ==
  /\ now < Horizon /\ now' = now + 1
  /\ UNCHANGED <<base, rules, active, admin, rain, eval>>

\* The multiplier is a variable of the process, and so is the weather.
Restart ==
  /\ admin' = One /\ rain' = FALSE
  /\ eval' = [e \in Evals |-> None]
  /\ UNCHANGED <<base, rules, active, now>>

PInit ==
  /\ base \in [Slots -> Prices] /\ (\A s \in Slots : base[s] > 0)
  /\ rules = {} /\ active = {} /\ admin = One /\ rain = FALSE /\ now = 0
  /\ eval = [e \in Evals |-> None]

PNext ==
  \/ \E e \in Evals : \/ \E u \in Uses, s \in Slots : \E t \in {DateOf[s], now} : Start(e, u, s, t)
                      \/ NextRule(e) \/ BuiltInRules(e) \/ Finish(e)
  \/ \E p \in Proposals : AdminCreatePricingRule(p)
  \/ \E r \in rules : AdminTogglePricingRule(r)
  \/ \E m \in Multipliers : UpdatePricingMultiplier(m)
  \/ \E p \in Prices : \/ \E s \in Slots : UpdateSlotPrice(s, p)
                       \/ \E S \in SUBSET Slots : BulkEditSlotPrice(S, p)
  \/ UpdateWeatherState \/ TimePasses \/ Restart

PSpec == PInit /\ [][PNext]_pvars
-----------------------------------------------------------------------------
(* Properties.                                                             *)

\* Type invariant: the product stays a positive fraction whatever rules and
\* multipliers the administrators submit.
PTypeOK ==
  /\ base \in [Slots -> Int] /\ admin \in Positive /\ rain \in BOOLEAN
  /\ rules \subseteq Proposal /\ active \subseteq rules /\ now \in Int
  /\ \A e \in Evals : eval[e] = None \/ eval[e] \in Evaluation \/ eval[e] \in Result
  /\ eval = [e \in Evals |-> eval[e]]

Priced(e) == eval[e] # None /\ eval[e].at = "priced"

\* README: "strict floor/ceiling bounds".  However the rules pile up and
\* whatever changes during the evaluation, a slot is listed and charged at no
\* less than half of its base price and no more than three times of it, give or
\* take the half rupee of the final rounding.
PriceInBounds ==
  \A e \in Evals : Priced(e) =>
    /\ 0 <= eval[e].price
    /\ eval[e].base <= 200 * eval[e].price + 100
    /\ 100 * eval[e].price <= 3 * eval[e].base + 50
=============================================================================
