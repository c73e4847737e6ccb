---------------------------- MODULE PricingProofs ----------------------------
(***************************************************************************)
(* Theorems about Pricing for every set of slots, rules, prices,           *)
(* multipliers and requests.                                               *)
(***************************************************************************)
EXTENDS PricingReference, FiniteSetTheorems, TLAPS

-----------------------------------------------------------------------------
(* Division and rounding.                                                  *)

LEMMA Division ==
  ASSUME NEW n \in Int, NEW d \in Int, d > 0
  PROVE  /\ n \div d \in Int
         /\ d * (n \div d) <= n
         /\ n < d * (n \div d) + d
OBVIOUS

LEMMA DivisionAbove ==
  ASSUME NEW n \in Int, NEW d \in Int, d > 0, NEW a \in Int, a * d <= n
  PROVE  a <= n \div d
<1> DEFINE q == n \div d
<1>1. q \in Int /\ n < d * q + d BY Division
<1> HIDE DEF q
<1> SUFFICES ASSUME q < a PROVE FALSE BY <1>1 DEF q
<1>2. q + 1 <= a BY <1>1
<1>3. (q + 1) * d <= a * d BY <1>1, <1>2
<1> QED BY <1>1, <1>3

(* A rounding of n / d paise is within half a rupee, and less than a third of *)
(* a paisa, of it.                                                          *)
LEMMA RoundingsNear ==
  ASSUME NEW n \in Int, NEW d \in Int, d > 0, n >= 0, NEW p \in Roundings(n, d)
  PROVE  /\ p \in Int /\ 0 <= p
         /\ 3 * (100 * (p * d) - n) <= 151 * d
         /\ 3 * (n - 100 * (p * d)) <= 151 * d
<1> DEFINE y == 100 * d
           q == n \div y
           k == d \div Accuracy
<1>1. y \in Int /\ y > 0
  OBVIOUS
<1>2. q \in Int
  BY <1>1, Division
<1>3. 0 <= q
  <2>1. 0 \in Int /\ 0 * y <= n
    BY <1>1
  <2> HIDE DEF y
  <2> QED BY <1>1, <2>1, DivisionAbove
<1>4. p \in {q, q + 1} /\ Rounds(p, n, d)
  BY DEF Roundings
<1> HIDE DEF q
<1>5. p \in Int /\ 0 <= p
  BY <1>2, <1>3, <1>4
<1>6. k \in Int /\ 3 * k <= d
  <2>1. Accuracy \in Int /\ Accuracy > 2
    BY PricingAssumption
  <2>2. k \in Int /\ Accuracy * k <= d /\ d < Accuracy * k + Accuracy
    BY <2>1, Division
  <2>3. 0 <= k
    <3>1. 0 \in Int /\ 0 * Accuracy <= d
      BY <2>1
    <3> QED BY <2>1, <3>1, DivisionAbove
  <2> HIDE DEF k
  <2>4. 3 * k <= Accuracy * k
    BY <2>1, <2>2, <2>3
  <2> QED BY <2>1, <2>2, <2>4
<1>7. /\ 100 * p * d - n <= 50 * d + k
      /\ n - 100 * p * d <= 50 * d + k
  BY <1>4 DEF Rounds
<1> HIDE DEF k
<1>8. 100 * p * d = 100 * (p * d)
  BY <1>5
<1> DEFINE z == p * d
<1>9. z \in Int
  BY <1>5
<1>10. 100 * z - n <= 50 * d + k /\ n - 100 * z <= 50 * d + k
  BY <1>7, <1>8
<1> HIDE DEF z
<1>11. 3 * (100 * z - n) <= 151 * d /\ 3 * (n - 100 * z) <= 151 * d
  BY <1>6, <1>9, <1>10
<1> QED BY <1>5, <1>11 DEF z

(* Half of the base price and three times of it are bounds, give or take half a *)
(* rupee.                                                                  *)
LEMMA ChargedBounds ==
  ASSUME NEW b \in Positive, NEW num \in Positive, NEW den \in Positive,
         NEW p \in Charged(b, num, den)
  PROVE  p \in Int /\ 0 <= p /\ b <= 200 * p + 100 /\ 100 * p <= 3 * b + 50
<1>0. b \in Int /\ num \in Int /\ den \in Int /\ b > 0 /\ num > 0 /\ den > 0
  BY DEF Positive
<1>1. CASE 2 * num <= den
  <2>1. p \in Roundings(b, 2)
    BY <1>1 DEF Charged
  <2>2. /\ p \in Int /\ 0 <= p
        /\ 3 * (100 * (p * 2) - b) <= 151 * 2
        /\ 3 * (b - 100 * (p * 2)) <= 151 * 2
    BY <1>0, <2>1, RoundingsNear
  <2> QED BY <1>0, <2>2
<1>2. CASE ~(2 * num <= den) /\ num >= 3 * den
  <2>1. p \in Roundings(3 * b, 1)
    BY <1>2 DEF Charged
  <2>2. 3 * b \in Int /\ 3 * b >= 0 /\ 1 \in Int /\ 1 > 0
    BY <1>0
  <2>3. /\ p \in Int /\ 0 <= p
        /\ 3 * (100 * (p * 1) - 3 * b) <= 151 * 1
        /\ 3 * (3 * b - 100 * (p * 1)) <= 151 * 1
    BY <2>1, <2>2, RoundingsNear
  <2> QED BY <1>0, <2>3
<1>3. CASE ~(2 * num <= den) /\ ~(num >= 3 * den)
  <2>0. PICK n : n = b * num
    OBVIOUS
  <2>1. p \in Roundings(n, den)
    BY <1>3, <2>0 DEF Charged
  <2>2. n \in Int /\ n >= 0
    BY <1>0, <2>0
  <2>3. /\ p \in Int /\ 0 <= p
        /\ 3 * (100 * (p * den) - n) <= 151 * den
        /\ 3 * (n - 100 * (p * den)) <= 151 * den
    BY <1>0, <2>1, <2>2, RoundingsNear
  <2>4. b * den <= 2 * n
    <3>1. den <= 2 * num
      BY <1>0, <1>3
    <3>2. b * den <= b * (2 * num)
      BY <1>0, <3>1
    <3>3. b * (2 * num) = 2 * n
      BY <1>0, <2>0
    <3> QED BY <3>2, <3>3
  <2>5. n <= 3 * (b * den)
    <3>1. num <= 3 * den
      BY <1>0, <1>3
    <3>2. b * num <= b * (3 * den)
      BY <1>0, <3>1
    <3>3. b * (3 * den) = 3 * (b * den)
      BY <1>0
    <3> QED BY <2>0, <3>2, <3>3
  <2>6. PICK z, y : z = p * den /\ y = b * den
    OBVIOUS
  <2>7. z \in Int /\ y \in Int
    BY <1>0, <2>3, <2>6
  <2>8. 3 * y <= 600 * z + 302 * den /\ 300 * z <= 9 * y + 151 * den
    BY <1>0, <2>2, <2>3, <2>4, <2>5, <2>6, <2>7
  <2>9. b <= 200 * p + 100
    <3> SUFFICES ASSUME b >= 200 * p + 101 PROVE FALSE
      BY <1>0, <2>3
    <3>1. (200 * p + 101) * den <= b * den
      BY <1>0, <2>3
    <3>2. (200 * p + 101) * den = 200 * z + 101 * den
      BY <1>0, <2>3, <2>6
    <3> QED BY <1>0, <2>6, <2>7, <2>8, <3>1, <3>2
  <2>10. 100 * p <= 3 * b + 50
    <3> SUFFICES ASSUME 3 * b + 51 <= 100 * p PROVE FALSE
      BY <1>0, <2>3
    <3>1. (3 * b + 51) * den <= (100 * p) * den
      BY <1>0, <2>3
    <3>2. (3 * b + 51) * den = 3 * y + 51 * den /\ (100 * p) * den = 100 * z
      BY <1>0, <2>3, <2>6
    <3> QED BY <1>0, <2>6, <2>7, <2>8, <3>1, <3>2
  <2> QED BY <2>3, <2>9, <2>10
<1> QED BY <1>1, <1>2, <1>3
-----------------------------------------------------------------------------
(* The steps of an evaluation keep it an evaluation.                       *)

\* The multipliers of the engine itself.
LEMMA OwnFactors ==
  /\ One \in Positive /\ 7 * Tenth \in Positive /\ 13 * Tenth \in Positive
  /\ 14 * Tenth \in Positive /\ 15 * Tenth \in Positive
  /\ 1 \in Positive
BY PricingAssumption DEF One, Positive

LEMMA Factors ==
  ASSUME NEW ev \in Evaluation, NEW m \in Positive
  PROVE  /\ Times(ev, m) \in Evaluation
         /\ Times(ev, m).applied = ev.applied
         /\ Times(ev, m).s = ev.s
         /\ Times(ev, m).base = ev.base
<1>1. ev.num * m \in Positive /\ ev.den * One \in Positive
  <2>1. ev.num \in Int /\ ev.num > 0 /\ ev.den \in Int /\ ev.den > 0 /\ m \in Int /\ m > 0
    BY DEF Evaluation, Positive
  <2>2. ev.num * m \in Int /\ ev.num * m > 0
    BY <2>1
  <2>3. One \in Int /\ One > 0
    BY OwnFactors DEF Positive
  <2>4. ev.den * One \in Int /\ ev.den * One > 0
    BY <2>1, <2>3
  <2> QED BY <2>2, <2>4 DEF Positive
<1>2. [ev EXCEPT !.num = ev.num * m, !.den = ev.den * One] \in Evaluation
  BY <1>1 DEF Evaluation
<1> QED BY <1>2 DEF Times, Evaluation

LEMMA GoodInput ==
  /\ \A p \in Int : BasePrice(p) \in Positive
  /\ \A m \in Int : Multiplier(m) \in Positive
  /\ \A holds, type, applied : \A m \in Positive : BuiltIn(holds, type, applied, m) \in Positive
BY OwnFactors, PricingAssumption DEF BasePrice, Multiplier, BuiltIn, Positive

LEMMA BuiltInType ==
  ASSUME NEW ev \in Evaluation
  PROVE  BuiltInTimes(ev) \in Evaluation
<1> DEFINE a == Times(ev, BuiltIn(ev.s \in Peak, "peak_hour", ev.applied, 15 * Tenth))
           b == Times(a, BuiltIn(ev.date \in Weekend, "weekend", ev.applied, 13 * Tenth))
<1>0. 15 * Tenth \in Positive /\ 13 * Tenth \in Positive /\ 7 * Tenth \in Positive
  BY OwnFactors
<1>1. a \in Evaluation
  BY <1>0, GoodInput, Factors
<1>2. b \in Evaluation
  BY <1>0, <1>1, GoodInput, Factors
<1>3. Times(b, BuiltIn(rain, "weather", ev.applied, 7 * Tenth)) \in Evaluation
  BY <1>0, <1>2, GoodInput, Factors
<1> QED BY <1>3 DEF BuiltInTimes

LEMMA DemandType ==
  ASSUME NEW ev \in Evaluation, NEW d \in Demands
  PROVE  DemandTimes(ev, d) \in Evaluation
<1>0. 14 * Tenth \in Positive /\ 7 * Tenth \in Positive /\ One \in Positive
  BY OwnFactors
<1>1. CASE d = "SURGE"
  BY <1>0, <1>1, GoodInput, Factors DEF DemandTimes
<1>2. CASE d = "FLASH_SALE"
  BY <1>0, <1>2, GoodInput, Factors DEF DemandTimes
<1>3. CASE d = "NORMAL"
  BY <1>0, <1>3, Factors DEF DemandTimes
<1> QED BY <1>1, <1>2, <1>3 DEF Demands
-----------------------------------------------------------------------------
(* The invariant.  It is inductive as it stands: a finished evaluation     *)
(* never changes, and one under way has a positive fraction.               *)

PricingInv == PTypeOK /\ PriceInBounds

InBounds(x) ==
  0 <= x.price /\ x.base <= 200 * x.price + 100 /\ 100 * x.price <= 3 * x.base + 50

\* What an evaluation may become.
Fine(x) == x = None \/ x \in Evaluation \/ (x \in Result /\ InBounds(x))

LEMMA EvalFine ==
  ASSUME PricingInv, NEW e \in Evals
  PROVE  /\ UnderWay(e) => eval[e] \in Evaluation
         /\ eval = [f \in Evals |-> eval[f]]
<1>1. eval[e] \in Result => eval[e].at = "priced"
  BY DEF Result
<1> QED BY <1>1 DEF PricingInv, PTypeOK, UnderWay

\* A step that changes one evaluation.
LEMMA OneEvaluation ==
  ASSUME PricingInv, NEW e \in Evals, NEW x, Fine(x),
         eval' = [eval EXCEPT ![e] = x],
         UNCHANGED <<base, rules, active, admin, rain, now>>
  PROVE  PricingInv'
<1>1. eval = [f \in Evals |-> eval[f]]
  BY DEF PricingInv, PTypeOK
<1>2. eval' = [f \in Evals |-> IF f = e THEN x ELSE eval[f]]
  BY <1>1
<1>3. eval' = [f \in Evals |-> eval'[f]]
  BY <1>2
<1>4. \A f \in Evals : eval'[f] = None \/ eval'[f] \in Evaluation \/ eval'[f] \in Result
  BY <1>2 DEF Fine, PricingInv, PTypeOK
<1>5. PTypeOK'
  BY <1>3, <1>4 DEF PricingInv, PTypeOK
<1>6. PriceInBounds'
  <2> SUFFICES ASSUME NEW f \in Evals, Priced(f)'
               PROVE  InBounds(eval'[f])
    BY DEF PriceInBounds, InBounds
  <2>1. CASE f # e
    BY <1>2, <2>1 DEF PricingInv, PriceInBounds, Priced, InBounds
  <2>2. CASE f = e
    <3>1. eval'[f] = x /\ x # None /\ x.at = "priced"
      BY <1>2, <2>2 DEF Priced
    <3>2. x \notin Evaluation
      BY <3>1 DEF Evaluation
    <3> QED BY <3>1, <3>2 DEF Fine
  <2> QED BY <2>1, <2>2
<1> QED BY <1>5, <1>6 DEF PricingInv

\* A step that changes none.
LEMMA OtherTables ==
  ASSUME PricingInv, UNCHANGED eval,
         base' \in [Slots -> Int], admin' \in Positive, rain' \in BOOLEAN,
         rules' \subseteq Proposal, active' \subseteq rules', now' \in Int
  PROVE  PricingInv'
BY DEF PricingInv, PTypeOK, PriceInBounds, Priced

LEMMA InitHolds == PInit => PricingInv
<1> SUFFICES ASSUME PInit PROVE PricingInv
  OBVIOUS
<1>1. base \in [Slots -> Int] /\ One \in Positive
  <2>1. base \in [Slots -> Prices] /\ Prices \subseteq Int
    BY PricingAssumption DEF PInit
  <2>2. base \in [Slots -> Int]
    BY <2>1, Zenon
  <2> QED BY <2>2, OwnFactors
<1>2. PTypeOK
  <2>0. /\ rules = {} /\ active = {} /\ admin = One /\ rain = FALSE /\ now = 0
    BY DEF PInit
  <2>1. eval = [e \in Evals |-> None]
    BY DEF PInit
  <2>2. eval = [e \in Evals |-> eval[e]] /\ \A e \in Evals : eval[e] = None
    BY <2>1
  <2>4. rules \subseteq Proposal /\ active \subseteq rules /\ now \in Int
    BY <2>0
  <2>5. admin \in Positive /\ rain \in BOOLEAN
    BY <1>1, <2>0
  <2> QED BY <1>1, <2>2, <2>4, <2>5 DEF PTypeOK
<1>3. PriceInBounds
  BY DEF PInit, PriceInBounds, Priced
<1> QED BY <1>2, <1>3 DEF PricingInv

LEMMA StartHolds ==
  ASSUME PricingInv, NEW e \in Evals, NEW u \in Uses, NEW s \in Slots,
         NEW t \in {DateOf[s], now}, Start(e, u, s, t)
  PROVE  PricingInv'
<1> DEFINE x == [use |-> u, s |-> s, base |-> BasePrice(base[s]), date |-> t,
                 left |-> StartsAt[s] - now, seen |-> active, rest |-> active,
                 applied |-> {}, num |-> 1, den |-> 1, rain |-> FALSE, at |-> "rules"]
<1>1. BasePrice(base[s]) \in Positive /\ 1 \in Positive
  BY GoodInput DEF PricingInv, PTypeOK, Positive
<1>2. active \subseteq Proposal /\ t \in Int /\ StartsAt[s] - now \in Int
  BY PricingAssumption DEF PricingInv, PTypeOK
<1>3. x \in Evaluation
  BY <1>1, <1>2 DEF Evaluation
<1>4. /\ eval' = [eval EXCEPT ![e] = x]
      /\ UNCHANGED <<base, rules, active, admin, rain, now>>
  BY DEF Start
<1> QED BY <1>3, <1>4, OneEvaluation DEF Fine

LEMMA NextRuleHolds ==
  ASSUME PricingInv, NEW e \in Evals, NextRule(e)
  PROVE  PricingInv'
<1>1. PICK r \in eval[e].rest :
        LET ev == [eval[e] EXCEPT !.rest = @ \ {r}] IN
        eval' = [eval EXCEPT ![e] =
          IF Matches(r, ev)
          THEN Times([ev EXCEPT !.applied = @ \cup {r.type}], Multiplier(r.mult))
          ELSE ev]
  BY DEF NextRule
<1> DEFINE ev == [eval[e] EXCEPT !.rest = @ \ {r}]
           hit == [ev EXCEPT !.applied = @ \cup {r.type}]
           x == IF Matches(r, ev) THEN Times(hit, Multiplier(r.mult)) ELSE ev
<1>2. eval[e] \in Evaluation
  BY EvalFine DEF NextRule
<1>3. r \in Proposal
  BY <1>2 DEF Evaluation
<1>4. r.mult \in Int /\ r.type \in Types
  BY <1>3 DEF Proposal
<1>5. ev \in Evaluation
  BY <1>2 DEF Evaluation
<1>6. hit \in Evaluation
  BY <1>4, <1>5 DEF Evaluation
<1>7. x \in Evaluation
  BY <1>4, <1>5, <1>6, GoodInput, Factors
<1>8. eval' = [eval EXCEPT ![e] = x]
  BY <1>1
<1>9. UNCHANGED <<base, rules, active, admin, rain, now>>
  BY DEF NextRule
<1> HIDE DEF x
<1> QED BY <1>7, <1>8, <1>9, OneEvaluation DEF Fine

LEMMA BuiltInRulesHolds ==
  ASSUME PricingInv, NEW e \in Evals, BuiltInRules(e)
  PROVE  PricingInv'
<1> DEFINE b == BuiltInTimes(eval[e])
           x == [b EXCEPT !.rain = rain, !.at = "demand"]
<1>1. eval[e] \in Evaluation
  BY EvalFine DEF BuiltInRules
<1>2. b \in Evaluation /\ rain \in BOOLEAN
  BY <1>1, BuiltInType DEF PricingInv, PTypeOK
<1> HIDE DEF b
<1>3. x \in Evaluation
  BY <1>2 DEF Evaluation
<1>4. eval = [f \in Evals |-> eval[f]]
  BY DEF PricingInv, PTypeOK
<1>5. eval' = [eval EXCEPT ![e] = x]
  BY <1>4 DEF BuiltInRules, b
<1>6. UNCHANGED <<base, rules, active, admin, rain, now>>
  BY DEF BuiltInRules
<1> HIDE DEF x
<1> QED BY <1>3, <1>5, <1>6, OneEvaluation DEF Fine

LEMMA FinishHolds ==
  ASSUME PricingInv, NEW e \in Evals, Finish(e)
  PROVE  PricingInv'
<1>1. PICK ev : ev = eval[e]
  OBVIOUS
<1>2. PICK m : m = Multiplier(admin)
  OBVIOUS
<1>3. PICK d \in Demands :
        LET f == DemandTimes(Times(ev, m), d)
        IN  \E p \in Charged(ev.base, f.num, f.den) :
              eval' = [eval EXCEPT ![e] =
                [use |-> ev.use, s |-> ev.s, base |-> ev.base, date |-> ev.date,
                 left |-> ev.left, seen |-> ev.seen, rain |-> ev.rain,
                 admin |-> m, demand |-> d, price |-> p, at |-> "priced"]]
  BY <1>1, <1>2 DEF Finish
<1>4. PICK f : f = DemandTimes(Times(ev, m), d)
  OBVIOUS
<1>5. PICK p \in Charged(ev.base, f.num, f.den) :
        eval' = [eval EXCEPT ![e] =
          [use |-> ev.use, s |-> ev.s, base |-> ev.base, date |-> ev.date,
           left |-> ev.left, seen |-> ev.seen, rain |-> ev.rain,
           admin |-> m, demand |-> d, price |-> p, at |-> "priced"]]
  BY <1>3, <1>4
<1>6. PICK x : x = [use |-> ev.use, s |-> ev.s, base |-> ev.base, date |-> ev.date,
                    left |-> ev.left, seen |-> ev.seen, rain |-> ev.rain,
                    admin |-> m, demand |-> d, price |-> p, at |-> "priced"]
  OBVIOUS
<1>7. ev \in Evaluation
  BY <1>1, EvalFine DEF Finish
<1>8. m \in Positive
  <2>1. admin \in Int
    BY DEF PricingInv, PTypeOK, Positive
  <2> QED BY <1>2, <2>1, GoodInput
<1>9. f \in Evaluation
  BY <1>4, <1>7, <1>8, Factors, DemandType
<1>10. f.num \in Positive /\ f.den \in Positive /\ ev.base \in Positive
  BY <1>7, <1>9 DEF Evaluation
<1>11. /\ p \in Int /\ 0 <= p
       /\ ev.base <= 200 * p + 100 /\ 100 * p <= 3 * ev.base + 50
  BY <1>10, ChargedBounds
<1>12. x \in Result
  BY <1>6, <1>7, <1>8, <1>11 DEF Evaluation, Result
<1>13. x.price = p /\ x.base = ev.base
  BY <1>6
<1>14. Fine(x)
  BY <1>11, <1>12, <1>13 DEF Fine, InBounds
<1>15. eval' = [eval EXCEPT ![e] = x] /\ UNCHANGED <<base, rules, active, admin, rain, now>>
  BY <1>5, <1>6 DEF Finish
<1> QED BY <1>14, <1>15, OneEvaluation

LEMMA OrdersHold ==
  ASSUME PricingInv,
         \/ \E p \in Proposals : AdminCreatePricingRule(p)
         \/ \E r \in rules : AdminTogglePricingRule(r)
         \/ \E m \in Multipliers : UpdatePricingMultiplier(m)
         \/ \E p \in Prices : \/ \E s \in Slots : UpdateSlotPrice(s, p)
                              \/ \E S \in SUBSET Slots : BulkEditSlotPrice(S, p)
  PROVE  PricingInv'
<1>1. ASSUME NEW p \in Proposals, AdminCreatePricingRule(p) PROVE PricingInv'
  <2> DEFINE r == [p EXCEPT !.priority = IF @ <= 0 THEN 10 ELSE @]
  <2>1. p \in Proposal
    BY PricingAssumption
  <2>2. r \in Proposal
    BY <2>1 DEF Proposal
  <2>3. rules' = rules \cup {r} /\ active' = active \cup {r}
    BY <1>1 DEF AdminCreatePricingRule
  <2> HIDE DEF r
  <2> QED BY <1>1, <2>2, <2>3, OtherTables DEF AdminCreatePricingRule, PricingInv, PTypeOK
<1>2. ASSUME NEW r \in rules, AdminTogglePricingRule(r) PROVE PricingInv'
  BY <1>2, OtherTables DEF AdminTogglePricingRule, PricingInv, PTypeOK
<1>3. ASSUME NEW m \in Multipliers, UpdatePricingMultiplier(m) PROVE PricingInv'
  <2>1. m \in Int /\ m > 0
    BY <1>3, PricingAssumption DEF UpdatePricingMultiplier
  <2>2. m \in Positive
    BY <2>1 DEF Positive
  <2> QED BY <1>3, <2>2, OtherTables DEF UpdatePricingMultiplier, PricingInv, PTypeOK
<1>4. ASSUME NEW p \in Prices, NEW s \in Slots, UpdateSlotPrice(s, p) PROVE PricingInv'
  <2>1. p \in Int
    BY PricingAssumption
  <2> QED BY <1>4, <2>1, OtherTables DEF UpdateSlotPrice, PricingInv, PTypeOK
<1>5. ASSUME NEW p \in Prices, NEW S \in SUBSET Slots, BulkEditSlotPrice(S, p)
      PROVE  PricingInv'
  <2>1. p \in Int
    BY PricingAssumption
  <2> QED BY <1>5, <2>1, OtherTables DEF BulkEditSlotPrice, PricingInv, PTypeOK
<1> QED BY <1>1, <1>2, <1>3, <1>4, <1>5

LEMMA WorldHolds ==
  ASSUME PricingInv,
         \/ UpdateWeatherState \/ TimePasses \/ Restart
  PROVE  PricingInv'
<1>1. CASE UpdateWeatherState
  BY <1>1, OtherTables DEF UpdateWeatherState, PricingInv, PTypeOK
<1>2. CASE Restart
  <2>1. eval' = [e \in Evals |-> None]
    BY <1>2 DEF Restart
  <2>2. eval' = [e \in Evals |-> eval'[e]] /\ \A e \in Evals : eval'[e] = None
    BY <2>1
  <2>3. One \in Positive
    BY OwnFactors
  <2>4. PTypeOK'
    BY <1>2, <2>2, <2>3 DEF Restart, PricingInv, PTypeOK
  <2>5. PriceInBounds'
    BY <2>2 DEF PriceInBounds, Priced
  <2> QED BY <2>4, <2>5 DEF PricingInv
<1>3. CASE TimePasses
  BY <1>3, OtherTables DEF TimePasses, PricingInv, PTypeOK
<1> QED BY <1>1, <1>2, <1>3

LEMMA StutterHolds ==
  ASSUME PricingInv, UNCHANGED pvars
  PROVE  PricingInv'
BY OtherTables DEF pvars, PricingInv, PTypeOK

LEMMA NextHolds ==
  ASSUME PricingInv, [PNext]_pvars
  PROVE  PricingInv'
<1>1. CASE \E e \in Evals : \/ \E u \in Uses, s \in Slots :
                                \E t \in {DateOf[s], now} : Start(e, u, s, t)
                           \/ NextRule(e) \/ BuiltInRules(e) \/ Finish(e)
  BY <1>1, StartHolds, NextRuleHolds, BuiltInRulesHolds, FinishHolds
<1>2. CASE UNCHANGED pvars
  BY <1>2, StutterHolds
<1> QED BY <1>1, <1>2, OrdersHold, WorldHolds DEF PNext
-----------------------------------------------------------------------------
(* The results.                                                            *)

\* Every price is one the engine may give, whatever administrators, weather
\* and customers do.
THEOREM PricingInvHolds == PSpec => []PricingInv
<1>1. PInit => PricingInv
  BY InitHolds
<1>2. PricingInv /\ [PNext]_pvars => PricingInv'
  BY NextHolds
<1> QED BY <1>1, <1>2, PTL DEF PSpec

\* The product of the multipliers stays a positive fraction, and every table
\* has its type.
THEOREM PricingTypes == PSpec => []PTypeOK
<1>1. PricingInv => PTypeOK
  BY DEF PricingInv
<1> QED BY <1>1, PricingInvHolds, PTL

\* No slot is listed or charged under half of its base price or over three times
\* of it, give or take the half rupee of the final rounding.
THEOREM BoundsHold == PSpec => []PriceInBounds
<1>1. PricingInv => PriceInBounds
  BY DEF PricingInv
<1> QED BY <1>1, PricingInvHolds, PTL
-----------------------------------------------------------------------------
(* Products over a set.  FoldFunctionOnSet is a recursive function, and what *)
(* it computes is an induction over the set.  The library's theorems of      *)
(* induction take the formula as an operator, which the provers cannot       *)
(* instantiate; but WFMin takes a set.  Every induction here is therefore a  *)
(* search for the smallest set of those for which the claim fails.           *)

\* What FoldFunctionOnSet takes first.
Pick(s) == CHOOSE t \in s : TRUE

\* h[s] is the product of n and all g[t] with t in s, for s within A.
IsFold(h, A, n, g) ==
  h = [s \in SUBSET A |-> IF s = {} THEN n ELSE g[Pick(s)] * h[s \ {Pick(s)}]]

LEMMA ProductIsFold ==
  ASSUME NEW n, NEW g, NEW A
  PROVE  ProductOf(n, g, A) = (CHOOSE h : IsFold(h, A, n, g))[A]
BY Zenon DEF ProductOf, FoldFunctionOnSet, MapThenFoldSet, IsFold, Pick

LEMMA SmallestSet ==
  ASSUME NEW S, IsFiniteSet(S), NEW Bad \in SUBSET SUBSET S, Bad # {}
  PROVE  \E A \in Bad : \A B \in Bad : B \subseteq A => B = A
<1>1. IsWellFoundedOn(StrictSubsetOrdering(S), SUBSET S)
  BY FS_StrictSubsetOrderingWellFounded, FS_FiniteSubsetsOfFinite, Zenon
<1>2. PICK A \in Bad : \A B \in Bad : ~ (<<B, A>> \in StrictSubsetOrdering(S))
  BY <1>1, WFMin, Zenon
<1>3. ASSUME NEW B \in Bad, B \subseteq A PROVE B = A
  BY <1>2, <1>3 DEF StrictSubsetOrdering
<1> QED BY <1>3

LEMMA PickIn == ASSUME NEW s, s # {} PROVE Pick(s) \in s
BY DEF Pick

(* The equation has one solution at most ...                                 *)
LEMMA FoldsAgree ==
  ASSUME NEW S, IsFiniteSet(S), NEW T, IsFiniteSet(T), NEW n, NEW g,
         NEW h, IsFold(h, S, n, g), NEW k, IsFold(k, T, n, g)
  PROVE  \A A \in SUBSET (S \cap T) : h[A] = k[A]
<1> DEFINE Bad == {A \in SUBSET (S \cap T) : h[A] # k[A]}
<1> SUFFICES ASSUME Bad # {} PROVE FALSE
  OBVIOUS
<1>1. IsFiniteSet(S \cap T)
  BY FS_Intersection
<1>2. Bad \in SUBSET SUBSET (S \cap T)
  OBVIOUS
<1>3. PICK A \in Bad : \A B \in Bad : B \subseteq A => B = A
  <2> HIDE DEF Bad
  <2> QED BY <1>1, <1>2, SmallestSet
<1> DEFINE B == A \ {Pick(A)}
<1>4. A \in SUBSET S /\ A \in SUBSET T
  OBVIOUS
<1>5. /\ h[A] = IF A = {} THEN n ELSE g[Pick(A)] * h[B]
      /\ k[A] = IF A = {} THEN n ELSE g[Pick(A)] * k[B]
  BY <1>4 DEF IsFold
<1>6. A # {}
  BY <1>5
<1>7. B \in SUBSET (S \cap T) /\ B \subseteq A /\ B # A
  BY <1>4, <1>6, PickIn
<1>8. h[B] = k[B]
  BY <1>3, <1>7
<1> QED BY <1>5, <1>6, <1>8

(* ... and one at least: each value is taken from the solution for that set.  *)
LEMMA FoldExists ==
  ASSUME NEW S, IsFiniteSet(S), NEW n, NEW g
  PROVE  \E h : IsFold(h, S, n, g)
<1> DEFINE Bad == {A \in SUBSET S : ~ \E h : IsFold(h, A, n, g)}
<1> SUFFICES ASSUME Bad # {} PROVE FALSE
  OBVIOUS
<1>2. Bad \in SUBSET SUBSET S
  OBVIOUS
<1>3. PICK A \in Bad : \A B \in Bad : B \subseteq A => B = A
  <2> HIDE DEF Bad
  <2> QED BY <1>2, SmallestSet
<1> DEFINE fold(B) == CHOOSE h : IsFold(h, B, n, g)
           value(B) == fold(B)[B]
           best(B) == IF B = {} THEN n ELSE g[Pick(B)] * value(B \ {Pick(B)})
           k == [B \in SUBSET A |-> best(B)]
<1>4. ASSUME NEW B \in SUBSET A, B # A PROVE IsFold(fold(B), B, n, g)
  BY <1>3, <1>4
<1>5. ASSUME NEW B \in SUBSET A, B # A PROVE value(B) = k[B]
  <2>1. IsFold(fold(B), B, n, g)
    BY <1>4, <1>5
  <2>2. value(B) = IF B = {} THEN n ELSE g[Pick(B)] * fold(B)[B \ {Pick(B)}]
    <3> DEFINE f == fold(B)
    <3>1. IsFold(f, B, n, g)
      BY <2>1
    <3> HIDE DEF f
    <3>2. f[B] = IF B = {} THEN n ELSE g[Pick(B)] * f[B \ {Pick(B)}]
      BY <3>1 DEF IsFold
    <3> QED BY <3>2 DEF f
  <2>3. ASSUME B # {} PROVE fold(B)[B \ {Pick(B)}] = value(B \ {Pick(B)})
    <3> DEFINE C == B \ {Pick(B)}
    <3>1. C \in SUBSET A /\ C # A /\ C \in SUBSET (B \cap C)
      BY <1>5
    <3>2. IsFold(fold(C), C, n, g)
      BY <1>4, <3>1
    <3>3. IsFiniteSet(B) /\ IsFiniteSet(C)
      BY FS_Subset
    <3> HIDE DEF C, fold
    <3>4. fold(B)[C] = fold(C)[C]
      BY <2>1, <3>1, <3>2, <3>3, FoldsAgree
    <3> QED BY <3>4 DEF C
  <2> QED BY <2>2, <2>3
<1>6. IsFold(k, A, n, g)
  <2>1. ASSUME NEW B \in SUBSET A
        PROVE  best(B) = IF B = {} THEN n ELSE g[Pick(B)] * k[B \ {Pick(B)}]
    <3> SUFFICES ASSUME B # {} PROVE value(B \ {Pick(B)}) = k[B \ {Pick(B)}]
      OBVIOUS
    <3>1. B \ {Pick(B)} \in SUBSET A /\ B \ {Pick(B)} # A
      BY PickIn
    <3> HIDE DEF k, value
    <3> QED BY <1>5, <3>1
  <2>2. k = [B \in SUBSET A |-> IF B = {} THEN n ELSE g[Pick(B)] * k[B \ {Pick(B)}]]
    <3> DEFINE new(B) == IF B = {} THEN n ELSE g[Pick(B)] * k[B \ {Pick(B)}]
    <3>1. \A B \in SUBSET A : best(B) = new(B)
      BY <2>1
    <3>2. k = [B \in SUBSET A |-> best(B)]
      OBVIOUS
    <3> HIDE DEF best, new, k
    <3>3. k = [B \in SUBSET A |-> new(B)]
      BY <3>1, <3>2
    <3> QED BY <3>3 DEF new
  <2> HIDE DEF k
  <2> QED BY <2>2 DEF IsFold
<1> QED BY <1>6

(* So a product may be unfolded.                                             *)
LEMMA ProductFold ==
  ASSUME NEW S, IsFiniteSet(S), NEW n, NEW g
  PROVE  \E h : /\ IsFold(h, S, n, g)
                /\ \A A \in SUBSET S : ProductOf(n, g, A) = h[A]
<1>1. PICK h : IsFold(h, S, n, g)
  BY FoldExists
<1>2. ASSUME NEW A \in SUBSET S PROVE ProductOf(n, g, A) = h[A]
  <2> DEFINE k == CHOOSE f : IsFold(f, A, n, g)
  <2>1. IsFiniteSet(A)
    BY FS_Subset
  <2>2. IsFold(k, A, n, g)
    BY <2>1, FoldExists
  <2>3. ProductOf(n, g, A) = k[A]
    BY ProductIsFold
  <2> HIDE DEF k
  <2> QED BY <1>1, <2>1, <2>2, <2>3, FoldsAgree
<1> QED BY <1>1, <1>2

LEMMA ProductOfNone == ASSUME NEW n, NEW g PROVE ProductOf(n, g, {}) = n
<1>1. PICK h : IsFold(h, {}, n, g) /\ ProductOf(n, g, {}) = h[{}]
  BY ProductFold, FS_EmptySet
<1> QED BY <1>1 DEF IsFold

LEMMA ProductOfSome ==
  ASSUME NEW S, IsFiniteSet(S), S # {}, NEW n, NEW g
  PROVE  /\ Pick(S) \in S
         /\ ProductOf(n, g, S) = g[Pick(S)] * ProductOf(n, g, S \ {Pick(S)})
<1>1. PICK h : /\ IsFold(h, S, n, g)
               /\ \A A \in SUBSET S : ProductOf(n, g, A) = h[A]
  BY ProductFold
<1>2. ProductOf(n, g, S) = h[S] /\ ProductOf(n, g, S \ {Pick(S)}) = h[S \ {Pick(S)}]
  BY <1>1
<1> QED BY <1>1, <1>2, PickIn DEF IsFold

LEMMA ProductPositive ==
  ASSUME NEW S, IsFiniteSet(S), NEW n \in Positive, NEW g, \A t \in S : g[t] \in Positive
  PROVE  ProductOf(n, g, S) \in Positive
<1> DEFINE Bad == {A \in SUBSET S : ProductOf(n, g, A) \notin Positive}
<1> SUFFICES ASSUME Bad # {} PROVE FALSE
  OBVIOUS
<1>1. PICK A \in Bad : \A B \in Bad : B \subseteq A => B = A
  <2>1. Bad \in SUBSET SUBSET S
    OBVIOUS
  <2> HIDE DEF Bad
  <2> QED BY <2>1, SmallestSet
<1> DEFINE t == Pick(A)
           p == ProductOf(n, g, A \ {t})
<1>2. A # {}
  BY ProductOfNone
<1>3. t \in A /\ ProductOf(n, g, A) = g[t] * p
  BY <1>2, FS_Subset, ProductOfSome
<1>4. p \in Positive
  BY <1>1, <1>3
<1>5. g[t] \in Positive
  BY <1>3
<1> HIDE DEF p, t
<1>6. g[t] * p \in Positive
  <2> DEFINE a == g[t]
  <2>1. a \in Int /\ a > 0 /\ p \in Int /\ p > 0
    BY <1>4, <1>5 DEF Positive
  <2> HIDE DEF a
  <2>2. a * p \in Int /\ a * p > 0
    BY <2>1
  <2> QED BY <2>2 DEF Positive, a
<1> QED BY <1>3, <1>6

LEMMA ProductSame ==
  ASSUME NEW S, IsFiniteSet(S), NEW n, NEW g, NEW k, \A t \in S : g[t] = k[t]
  PROVE  ProductOf(n, g, S) = ProductOf(n, k, S)
<1> DEFINE Bad == {A \in SUBSET S : ProductOf(n, g, A) # ProductOf(n, k, A)}
<1> SUFFICES ASSUME Bad # {} PROVE FALSE
  OBVIOUS
<1>1. PICK A \in Bad : \A B \in Bad : B \subseteq A => B = A
  <2>1. Bad \in SUBSET SUBSET S
    OBVIOUS
  <2> HIDE DEF Bad
  <2> QED BY <2>1, SmallestSet
<1>2. A # {}
  BY ProductOfNone
<1>3. /\ Pick(A) \in A
      /\ ProductOf(n, g, A) = g[Pick(A)] * ProductOf(n, g, A \ {Pick(A)})
      /\ ProductOf(n, k, A) = k[Pick(A)] * ProductOf(n, k, A \ {Pick(A)})
  BY <1>2, FS_Subset, ProductOfSome
<1>4. ProductOf(n, g, A \ {Pick(A)}) = ProductOf(n, k, A \ {Pick(A)})
  BY <1>1, <1>3
<1> QED BY <1>3, <1>4

LEMMA Reordered ==
  ASSUME NEW a \in Int, NEW b \in Int, NEW c \in Int
  PROVE  a * (b * c) = b * (a * c)
OBVIOUS

LEMMA ProductScaled ==
  ASSUME NEW S, IsFiniteSet(S), NEW m \in Positive, NEW n \in Positive,
         NEW g, \A t \in S : g[t] \in Positive
  PROVE  ProductOf(m * n, g, S) = m * ProductOf(n, g, S)
<1> DEFINE Bad == {A \in SUBSET S : ProductOf(m * n, g, A) # m * ProductOf(n, g, A)}
<1> SUFFICES ASSUME Bad # {} PROVE FALSE
  OBVIOUS
<1>1. PICK A \in Bad : \A B \in Bad : B \subseteq A => B = A
  <2>1. Bad \in SUBSET SUBSET S
    OBVIOUS
  <2> HIDE DEF Bad
  <2> QED BY <2>1, SmallestSet
<1> DEFINE t == Pick(A)
           p == ProductOf(n, g, A \ {t})
<1>2. A # {}
  BY ProductOfNone
<1>3. /\ t \in A /\ IsFiniteSet(A \ {t})
      /\ ProductOf(n, g, A) = g[t] * p
      /\ ProductOf(m * n, g, A) = g[t] * ProductOf(m * n, g, A \ {t})
  BY <1>2, FS_Subset, ProductOfSome
<1>4. ProductOf(m * n, g, A \ {t}) = m * p
  BY <1>1, <1>3
<1>5. g[t] \in Int /\ m \in Int
  BY <1>3 DEF Positive
<1>6. p \in Int
  BY <1>3, ProductPositive DEF Positive
<1> HIDE DEF p, t
<1>7. g[t] * (m * p) = m * (g[t] * p)
  BY <1>5, <1>6, Reordered
<1> QED BY <1>3, <1>4, <1>7

(* Any element may be taken out first, whatever the order of the fold.       *)
LEMMA ProductWithout ==
  ASSUME NEW S, IsFiniteSet(S), NEW n \in Positive, NEW g, \A t \in S : g[t] \in Positive,
         NEW t \in S
  PROVE  ProductOf(n, g, S) = g[t] * ProductOf(n, g, S \ {t})
<1> DEFINE P(A) == ProductOf(n, g, A)
           Bad == {A \in SUBSET S : \E u \in A : P(A) # g[u] * P(A \ {u})}
<1> SUFFICES ASSUME Bad # {} PROVE FALSE
  OBVIOUS
<1>1. PICK A \in Bad : \A B \in Bad : B \subseteq A => B = A
  <2>1. Bad \in SUBSET SUBSET S
    OBVIOUS
  <2> HIDE DEF Bad
  <2> QED BY <2>1, SmallestSet
<1>2. PICK u \in A : P(A) # g[u] * P(A \ {u})
  OBVIOUS
<1> DEFINE c == Pick(A)
<1>3. /\ c \in A
      /\ P(A) = g[c] * P(A \ {c})
  BY FS_Subset, ProductOfSome
<1>4. u # c
  BY <1>2, <1>3
<1>5. P(A \ {c}) = g[u] * P((A \ {c}) \ {u})
  BY <1>1, <1>3, <1>4
<1>6. P(A \ {u}) = g[c] * P((A \ {u}) \ {c})
  BY <1>1, <1>3, <1>4
<1>7. (A \ {u}) \ {c} = (A \ {c}) \ {u}
  OBVIOUS
<1>8. P((A \ {c}) \ {u}) \in Int
  <2>1. IsFiniteSet((A \ {c}) \ {u}) /\ (A \ {c}) \ {u} \subseteq S
    BY FS_Subset
  <2> QED BY <2>1, ProductPositive DEF Positive
<1>9. g[u] \in Int /\ g[c] \in Int
  BY <1>3 DEF Positive
<1> HIDE DEF P, c
<1>10. g[c] * (g[u] * P((A \ {c}) \ {u})) = g[u] * (g[c] * P((A \ {c}) \ {u}))
  BY <1>8, <1>9, Reordered
<1> QED BY <1>2, <1>3, <1>5, <1>6, <1>7, <1>10

LEMMA ProductWith ==
  ASSUME NEW S, IsFiniteSet(S), NEW n \in Positive, NEW g, NEW t, t \notin S,
         \A u \in S \cup {t} : g[u] \in Positive
  PROVE  ProductOf(n, g, S \cup {t}) = g[t] * ProductOf(n, g, S)
<1>1. IsFiniteSet(S \cup {t}) /\ t \in S \cup {t} /\ (S \cup {t}) \ {t} = S
  BY FS_AddElement
<1> QED BY <1>1, ProductWithout

-----------------------------------------------------------------------------
(* The loop and the hierarchy.                                             *)

Ones == [type \in Types |-> One]

\* num / den is n / d times the weights w of the types of C.
Counted(num, den, w, C, n, d) ==
  /\ IsFiniteSet(C) /\ C \subseteq Types /\ w \in [Types -> Positive]
  /\ num = ProductOf(n, w, {type \in C : w[type] # One})
  /\ den = ProductOf(d, Ones, {type \in C : w[type] # One})

LEMMA OneMore ==
  ASSUME NEW n \in Positive, NEW d \in Positive, NEW num, NEW den, NEW w, NEW C,
         Counted(num, den, w, C, n, d), NEW t \in Types \ C, NEW m \in Positive
  PROVE  LET v == [w EXCEPT ![t] = m] IN
         /\ v[t] = m /\ \A u \in C : v[u] = w[u]
         /\ m = One => Counted(num, den, v, C \cup {t}, n, d)
         /\ m # One => Counted(m * num, One * den, v, C \cup {t}, n, d)
<1> DEFINE v == [w EXCEPT ![t] = m]
           S == {u \in C : w[u] # One}
           T == {u \in C \cup {t} : v[u] # One}
<1>1. /\ IsFiniteSet(C) /\ C \subseteq Types /\ w \in [Types -> Positive]
      /\ num = ProductOf(n, w, S) /\ den = ProductOf(d, Ones, S)
  BY DEF Counted
<1>2. v[t] = m /\ \A u \in C : v[u] = w[u]
  BY <1>1
<1>3. v \in [Types -> Positive]
  BY <1>1
<1>4. IsFiniteSet(C \cup {t}) /\ C \cup {t} \subseteq Types
  BY <1>1, FS_AddElement
<1>5. IsFiniteSet(S) /\ S \subseteq C
  BY <1>1, FS_Subset
<1>6. ProductOf(n, v, S) = num
  <2>1. \A u \in S : v[u] = w[u]
    BY <1>2
  <2> HIDE DEF v, S
  <2> QED BY <1>1, <1>5, <2>1, ProductSame
<1>7. CASE m = One
  <2>1. T = S
    BY <1>2, <1>7
  <2> HIDE DEF v, S, T
  <2>2. num = ProductOf(n, v, T) /\ den = ProductOf(d, Ones, T)
    BY <1>1, <1>6, <2>1
  <2>3. Counted(num, den, v, C \cup {t}, n, d)
    BY <1>3, <1>4, <2>2 DEF Counted, T
  <2> QED BY <1>2, <1>7, <2>3 DEF v
<1>8. CASE m # One
  <2>1. T = S \cup {t} /\ t \notin S
    BY <1>2, <1>8
  <2>2. \A u \in S \cup {t} : v[u] \in Positive /\ Ones[u] \in Positive /\ Ones[u] = One
    BY <1>1, <1>3, <1>5, OwnFactors DEF Ones
  <2>3. v[t] = m /\ Ones[t] = One
    BY <1>2 DEF Ones
  <2> HIDE DEF v, S, T
  <2>4. m * num = ProductOf(n, v, T)
    BY <1>5, <1>6, <2>1, <2>2, <2>3, ProductWith
  <2>5. One * den = ProductOf(d, Ones, T)
    BY <1>1, <1>5, <2>1, <2>2, <2>3, ProductWith
  <2>6. Counted(m * num, One * den, v, C \cup {t}, n, d)
    BY <1>3, <1>4, <2>4, <2>5 DEF Counted, T
  <2> QED BY <1>2, <1>8, <2>6 DEF v
<1> QED BY <1>7, <1>8

\* A number after a factor f of which it takes k.
Taken(f, k, x) == IF f = One THEN x ELSE k * x

(* What a factor leaves alone.                                             *)
LEMMA TimesKeeps ==
  ASSUME NEW ev \in Evaluation, NEW m \in Positive
  PROVE  LET x == Times(ev, m) IN
         /\ x \in Evaluation /\ x.s = ev.s /\ x.base = ev.base
         /\ x.date = ev.date /\ x.left = ev.left
         /\ x.seen = ev.seen /\ x.rest = ev.rest /\ x.applied = ev.applied
         /\ x.rain = ev.rain /\ x.use = ev.use /\ x.at = ev.at
         /\ x.num = Taken(m, m, ev.num)
         /\ x.den = Taken(m, One, ev.den)
<1>1. Times(ev, m) \in Evaluation
  BY Factors
<1>2. ev.num * m = m * ev.num /\ ev.den * One = One * ev.den
  BY OwnFactors DEF Evaluation, Positive
<1>3. CASE m = One
  BY <1>1, <1>3 DEF Times, Taken
<1>4. CASE m # One
  <2>1. Times(ev, m) = [ev EXCEPT !.num = m * ev.num, !.den = One * ev.den]
    BY <1>2, <1>4 DEF Times
  <2>2. DOMAIN ev = {"use", "s", "base", "date", "left", "seen", "rest", "applied", "num", "den",
                     "rain", "at"}
    BY DEF Evaluation
  <2> QED BY <1>1, <1>4, <2>1, <2>2 DEF Taken
<1> QED BY <1>3, <1>4

\* m / e is n / d times the weights of C and the factor f of type t.
AlsoCounted(w, C, t, f, m, e, n, d) ==
  \E v : /\ \A u \in C : v[u] = w[u]
         /\ t \notin C => v[t] = f
         /\ Counted(m, e, v, C \cup {t}, n, d)

LEMMA FactorCounts ==
  ASSUME NEW n \in Positive, NEW d \in Positive, NEW w, NEW C, NEW num, NEW den,
         Counted(num, den, w, C, n, d), NEW t \in Types, NEW f \in Positive,
         t \in C => f = One,
         NEW m, m = Taken(f, f, num),
         NEW e, e = Taken(f, One, den)
  PROVE  AlsoCounted(w, C, t, f, m, e, n, d)
<1> SUFFICES \E v : /\ \A u \in C : v[u] = w[u]
                    /\ t \notin C => v[t] = f
                    /\ Counted(m, e, v, C \cup {t}, n, d)
  BY DEF AlsoCounted
<1>1. CASE t \in C
  <2>1. C \cup {t} = C
    BY <1>1
  <2> QED BY <1>1, <2>1 DEF Taken
<1>2. CASE t \notin C
  <2> DEFINE v == [w EXCEPT ![t] = f]
  <2>1. /\ v[t] = f /\ \A u \in C : v[u] = w[u]
        /\ f = One => Counted(num, den, v, C \cup {t}, n, d)
        /\ f # One => Counted(f * num, One * den, v, C \cup {t}, n, d)
    <3>1. t \in Types \ C
      BY <1>2
    <3> HIDE DEF v
    <3> QED BY <3>1, OneMore DEF v
  <2> HIDE DEF v
  <2>2. Counted(m, e, v, C \cup {t}, n, d)
    BY <2>1 DEF Taken
  <2> QED BY <2>1, <2>2
<1> QED BY <1>1, <1>2
-----------------------------------------------------------------------------
(* What an evaluation has counted.                                         *)

LEMMA WinnersSame ==
  ASSUME NEW x, NEW y, x.seen = y.seen, x.s = y.s, x.date = y.date, x.left = y.left, NEW t
  PROVE  Candidates(x, t) = Candidates(y, t) /\ Winners(x, t) = Winners(y, t)
BY DEF Candidates, Winners

\* The types of which a rule has applied count with a rule that wins.
ByRule(ev, w) == \A t \in ev.applied : \E r \in Winners(ev, t) : w[t] = r.mult

\* In the loop: the rules come by priority, and a type without a rule so far has
\* its candidates still to come.
LoopFits(ev) ==
  /\ \A r \in ev.seen : r.mult \in Positive
  /\ ev.rest \subseteq ev.seen
  /\ \A q \in ev.seen \ ev.rest, r \in ev.rest : r.priority <= q.priority
  /\ \A t \in Types \ ev.applied : Candidates(ev, t) \subseteq ev.rest
  /\ \E w : Counted(ev.num, ev.den, w, ev.applied, 1, 1) /\ ByRule(ev, w)

Early == {"peak_hour", "weekend", "weather"}

\* After the loop and the built-in rules.
BuiltInFits(ev) ==
  /\ \A t \in Types \ ev.applied : Winners(ev, t) = {}
  /\ \E w : /\ Counted(ev.num, ev.den, w, ev.applied \cup Early, 1, 1) /\ ByRule(ev, w)
            /\ "peak_hour" \notin ev.applied =>
                 w["peak_hour"] = IF ev.s \in Peak THEN 15 * Tenth ELSE One
            /\ "weekend" \notin ev.applied =>
                 w["weekend"] = IF ev.date \in Weekend THEN 13 * Tenth ELSE One
            /\ "weather" \notin ev.applied =>
                 w["weather"] = IF ev.rain THEN 7 * Tenth ELSE One

\* After the last step.
PriceFits(x) == Settled(x) => x.price \in ReferencePrices(x)

Explained(x) ==
  x = None \/ /\ x.at = "rules" => LoopFits(x)
              /\ x.at = "demand" => BuiltInFits(x)
              /\ x.at = "priced" => PriceFits(x)

LEMMA StartFits ==
  ASSUME NEW ev \in Evaluation, ev.seen = ev.rest, ev.applied = {}, ev.num = 1, ev.den = 1,
         \A r \in ev.seen : r.mult \in Positive
  PROVE  LoopFits(ev)
<1>1. \A t \in Types : Candidates(ev, t) \subseteq ev.rest
  BY DEF Candidates
<1>2. \E w : Counted(ev.num, ev.den, w, ev.applied, 1, 1) /\ ByRule(ev, w)
  <2>1. Counted(1, 1, Ones, {}, 1, 1)
    <3>1. Ones \in [Types -> Positive]
      BY OwnFactors DEF Ones
    <3>2. {type \in {} : Ones[type] # One} = {}
      OBVIOUS
    <3> QED BY <3>1, <3>2, ProductOfNone, FS_EmptySet DEF Counted
  <2> QED BY <2>1 DEF ByRule
<1> QED BY <1>1, <1>2 DEF LoopFits

LEMMA TurnFits ==
  ASSUME NEW e0 \in Evaluation, LoopFits(e0), NEW r \in e0.rest,
         \A q \in e0.rest : q.priority <= r.priority
  PROVE  LET ev == [e0 EXCEPT !.rest = @ \ {r}]
             hit == [ev EXCEPT !.applied = @ \cup {r.type}]
         IN  /\ Matches(r, ev) => LoopFits(Times(hit, Multiplier(r.mult)))
             /\ ~Matches(r, ev) => LoopFits(ev)
<1> DEFINE ev == [e0 EXCEPT !.rest = @ \ {r}]
           hit == [ev EXCEPT !.applied = @ \cup {r.type}]
<1>1. /\ \A q \in e0.seen : q.mult \in Positive
      /\ e0.rest \subseteq e0.seen
      /\ \A p \in e0.seen \ e0.rest, q \in e0.rest : q.priority <= p.priority
      /\ \A t \in Types \ e0.applied : Candidates(e0, t) \subseteq e0.rest
  BY DEF LoopFits
<1>2. PICK w : Counted(e0.num, e0.den, w, e0.applied, 1, 1) /\ ByRule(e0, w)
  BY DEF LoopFits
<1>3. /\ ev \in Evaluation /\ ev.seen = e0.seen /\ ev.s = e0.s
      /\ ev.date = e0.date /\ ev.left = e0.left
      /\ ev.rest = e0.rest \ {r} /\ ev.applied = e0.applied
      /\ ev.num = e0.num /\ ev.den = e0.den
  BY DEF Evaluation
<1>4. r \in Proposal /\ r.type \in Types
  BY DEF Evaluation, Proposal
<1>5. /\ hit \in Evaluation /\ hit.seen = e0.seen /\ hit.s = e0.s
      /\ hit.date = e0.date /\ hit.left = e0.left
      /\ hit.rest = e0.rest \ {r} /\ hit.applied = e0.applied \cup {r.type}
      /\ hit.num = e0.num /\ hit.den = e0.den
  BY <1>3, <1>4 DEF Evaluation
<1>6. \A p \in e0.seen \ (e0.rest \ {r}), q \in e0.rest \ {r} : q.priority <= p.priority
  BY <1>1
<1>7. Matches(r, ev) <=> r.type \notin e0.applied /\ r \in Candidates(e0, r.type)
  BY <1>1, <1>3 DEF Matches, Candidates
<1> HIDE DEF ev, hit
<1>8. ASSUME Matches(r, ev) PROVE LoopFits(Times(hit, Multiplier(r.mult)))
  <2> DEFINE m == Multiplier(r.mult)
             x == Times(hit, m)
  <2>1. m = r.mult /\ m \in Positive
    BY <1>1 DEF Multiplier, Positive
  <2> HIDE DEF m
  <2>2. /\ x \in Evaluation /\ x.s = hit.s /\ x.seen = hit.seen
        /\ x.date = hit.date /\ x.left = hit.left
        /\ x.rest = hit.rest /\ x.applied = hit.applied
        /\ x.num = Taken(m, m, hit.num)
        /\ x.den = Taken(m, One, hit.den)
    BY <1>5, <2>1, TimesKeeps
  <2> HIDE DEF x
  <2>3. r.type \in Types \ e0.applied /\ r \in Candidates(e0, r.type)
    BY <1>4, <1>7, <1>8
  <2>4. r \in Winners(e0, r.type)
    BY <1>1, <2>3 DEF Winners
  <2>5. \A t \in Types : Candidates(x, t) = Candidates(e0, t) /\ Winners(x, t) = Winners(e0, t)
    BY <1>5, <2>2, WinnersSame
  <2>6. ASSUME NEW t \in Types \ x.applied PROVE Candidates(x, t) \subseteq x.rest
    <3>1. t \in Types \ e0.applied /\ t # r.type
      BY <1>5, <2>2
    <3>2. r \notin Candidates(e0, t)
      BY <3>1 DEF Candidates
    <3> QED BY <1>1, <1>5, <2>2, <2>5, <3>1, <3>2
  <2>7. \E v : Counted(x.num, x.den, v, x.applied, 1, 1) /\ ByRule(x, v)
    <3> DEFINE num == e0.num
               den == e0.den
               A == e0.applied
               t == r.type
               v == [w EXCEPT ![t] = m]
    <3>1. Counted(num, den, w, A, 1, 1) /\ t \in Types \ A /\ 1 \in Positive
      BY <1>2, <2>3 DEF Positive
    <3> HIDE DEF num, den, A, t
    <3>2. /\ v[t] = m /\ \A u \in A : v[u] = w[u]
          /\ m = One => Counted(num, den, v, A \cup {t}, 1, 1)
          /\ m # One => Counted(m * num, One * den, v, A \cup {t}, 1, 1)
      BY <2>1, <3>1, OneMore
    <3> HIDE DEF v
    <3>3. Counted(x.num, x.den, v, x.applied, 1, 1)
      BY <1>5, <2>2, <3>2 DEF num, den, A, t, Taken
    <3>4. \A u \in A : u \in Types /\ \E q \in Winners(x, u) : v[u] = q.mult
      BY <1>2, <2>5, <3>2 DEF ByRule, A, Counted
    <3>5. \E q \in Winners(x, t) : v[t] = q.mult
      BY <2>1, <2>3, <2>4, <2>5, <3>2 DEF t
    <3>6. x.applied = A \cup {t}
      BY <1>5, <2>2 DEF A, t
    <3>7. ByRule(x, v)
      BY <3>4, <3>5, <3>6 DEF ByRule
    <3> QED BY <3>3, <3>7
  <2> QED BY <1>1, <1>5, <1>6, <2>2, <2>6, <2>7 DEF LoopFits, x, m
<1>9. ASSUME ~Matches(r, ev) PROVE LoopFits(ev)
  <2>1. \A t \in Types : Candidates(ev, t) = Candidates(e0, t) /\ Winners(ev, t) = Winners(e0, t)
    BY <1>3, WinnersSame
  <2>2. ASSUME NEW t \in Types \ ev.applied PROVE Candidates(ev, t) \subseteq ev.rest
    <3>1. r \notin Candidates(e0, t)
      BY <1>3, <1>7, <1>9 DEF Candidates
    <3> QED BY <1>1, <1>3, <2>1, <3>1
  <2>3. Counted(ev.num, ev.den, w, ev.applied, 1, 1)
    BY <1>2, <1>3
  <2>4. ByRule(ev, w)
    BY <1>2, <1>3, <2>1 DEF ByRule, Counted
  <2> QED BY <1>1, <1>3, <1>6, <2>2, <2>3, <2>4 DEF LoopFits
<1> QED BY <1>8, <1>9 DEF ev, hit

\* The fraction after a multiplication.
LEMMA TimesParts ==
  ASSUME NEW ev \in Evaluation, NEW m \in Positive, NEW x, x = Times(ev, m)
  PROVE  /\ x.num = Taken(m, m, ev.num)
         /\ x.den = Taken(m, One, ev.den)
BY TimesKeeps

LEMMA BuiltInRulesFit ==
  ASSUME NEW ev \in Evaluation, LoopFits(ev), ev.rest = {}, rain \in BOOLEAN
  PROVE  BuiltInFits([BuiltInTimes(ev) EXCEPT !.rain = rain, !.at = "demand"])
<1> DEFINE A == ev.applied
<1>1. PICK w : Counted(ev.num, ev.den, w, A, 1, 1) /\ ByRule(ev, w)
  BY DEF LoopFits
<1>2. /\ "peak_hour" \in Types /\ "weekend" \in Types /\ "weather" \in Types /\ 1 \in Positive
  BY PricingAssumption DEF Positive
<1>3. PICK f1 : f1 = BuiltIn(ev.s \in Peak, "peak_hour", A, 15 * Tenth)
  OBVIOUS
<1>4. PICK x1 : x1 = Times(ev, f1)
  OBVIOUS
<1>5. PICK f2 : f2 = BuiltIn(ev.date \in Weekend, "weekend", A, 13 * Tenth)
  OBVIOUS
<1>6. PICK x2 : x2 = Times(x1, f2)
  OBVIOUS
<1>7. PICK f3 : f3 = BuiltIn(rain, "weather", A, 7 * Tenth)
  OBVIOUS
<1>8. PICK x3 : x3 = Times(x2, f3)
  OBVIOUS
<1>9. BuiltInTimes(ev) = x3
  BY <1>3, <1>4, <1>5, <1>6, <1>7, <1>8 DEF BuiltInTimes
<1>10. /\ f1 \in Positive /\ f1 = IF ev.s \in Peak /\ "peak_hour" \notin A THEN 15 * Tenth ELSE One
       /\ f2 \in Positive
       /\ f2 = IF ev.date \in Weekend /\ "weekend" \notin A THEN 13 * Tenth ELSE One
       /\ f3 \in Positive /\ f3 = IF rain /\ "weather" \notin A THEN 7 * Tenth ELSE One
  BY <1>3, <1>5, <1>7, OwnFactors DEF BuiltIn
<1>11. /\ x1 \in Evaluation /\ x2 \in Evaluation /\ x3 \in Evaluation
       /\ x3.applied = A /\ x3.s = ev.s /\ x3.seen = ev.seen
       /\ x3.date = ev.date /\ x3.left = ev.left
  <2>0. f1 \in Positive /\ f2 \in Positive /\ f3 \in Positive
    BY <1>10
  <2>1. /\ x1 \in Evaluation /\ x1.applied = A /\ x1.s = ev.s /\ x1.seen = ev.seen
        /\ x1.date = ev.date /\ x1.left = ev.left
    BY <1>4, <2>0, TimesKeeps
  <2>2. /\ x2 \in Evaluation /\ x2.applied = A /\ x2.s = ev.s /\ x2.seen = ev.seen
        /\ x2.date = ev.date /\ x2.left = ev.left
    BY <1>6, <2>0, <2>1, TimesKeeps
  <2> QED BY <1>8, <2>0, <2>1, <2>2, TimesKeeps
<1> HIDE DEF A
<1>12. PICK w1 : /\ \A u \in A : w1[u] = w[u]
                 /\ "peak_hour" \notin A => w1["peak_hour"] = f1
                 /\ Counted(x1.num, x1.den, w1, A \cup {"peak_hour"}, 1, 1)
  <2>1. /\ x1.num = Taken(f1, f1, ev.num)
        /\ x1.den = Taken(f1, One, ev.den)
    BY <1>4, <1>10, TimesParts
  <2>2. Counted(ev.num, ev.den, w, A, 1, 1) /\ ("peak_hour" \in A => f1 = One)
    BY <1>1, <1>10
  <2>3. PICK p, q, m, e : p = ev.num /\ q = ev.den /\ m = x1.num /\ e = x1.den
    OBVIOUS
  <2>4. Counted(p, q, w, A, 1, 1) /\ m = Taken(f1, f1, p) /\ e = Taken(f1, One, q)
    BY <2>1, <2>2, <2>3
  <2>5. AlsoCounted(w, A, "peak_hour", f1, m, e, 1, 1)
    <3>1. f1 \in Positive
      BY <1>10
    <3> QED BY <1>2, <2>2, <2>4, <3>1, FactorCounts
  <2> QED BY <2>3, <2>5 DEF AlsoCounted
<1>13. PICK C1 : C1 = A \cup {"peak_hour"}
  OBVIOUS
<1>14. PICK w2 : /\ \A u \in C1 : w2[u] = w1[u]
                 /\ "weekend" \notin C1 => w2["weekend"] = f2
                 /\ Counted(x2.num, x2.den, w2, C1 \cup {"weekend"}, 1, 1)
  <2>1. Counted(x1.num, x1.den, w1, C1, 1, 1) /\ ("weekend" \in C1 => f2 = One)
    BY <1>10, <1>12, <1>13
  <2>2. /\ x2.num = Taken(f2, f2, x1.num)
        /\ x2.den = Taken(f2, One, x1.den)
    <3>1. f2 \in Positive /\ x1 \in Evaluation
      BY <1>10, <1>11
    <3> QED BY <1>6, <3>1, TimesParts
  <2>3. PICK p, q, m, e : p = x1.num /\ q = x1.den /\ m = x2.num /\ e = x2.den
    OBVIOUS
  <2>4. Counted(p, q, w1, C1, 1, 1) /\ m = Taken(f2, f2, p) /\ e = Taken(f2, One, q)
    BY <2>1, <2>2, <2>3
  <2>5. AlsoCounted(w1, C1, "weekend", f2, m, e, 1, 1)
    <3>1. f2 \in Positive
      BY <1>10
    <3> QED BY <1>2, <2>1, <2>4, <3>1, FactorCounts
  <2> QED BY <2>3, <2>5 DEF AlsoCounted
<1>15. PICK C2 : C2 = C1 \cup {"weekend"}
  OBVIOUS
<1>16. PICK w3 : /\ \A u \in C2 : w3[u] = w2[u]
                 /\ "weather" \notin C2 => w3["weather"] = f3
                 /\ Counted(x3.num, x3.den, w3, C2 \cup {"weather"}, 1, 1)
  <2>1. Counted(x2.num, x2.den, w2, C2, 1, 1) /\ ("weather" \in C2 => f3 = One)
    BY <1>10, <1>13, <1>14, <1>15
  <2>2. /\ x3.num = Taken(f3, f3, x2.num)
        /\ x3.den = Taken(f3, One, x2.den)
    <3>1. f3 \in Positive /\ x2 \in Evaluation
      BY <1>10, <1>11
    <3>2. x3 = Times(x2, f3)
      BY <1>8
    <3> QED BY <3>1, <3>2, TimesParts
  <2>3. PICK p, q, m, e : p = x2.num /\ q = x2.den /\ m = x3.num /\ e = x3.den
    OBVIOUS
  <2>4. Counted(p, q, w2, C2, 1, 1) /\ ("weather" \in C2 => f3 = One)
    BY <2>1, <2>3
  <2>5. m = Taken(f3, f3, p) /\ e = Taken(f3, One, q)
    BY <2>2, <2>3
  <2>6. \E v : /\ \A u \in C2 : v[u] = w2[u]
               /\ "weather" \notin C2 => v["weather"] = f3
               /\ Counted(m, e, v, C2 \cup {"weather"}, 1, 1)
    <3>1. f3 \in Positive
      BY <1>10
    <3> QED BY <1>2, <2>4, <2>5, <3>1, FactorCounts DEF AlsoCounted
  <2> QED BY <2>3, <2>6
<1>17. PICK x : x = [x3 EXCEPT !.rain = rain, !.at = "demand"]
  OBVIOUS
<1>18. /\ x.applied = A /\ x.s = ev.s /\ x.seen = ev.seen /\ x.date = ev.date /\ x.left = ev.left
       /\ x.num = x3.num /\ x.den = x3.den /\ x.rain = rain
  BY <1>11, <1>17 DEF Evaluation
<1>19. \A t : Winners(x, t) = Winners(ev, t) /\ Candidates(x, t) = Candidates(ev, t)
  BY <1>18, WinnersSame
<1>20. \A t \in Types \ x.applied : Winners(x, t) = {}
  BY <1>18, <1>19 DEF LoopFits, Winners, A
<1>21. Counted(x.num, x.den, w3, x.applied \cup Early, 1, 1)
  <2>1. C2 \cup {"weather"} = x.applied \cup Early
    BY <1>13, <1>15, <1>18 DEF Early
  <2> QED BY <1>16, <1>18, <2>1
<1>22. ByRule(x, w3)
  <2>1. \A u \in A : w3[u] = w[u]
    BY <1>12, <1>13, <1>14, <1>15, <1>16
  <2> QED BY <1>1, <1>18, <1>19, <2>1 DEF ByRule, A
<1>23. /\ "peak_hour" \notin x.applied => w3["peak_hour"] = IF x.s \in Peak THEN 15 * Tenth ELSE One
       /\ "weekend" \notin x.applied => w3["weekend"] = IF x.date \in Weekend THEN 13 * Tenth ELSE One
       /\ "weather" \notin x.applied => w3["weather"] = IF x.rain THEN 7 * Tenth ELSE One
  <2>1. "peak_hour" \notin A => w3["peak_hour"] = f1
    BY <1>12, <1>13, <1>14, <1>15, <1>16
  <2>2. "weekend" \notin A => w3["weekend"] = f2
    BY <1>13, <1>14, <1>15, <1>16
  <2>3. "weather" \notin A => w3["weather"] = f3
    BY <1>13, <1>15, <1>16
  <2> QED BY <1>10, <1>18, <2>1, <2>2, <2>3
<1>24. BuiltInFits(x)
  BY <1>20, <1>21, <1>22, <1>23 DEF BuiltInFits
<1> QED BY <1>9, <1>17, <1>24

LEMMA BuiltInValues ==
  ASSUME NEW x
  PROVE  /\ BuiltInOf(x, "peak_hour") = IF x.s \in Peak THEN 15 * Tenth ELSE One
         /\ BuiltInOf(x, "weekend") = IF x.date \in Weekend THEN 13 * Tenth ELSE One
         /\ BuiltInOf(x, "weather") = IF x.rain THEN 7 * Tenth ELSE One
         /\ BuiltInOf(x, "surge") = IF x.demand = "SURGE" THEN 14 * Tenth ELSE One
         /\ BuiltInOf(x, "last_minute") = IF x.demand = "FLASH_SALE" THEN 7 * Tenth ELSE One
         /\ \A t : t \notin Early \cup {"surge", "last_minute"} => BuiltInOf(x, t) = One
BY DEF BuiltInOf, Early

\* The factor of the demand, for a type of its own.
DemandValue(d, t) ==
  IF d = "SURGE" /\ t = "surge" THEN 14 * Tenth
  ELSE IF d = "FLASH_SALE" /\ t = "last_minute" THEN 7 * Tenth ELSE One

\* What is counted when the demand is, from the weights w of the types of C.
DemandCounted(f, w, C, d, n, e) ==
  \E v, D : /\ Counted(f.num, f.den, v, D, n, e)
            /\ C \subseteq D /\ \A u \in C : v[u] = w[u]
            /\ \A u \in D \ C : u \in {"surge", "last_minute"} /\ v[u] = DemandValue(d, u)
            /\ \A u \in {"surge", "last_minute"} \ D : DemandValue(d, u) = One

LEMMA DemandCounts ==
  ASSUME NEW g \in Evaluation, NEW n \in Positive, NEW e \in Positive, NEW w, NEW A, A = g.applied,
         NEW C, C = A \cup Early, Counted(g.num, g.den, w, C, n, e),
         NEW d \in Demands, NEW f, f = DemandTimes(g, d)
  PROVE  DemandCounted(f, w, C, d, n, e)
<1>1. ASSUME NEW t \in {"surge", "last_minute"}, NEW k \in Positive,
             k = IF t \in A THEN One ELSE DemandValue(d, t),
             \A u \in {"surge", "last_minute"} : u # t => DemandValue(d, u) = One,
             f = Times(g, k)
      PROVE  DemandCounted(f, w, C, d, n, e)
  <2>1. t \in Types /\ (t \in C <=> t \in A)
    BY PricingAssumption DEF Early
  <2>2. /\ f.num = Taken(k, k, g.num)
        /\ f.den = Taken(k, One, g.den)
    BY <1>1, TimesKeeps
  <2>3. t \in C => k = One
    BY <1>1, <2>1
  <2>4. PICK v : /\ \A u \in C : v[u] = w[u]
                 /\ t \notin C => v[t] = k
                 /\ Counted(f.num, f.den, v, C \cup {t}, n, e)
    <3>1. PICK p, q, x, y : p = g.num /\ q = g.den /\ x = f.num /\ y = f.den
      OBVIOUS
    <3>2. Counted(p, q, w, C, n, e) /\ x = Taken(k, k, p) /\ y = Taken(k, One, q)
      BY <2>2, <3>1
    <3>3. k \in Positive
      BY <1>1
    <3>4. AlsoCounted(w, C, t, k, x, y, n, e)
      BY <2>1, <2>3, <3>2, <3>3, FactorCounts
    <3> QED BY <3>1, <3>4 DEF AlsoCounted
  <2>5. PICK D : D = C \cup {t}
    OBVIOUS
  <2>6. /\ Counted(f.num, f.den, v, D, n, e)
        /\ C \subseteq D /\ \A u \in C : v[u] = w[u]
    BY <2>4, <2>5
  <2>7. \A u \in D \ C : u \in {"surge", "last_minute"} /\ v[u] = DemandValue(d, u)
    BY <1>1, <2>1, <2>4, <2>5
  <2>8. \A u \in {"surge", "last_minute"} \ D : DemandValue(d, u) = One
    BY <1>1, <2>5
  <2> QED BY <2>6, <2>7, <2>8 DEF DemandCounted
<1>2. CASE d = "SURGE"
  <2>1. PICK k : k = BuiltIn(TRUE, "surge", A, 14 * Tenth)
    OBVIOUS
  <2>2. f = Times(g, k)
    BY <1>2, <2>1 DEF DemandTimes
  <2>3. k \in Positive /\ k = IF "surge" \in A THEN One ELSE DemandValue(d, "surge")
    BY <1>2, <2>1, OwnFactors DEF BuiltIn, DemandValue
  <2>4. \A u \in {"surge", "last_minute"} : u # "surge" => DemandValue(d, u) = One
    BY <1>2 DEF DemandValue
  <2>5. "surge" \in {"surge", "last_minute"}
    OBVIOUS
  <2> QED BY <1>1, <2>2, <2>3, <2>4, <2>5
<1>3. CASE d = "FLASH_SALE"
  <2>1. PICK k : k = BuiltIn(TRUE, "last_minute", A, 7 * Tenth)
    OBVIOUS
  <2>2. f = Times(g, k)
    BY <1>3, <2>1 DEF DemandTimes
  <2>3. k \in Positive /\ k = IF "last_minute" \in A THEN One ELSE DemandValue(d, "last_minute")
    BY <1>3, <2>1, OwnFactors DEF BuiltIn, DemandValue
  <2>4. \A u \in {"surge", "last_minute"} : u # "last_minute" => DemandValue(d, u) = One
    BY <1>3 DEF DemandValue
  <2>5. "last_minute" \in {"surge", "last_minute"}
    OBVIOUS
  <2> QED BY <1>1, <2>2, <2>3, <2>4, <2>5
<1>4. CASE d = "NORMAL"
  <2>1. f = g
    BY <1>4 DEF DemandTimes, Times
  <2>2. \A u \in {"surge", "last_minute"} : DemandValue(d, u) = One
    BY <1>4 DEF DemandValue
  <2> QED BY <2>1, <2>2 DEF DemandCounted
<1> QED BY <1>2, <1>3, <1>4 DEF Demands

LEMMA FinishFits ==
  ASSUME NEW ev \in Evaluation, BuiltInFits(ev), NEW m \in Positive, NEW d \in Demands,
         NEW f, f = DemandTimes(Times(ev, m), d),
         NEW x, x.s = ev.s, x.base = ev.base, x.date = ev.date, x.left = ev.left,
         x.seen = ev.seen,         x.rain = ev.rain, x.admin = m, x.demand = d,
         x.price \in Charged(ev.base, f.num, f.den)
  PROVE  PriceFits(x)
<1> SUFFICES ASSUME Settled(x) PROVE x.price \in ReferencePrices(x)
  BY DEF PriceFits
<1>1. PICK A : A = ev.applied
  OBVIOUS
<1>2. PICK C : C = A \cup Early
  OBVIOUS
<1>3. PICK w : /\ Counted(ev.num, ev.den, w, C, 1, 1) /\ ByRule(ev, w)
               /\ "peak_hour" \notin A => w["peak_hour"] = IF ev.s \in Peak THEN 15 * Tenth ELSE One
               /\ "weekend" \notin A => w["weekend"] = IF ev.date \in Weekend THEN 13 * Tenth ELSE One
               /\ "weather" \notin A => w["weather"] = IF ev.rain THEN 7 * Tenth ELSE One
  BY <1>1, <1>2 DEF BuiltInFits
<1>4. PICK g : g = Times(ev, m)
  OBVIOUS
<1>5. PICK n : n = IF m = One THEN 1 ELSE m
  OBVIOUS
<1>6. PICK e : e = IF m = One THEN 1 ELSE One
  OBVIOUS
<1>7. n \in Positive /\ e \in Positive /\ 1 \in Positive /\ One \in Positive
  BY <1>5, <1>6, OwnFactors
<1>8. /\ g \in Evaluation /\ g.applied = A
      /\ g.num = Taken(m, m, ev.num)
      /\ g.den = Taken(m, One, ev.den)
  BY <1>1, <1>4, TimesKeeps
<1>9. PICK S : S = {t \in C : w[t] # One}
  OBVIOUS
<1>10. /\ IsFiniteSet(C) /\ C \subseteq Types /\ w \in [Types -> Positive]
       /\ ev.num = ProductOf(1, w, S) /\ ev.den = ProductOf(1, Ones, S)
  BY <1>3, <1>9 DEF Counted
<1>11. IsFiniteSet(S) /\ S \subseteq Types
  BY <1>9, <1>10, FS_Subset
<1>12. \A t \in S : w[t] \in Positive /\ Ones[t] \in Positive
  BY <1>7, <1>10, <1>11 DEF Ones
<1>13. ProductOf(m * 1, w, S) = m * ProductOf(1, w, S)
  BY <1>7, <1>11, <1>12, ProductScaled
<1>14. ProductOf(One * 1, Ones, S) = One * ProductOf(1, Ones, S)
  BY <1>7, <1>11, <1>12, ProductScaled
<1>15. m * 1 = m /\ One * 1 = One
  BY OwnFactors DEF Positive
<1>16. g.num = ProductOf(n, w, S) /\ g.den = ProductOf(e, Ones, S)
  BY <1>5, <1>6, <1>8, <1>10, <1>13, <1>14, <1>15 DEF Taken
<1>17. Counted(g.num, g.den, w, C, n, e)
  BY <1>9, <1>10, <1>16 DEF Counted
<1>18. PICK v, D : /\ Counted(f.num, f.den, v, D, n, e)
                   /\ C \subseteq D /\ \A u \in C : v[u] = w[u]
                   /\ \A u \in D \ C : u \in {"surge", "last_minute"} /\ v[u] = DemandValue(d, u)
                   /\ \A u \in {"surge", "last_minute"} \ D : DemandValue(d, u) = One
  <2>1. f = DemandTimes(g, d)
    BY <1>4
  <2>2. DemandCounted(f, w, C, d, n, e)
    BY <1>2, <1>7, <1>8, <1>17, <2>1, DemandCounts
  <2> QED BY <2>2 DEF DemandCounted
<1>19. PICK W : W = {t \in D : v[t] # One}
  OBVIOUS
<1>20. /\ IsFiniteSet(D) /\ D \subseteq Types /\ v \in [Types -> Positive]
       /\ f.num = ProductOf(n, v, W) /\ f.den = ProductOf(e, Ones, W)
  BY <1>18, <1>19 DEF Counted
<1>21. IsFiniteSet(W) /\ W \subseteq D
  BY <1>19, <1>20, FS_Subset
<1>22. \A t : Winners(x, t) = Winners(ev, t)
  BY WinnersSame
<1>23. ASSUME NEW t \in A PROVE t \in D /\ v[t] = Weight(x, t)
  <2>1. t \in C /\ t \in Types
    BY <1>2, <1>10, <1>23
  <2>2. PICK r \in Winners(x, t) : w[t] = r.mult
    BY <1>1, <1>3, <1>22, <1>23 DEF ByRule
  <2>3. Weight(x, t) = (CHOOSE q \in Winners(x, t) : TRUE).mult
    BY <2>2 DEF Weight
  <2>4. PICK q : q = CHOOSE z \in Winners(x, t) : TRUE
    OBVIOUS
  <2>5. q \in Winners(x, t)
    BY <2>2, <2>4
  <2>6. q.mult = r.mult
    BY <2>1, <2>2, <2>5 DEF Settled
  <2> QED BY <1>18, <2>1, <2>2, <2>3, <2>4, <2>6
<1>24. ASSUME NEW t \in Types \ A PROVE Weight(x, t) = BuiltInOf(x, t)
  BY <1>1, <1>22, <1>24 DEF BuiltInFits, Weight
<1>25. ASSUME NEW t \in Early \ A PROVE t \in D /\ v[t] = Weight(x, t)
  <2>1. t \in C /\ t \in Types
    BY <1>2, <1>10, <1>25
  <2>2. w[t] = BuiltInOf(x, t)
    BY <1>3, <1>25, BuiltInValues DEF Early
  <2> QED BY <1>18, <1>24, <1>25, <2>1, <2>2
<1>26. ASSUME NEW t \in {"surge", "last_minute"} \ A
       PROVE  /\ t \in D => v[t] = Weight(x, t)
              /\ t \notin D => Weight(x, t) = One
  <2>1. t \in Types /\ t \notin C
    BY <1>2, <1>26, PricingAssumption DEF Early
  <2>2. Weight(x, t) = DemandValue(d, t)
    BY <1>24, <1>26, <2>1, BuiltInValues DEF DemandValue
  <2> QED BY <1>18, <1>26, <2>1, <2>2
<1>27. ASSUME NEW t \in Types \ (A \cup Early \cup {"surge", "last_minute"})
       PROVE  t \notin D /\ Weight(x, t) = One
  BY <1>2, <1>18, <1>24, <1>27, BuiltInValues
<1>28. ASSUME NEW t \in Types
       PROVE  /\ t \in D => v[t] = Weight(x, t)
              /\ t \notin D => Weight(x, t) = One
  BY <1>23, <1>25, <1>26, <1>27
<1>29. W = Weighty(x)
  BY <1>19, <1>20, <1>28 DEF Weighty
<1>30. PICK k : k = Weights(x)
  OBVIOUS
<1>31. \A t \in W : v[t] = k[t]
  BY <1>20, <1>21, <1>28, <1>30 DEF Weights
<1>32. f.num = ProductOf(n, k, W)
  BY <1>20, <1>21, <1>31, ProductSame
<1>33. n = Neutral(x.admin, x.admin) /\ e = Neutral(x.admin, One)
  BY <1>5, <1>6 DEF Neutral
<1>34. ReferencePrices(x) = Charged(x.base, ProductOf(n, k, W), ProductOf(e, Ones, W))
  BY <1>29, <1>30, <1>33 DEF ReferencePrices, Ones
<1> QED BY <1>20, <1>32, <1>34
-----------------------------------------------------------------------------
(* The invariant of the hierarchy.                                         *)

HierarchyInv ==
  /\ PricingInv
  /\ \A r \in rules : r.mult \in Positive
  /\ \A e \in Evals : Explained(eval[e])

LEMMA OneExplained ==
  ASSUME HierarchyInv, NEW e \in Evals, NEW x, Explained(x),
         eval' = [eval EXCEPT ![e] = x], UNCHANGED rules, PricingInv'
  PROVE  HierarchyInv'
<1>1. eval = [f \in Evals |-> eval[f]]
  BY DEF HierarchyInv, PricingInv, PTypeOK
<1>2. eval' = [f \in Evals |-> IF f = e THEN x ELSE eval[f]]
  BY <1>1
<1>3. \A f \in Evals : Explained(eval'[f])
  <2> SUFFICES ASSUME NEW f \in Evals PROVE Explained(eval'[f])
    OBVIOUS
  <2>1. eval'[f] = x \/ eval'[f] = eval[f]
    BY <1>2
  <2>2. Explained(eval[f])
    BY DEF HierarchyInv
  <2> QED BY <2>1, <2>2
<1> QED BY <1>3 DEF HierarchyInv

LEMMA StartExplained ==
  ASSUME HierarchyInv, NEW e \in Evals, NEW u \in Uses, NEW s \in Slots,
         NEW t \in {DateOf[s], now}, Start(e, u, s, t)
  PROVE  HierarchyInv'
<1>1. PICK x : x = [use |-> u, s |-> s, base |-> BasePrice(base[s]), date |-> t,
                    left |-> StartsAt[s] - now, seen |-> active, rest |-> active,
                    applied |-> {}, num |-> 1, den |-> 1, rain |-> FALSE, at |-> "rules"]
  OBVIOUS
<1>2. BasePrice(base[s]) \in Positive /\ 1 \in Positive
  BY GoodInput DEF HierarchyInv, PricingInv, PTypeOK, Positive
<1>3. /\ active \subseteq Proposal /\ active \subseteq rules /\ t \in Int
      /\ StartsAt[s] - now \in Int
  BY PricingAssumption DEF HierarchyInv, PricingInv, PTypeOK
<1>4. x \in Evaluation
  BY <1>1, <1>2, <1>3 DEF Evaluation
<1>5. /\ x.seen = x.rest /\ x.applied = {} /\ x.num = 1 /\ x.den = 1 /\ x.at = "rules"
      /\ \A r \in x.seen : r.mult \in Positive
  BY <1>1, <1>3 DEF HierarchyInv
<1>6. LoopFits(x)
  BY <1>4, <1>5, StartFits
<1>7. Explained(x)
  BY <1>5, <1>6 DEF Explained
<1>8. eval' = [eval EXCEPT ![e] = x] /\ UNCHANGED rules
  BY <1>1 DEF Start
<1>9. PricingInv'
  BY StartHolds DEF HierarchyInv
<1> QED BY <1>7, <1>8, <1>9, OneExplained

LEMMA NextRuleExplained ==
  ASSUME HierarchyInv, NEW e \in Evals, NextRule(e)
  PROVE  HierarchyInv'
<1>1. PICK e0 : e0 = eval[e]
  OBVIOUS
<1>2. /\ e0 # None /\ e0.at = "rules" /\ e0 \in Evaluation /\ Explained(e0)
  BY <1>1, EvalFine DEF NextRule, UnderWay, HierarchyInv
<1>3. LoopFits(e0)
  BY <1>2 DEF Explained
<1>4. PICK r \in e0.rest :
        /\ \A q \in e0.rest : q.priority <= r.priority
        /\ LET ev == [e0 EXCEPT !.rest = @ \ {r}] IN
           eval' = [eval EXCEPT ![e] =
             IF Matches(r, ev)
             THEN Times([ev EXCEPT !.applied = @ \cup {r.type}], Multiplier(r.mult))
             ELSE ev]
  BY <1>1 DEF NextRule
<1>5. PICK ev : ev = [e0 EXCEPT !.rest = @ \ {r}]
  OBVIOUS
<1>6. PICK hit : hit = [ev EXCEPT !.applied = @ \cup {r.type}]
  OBVIOUS
<1>7. /\ Matches(r, ev) => LoopFits(Times(hit, Multiplier(r.mult)))
      /\ ~Matches(r, ev) => LoopFits(ev)
  BY <1>2, <1>3, <1>4, <1>5, <1>6, TurnFits
<1>8. PICK x : x = IF Matches(r, ev) THEN Times(hit, Multiplier(r.mult)) ELSE ev
  OBVIOUS
<1>9. LoopFits(x)
  BY <1>7, <1>8
<1>10. r \in Proposal /\ r.type \in Types /\ r.mult \in Int
  BY <1>2, <1>4 DEF Evaluation, Proposal
<1>11. ev \in Evaluation /\ ev.at = "rules" /\ hit \in Evaluation /\ hit.at = "rules"
  BY <1>2, <1>5, <1>6, <1>10 DEF Evaluation
<1>12. x.at = "rules"
  <2>1. Multiplier(r.mult) \in Positive
    BY <1>10, GoodInput
  <2>2. Times(hit, Multiplier(r.mult)).at = "rules"
    BY <1>11, <2>1, TimesKeeps
  <2> QED BY <1>8, <1>11, <2>2
<1>13. Explained(x)
  BY <1>9, <1>12 DEF Explained
<1>14. eval' = [eval EXCEPT ![e] = x] /\ UNCHANGED rules
  BY <1>4, <1>5, <1>6, <1>8 DEF NextRule
<1>15. PricingInv'
  BY NextRuleHolds DEF HierarchyInv
<1> QED BY <1>13, <1>14, <1>15, OneExplained

LEMMA BuiltInRulesExplained ==
  ASSUME HierarchyInv, NEW e \in Evals, BuiltInRules(e)
  PROVE  HierarchyInv'
<1>1. PICK ev : ev = eval[e]
  OBVIOUS
<1>2. /\ ev # None /\ ev.at = "rules" /\ ev.rest = {} /\ ev \in Evaluation /\ Explained(ev)
  BY <1>1, EvalFine DEF BuiltInRules, UnderWay, HierarchyInv
<1>3. LoopFits(ev)
  BY <1>2 DEF Explained
<1>4. PICK b : b = BuiltInTimes(ev)
  OBVIOUS
<1>5. PICK x : x = [b EXCEPT !.rain = rain, !.at = "demand"]
  OBVIOUS
<1>6. rain \in BOOLEAN
  BY DEF HierarchyInv, PricingInv, PTypeOK
<1>7. BuiltInFits(x)
  BY <1>2, <1>3, <1>4, <1>5, <1>6, BuiltInRulesFit
<1>8. b \in Evaluation
  BY <1>2, <1>4, BuiltInType
<1>9. x.at = "demand"
  BY <1>5, <1>8 DEF Evaluation
<1>10. Explained(x)
  BY <1>7, <1>9 DEF Explained
<1>11. eval = [f \in Evals |-> eval[f]]
  BY DEF HierarchyInv, PricingInv, PTypeOK
<1>12. eval' = [eval EXCEPT ![e] = x] /\ UNCHANGED rules
  BY <1>1, <1>4, <1>5, <1>11 DEF BuiltInRules
<1>13. PricingInv'
  BY BuiltInRulesHolds DEF HierarchyInv
<1> QED BY <1>10, <1>12, <1>13, OneExplained

LEMMA FinishExplained ==
  ASSUME HierarchyInv, NEW e \in Evals, Finish(e)
  PROVE  HierarchyInv'
<1>1. PICK ev : ev = eval[e]
  OBVIOUS
<1>2. /\ ev # None /\ ev.at = "demand" /\ ev \in Evaluation /\ Explained(ev)
  BY <1>1, EvalFine DEF Finish, UnderWay, HierarchyInv
<1>3. BuiltInFits(ev)
  BY <1>2 DEF Explained
<1>4. PICK m : m = Multiplier(admin)
  OBVIOUS
<1>5. PICK d \in Demands :
        LET f == DemandTimes(Times(ev, m), d)
        IN  \E p \in Charged(ev.base, f.num, f.den) :
              eval' = [eval EXCEPT ![e] =
                [use |-> ev.use, s |-> ev.s, base |-> ev.base, date |-> ev.date,
                 left |-> ev.left, seen |-> ev.seen, rain |-> ev.rain,
                 admin |-> m, demand |-> d, price |-> p, at |-> "priced"]]
  BY <1>1, <1>4 DEF Finish
<1>6. PICK f : f = DemandTimes(Times(ev, m), d)
  OBVIOUS
<1>7. PICK p, x :
        /\ p \in Charged(ev.base, f.num, f.den)
        /\ x = [use |-> ev.use, s |-> ev.s, base |-> ev.base, date |-> ev.date,
                left |-> ev.left, seen |-> ev.seen, rain |-> ev.rain,
                admin |-> m, demand |-> d, price |-> p, at |-> "priced"]
        /\ eval' = [eval EXCEPT ![e] = x]
  BY <1>5, <1>6
<1>8. m \in Positive
  <2>1. admin \in Int
    BY DEF HierarchyInv, PricingInv, PTypeOK, Positive
  <2> QED BY <1>4, <2>1, GoodInput
<1>9. /\ x.s = ev.s /\ x.base = ev.base /\ x.date = ev.date /\ x.left = ev.left
      /\ x.seen = ev.seen /\ x.rain = ev.rain /\ x.admin = m /\ x.demand = d
      /\ x.price \in Charged(ev.base, f.num, f.den) /\ x.at = "priced"
  BY <1>7
<1>10. PriceFits(x)
  BY <1>2, <1>3, <1>6, <1>8, <1>9, FinishFits
<1>11. Explained(x)
  BY <1>9, <1>10 DEF Explained
<1>12. eval' = [eval EXCEPT ![e] = x] /\ UNCHANGED rules
  BY <1>7 DEF Finish
<1>13. PricingInv'
  BY FinishHolds DEF HierarchyInv
<1> QED BY <1>11, <1>12, <1>13, OneExplained

LEMMA TablesExplained ==
  ASSUME HierarchyInv, PricingInv', UNCHANGED eval, \A r \in rules' : r \in rules \/ r.mult \in Positive
  PROVE  HierarchyInv'
<1>1. \A e \in Evals : eval'[e] = eval[e] /\ Explained(eval[e])
  BY DEF HierarchyInv
<1>2. \A e \in Evals : Explained(eval'[e])
  BY <1>1
<1> QED BY <1>2 DEF HierarchyInv

LEMMA OthersExplained ==
  ASSUME HierarchyInv, PricingInv',
         \/ \E p \in Proposals : AdminCreatePricingRule(p)
         \/ \E r \in rules : AdminTogglePricingRule(r)
         \/ \E m \in Multipliers : UpdatePricingMultiplier(m)
         \/ \E p \in Prices : \/ \E s \in Slots : UpdateSlotPrice(s, p)
                              \/ \E S \in SUBSET Slots : BulkEditSlotPrice(S, p)
         \/ UpdateWeatherState \/ TimePasses \/ Restart
         \/ UNCHANGED pvars
  PROVE  HierarchyInv'
<1>1. ASSUME NEW p \in Proposals, AdminCreatePricingRule(p) PROVE HierarchyInv'
  <2>1. PICK r : r = [p EXCEPT !.priority = IF @ <= 0 THEN 10 ELSE @]
    OBVIOUS
  <2>2. p \in Proposal /\ p.mult \in Int /\ p.mult > 0
    BY <1>1, PricingAssumption DEF AdminCreatePricingRule, Proposal
  <2>3. r.mult \in Positive
    BY <2>1, <2>2 DEF Proposal, Positive
  <2>4. rules' = rules \cup {r} /\ UNCHANGED eval
    BY <1>1, <2>1 DEF AdminCreatePricingRule
  <2> QED BY <2>3, <2>4, TablesExplained
<1>2. CASE Restart
  <2>1. eval' = [e \in Evals |-> None] /\ UNCHANGED rules
    BY <1>2 DEF Restart
  <2>2. \A e \in Evals : Explained(eval'[e])
    BY <2>1 DEF Explained
  <2> QED BY <2>1, <2>2 DEF HierarchyInv
<1>3. CASE UNCHANGED <<eval, rules>>
  BY <1>3, TablesExplained
<1>4. ASSUME \/ \E r \in rules : AdminTogglePricingRule(r)
             \/ \E m \in Multipliers : UpdatePricingMultiplier(m)
             \/ \E p \in Prices : \/ \E s \in Slots : UpdateSlotPrice(s, p)
                                  \/ \E S \in SUBSET Slots : BulkEditSlotPrice(S, p)
             \/ UpdateWeatherState \/ TimePasses
             \/ UNCHANGED pvars
      PROVE  UNCHANGED <<eval, rules>>
  BY <1>4 DEF AdminTogglePricingRule, UpdatePricingMultiplier, UpdateSlotPrice,
              BulkEditSlotPrice, UpdateWeatherState, TimePasses, pvars
<1> QED BY <1>1, <1>2, <1>3, <1>4

LEMMA InitExplained == PInit => HierarchyInv
<1> SUFFICES ASSUME PInit PROVE HierarchyInv
  OBVIOUS
<1>1. rules = {} /\ \A e \in Evals : eval[e] = None
  BY DEF PInit
<1> QED BY <1>1, InitHolds DEF HierarchyInv, Explained

LEMMA NextExplained ==
  ASSUME HierarchyInv, [PNext]_pvars
  PROVE  HierarchyInv'
<1>1. PricingInv'
  BY NextHolds DEF HierarchyInv
<1>2. CASE \E e \in Evals : \/ \E u \in Uses, s \in Slots :
                                \E t \in {DateOf[s], now} : Start(e, u, s, t)
                           \/ NextRule(e) \/ BuiltInRules(e) \/ Finish(e)
  BY <1>2, StartExplained, NextRuleExplained, BuiltInRulesExplained, FinishExplained
<1> QED BY <1>1, <1>2, OthersExplained DEF PNext

\* What the loop computes is what the hierarchy of the rules says.  The rules
\* are sorted by priority, so the first of a type that applies is a winner
\* among those the evaluation loaded; a built-in step counts where no rule of
\* its type did; and the order in which the factors come does not matter.
\* Rules added, switched off or switched on meanwhile, and the weather and the
\* demand of another moment, are those the evaluation read.
THEOREM PriceFollowsHierarchy == PSpec => []PriceIsReference
<1>1. HierarchyInv => PriceIsReference
  <2> SUFFICES ASSUME HierarchyInv, NEW e \in Evals, Priced(e), Settled(eval[e])
               PROVE  eval[e].price \in ReferencePrices(eval[e])
    BY DEF PriceIsReference
  <2>1. Explained(eval[e])
    BY DEF HierarchyInv
  <2> QED BY <2>1 DEF Priced, Explained, PriceFits
<1>2. PSpec => []HierarchyInv
  BY InitExplained, NextExplained, PTL DEF PSpec
<1> QED BY <1>1, <1>2, PTL
=============================================================================
