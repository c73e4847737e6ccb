-------------------------- MODULE PricingReference --------------------------
(***************************************************************************)
(* What the yield engine promises, said without its loop: of every rule    *)
(* type the rule of the highest priority that fits counts, and a type      *)
(* without one counts by its built-in rule, if it has one.                 *)
(***************************************************************************)
EXTENDS Pricing, FiniteSetsExt

\* The rules of a type that fit the slot of a result.
Candidates(x, type) ==
  {r \in x.seen : r.type = type /\ <<x.s, x.date>> \in r.fits /\ InHours(r, x.left)}

Winners(x, type) ==
  {r \in Candidates(x, type) : \A q \in Candidates(x, type) : q.priority <= r.priority}

\* One price: rules of a type and of one priority have the same multiplier.
Settled(x) ==
  \A type \in Types : \A r, q \in Winners(x, type) : r.mult = q.mult

BuiltInOf(x, type) ==
  CASE type = "peak_hour" /\ x.s \in Peak                -> 15 * Tenth
    [] type = "weekend" /\ x.date \in Weekend            -> 13 * Tenth
    [] type = "weather" /\ x.rain                        -> 7 * Tenth
    [] type = "surge" /\ x.demand = "SURGE"              -> 14 * Tenth
    [] type = "last_minute" /\ x.demand = "FLASH_SALE"   -> 7 * Tenth
    [] OTHER                                             -> One

Weight(x, type) ==
  IF Winners(x, type) = {} THEN BuiltInOf(x, type)
  ELSE (CHOOSE r \in Winners(x, type) : TRUE).mult

\* The types that change the price.
Weighty(x) == {type \in Types : Weight(x, type) # One}

Weights(x) == [type \in Types |-> Weight(x, type)]

ProductOf(n, f, S) == FoldFunctionOnSet(LAMBDA a, b : a * b, n, f, S)

Neutral(m, n) == IF m = One THEN 1 ELSE n

\* The prices there may be: one exact product, within the bounds, and rounded.
ReferencePrices(x) ==
  Charged(x.base, ProductOf(Neutral(x.admin, x.admin), Weights(x), Weighty(x)),
          ProductOf(Neutral(x.admin, One), [type \in Types |-> One], Weighty(x)))

\* README: "priority rule hierarchies".  What the loop computes is a rounding of
\* what the hierarchy says, in whatever order the rules of equal priority come,
\* as long as no two rules of one type, of equal priority and different
\* multipliers compete.
PriceIsReference ==
  \A e \in Evals : Priced(e) /\ Settled(eval[e]) => eval[e].price \in ReferencePrices(eval[e])
=============================================================================
