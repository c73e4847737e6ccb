----------------------------- MODULE MCPricing -----------------------------
(* Instances of Pricing for TLC. *)
EXTENDS PricingReference

CONSTANT s1

Rule(type, mult, priority, hours) ==
  [type |-> type, mult |-> mult, priority |-> priority, hours |-> hours,
   fits |-> {s1} \X {1, 2}]

\* A hierarchy of two, an early bird that ties with its second and may fit
\* together with a last minute, and one that the validation refuses.
SomeRules == {Rule("weekend", 20, 50, 0), Rule("weekend", 8, 0, 0),
              Rule("last_minute", 5, 20, 2), Rule("early_bird", 15, 10, 2),
              Rule("early_bird", 60, 30, 0)}
SomeTypes == {"peak_hour", "weekend", "weather", "surge", "early_bird", "last_minute"}

\* The slot starts at 3 on a Saturday that begins at 1.
Saturday == [s \in Slots |-> 1]
Opening == [s \in Slots |-> 3]
SomePrices == {90, -1}
=============================================================================
