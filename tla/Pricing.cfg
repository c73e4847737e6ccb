SPECIFICATION PSpec
CONSTANTS
  s1 = s1
  Slots = {s1}
  Peak = {}
  StartsAt <- Opening
  DateOf <- Saturday
  Weekend = {1, 2}
  Horizon = 2
  Types <- SomeTypes
  Proposals <- SomeRules
  Prices <- SomePrices
  Multipliers = {15, 60}
  Fallback = 500
  Tenth = 1
  Accuracy = 100000
  Evals = {e1}
  None = None
INVARIANTS PTypeOK PriceInBounds PriceIsReference
