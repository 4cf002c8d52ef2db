SPECIFICATION LiveSpec
CHECK_DEADLOCK FALSE
CONSTANTS
  Payment = {1, 2}
  Targets <- MCTargets
  Hop = {"a", "b"}
  Price = {0, 1, 2, 3}
  MaximumFee = 2
  IouTimeout = 2
  MinExpiration = 1
  Attempts = 2
  EarlierIous <- MCEarlierIous
  MaxBlock = 2
  Budget <- MCBudget
INVARIANT RejectedOnlyForPrice
PROPERTIES FeeBounded RoutesAreSound EveryQueryEnds
