SPECIFICATION FairSpec
CONSTANTS
  MaxStrike = 6
  MaxPremium = 3
  LotChoices <- LotsAsked
  OwnLotSizes <- LotSizesAsked
  DefaultLots = {0, 2}
  MaxInt = 1023
  MaxListed = 3
  Froms <- FromsAsked
  Limits <- LimitsAsked
INVARIANTS
  MetricsMatchPayoff
  LossNeverUnderstated
  AnswerComplete
  PageIsSlice
PROPERTY
  QueryReturns
CHECK_DEADLOCK FALSE
