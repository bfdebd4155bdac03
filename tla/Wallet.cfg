CONSTANTS
  NumCalls = 3
  Reclaims = {3}
  Amount <- MixedAmounts
  Ceiling = 2
  BlocksPerEpoch = 1
  MaxHeight = 1
SPECIFICATION WalletSpec
INVARIANTS
  NoLastingGap
  ReuseOnlyAfterFailure
  CapHoldsInOrder
\* The calls of an instance are finite: when all are over, it stops.
CHECK_DEADLOCK FALSE
