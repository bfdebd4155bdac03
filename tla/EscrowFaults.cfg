CONSTANTS
  k1 = k1
  NoKey = NoKey
  Keys = {k1}
  NumBatches = 2
  Payer <- MixedPayer
  Size <- TwoAndOne
  Deposit <- DepositOfThree
  Prices = {3}
  Quotes = {1}
  Durable = TRUE
  StoreMayFail = TRUE
  PowerMayFail = TRUE
  MaxCrashes = 1
SPECIFICATION Spec
INVARIANTS
  LedgerExact
  EscrowSettled
  SettlementsStand
PROPERTIES
  SettledIsFinal
\* The requests of an instance are finite: when all are over, it stops.
CHECK_DEADLOCK FALSE
