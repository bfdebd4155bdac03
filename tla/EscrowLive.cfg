CONSTANTS
  k1 = k1
  NoKey = NoKey
  Keys = {k1}
  NumBatches = 2
  Payer <- SharedPayer
  Size <- OneEach
  Deposit <- DepositOfThree
  Prices = {2}
  Quotes = {0, 1, 2}
  Durable = TRUE
  StoreMayFail = FALSE
  PowerMayFail = FALSE
  MaxCrashes = 2
SPECIFICATION EitherSpec
INVARIANTS
  NothingLostInEither
PROPERTIES
  RevokedKeyNeverSpends
  ImplementsAccount
  BatchEventuallySettled
\* The requests of an instance are finite: when all are over, it stops.
CHECK_DEADLOCK FALSE
