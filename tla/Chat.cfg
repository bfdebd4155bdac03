CONSTANTS
  k1 = k1
  NoKey = NoKey
  m1 = m1
  p1 = p1
  p2 = p2
  Uncapped = Uncapped
  Keys = {k1}
  Models = {m1}
  Providers = {p1, p2}
  NumRequests = 2
  Payer <- SharedPayer
  ModelOf <- SameModel
  Deposit <- DepositOfThree
  Caps = {2}
  Prices = {1, 2}
  ClientCap = 1
  MaxAttempts = 2
  StoreFails = {1}
  MaxCrashes = 1
SPECIFICATION Spec
INVARIANTS
  ChatInv
  ResponseSettlesBoth
PROPERTIES
  ImplementsAccount
  RequestsEnd
\* The requests of an instance are finite: when all are over, it stops.
CHECK_DEADLOCK FALSE
