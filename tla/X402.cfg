CONSTANTS
  c1 = c1
  c2 = c2
  Commitments = {c1, c2}
  NumRequests = 4
  Prices = {2}
  Offers <- SomeOffers
  Ttl = 1
  MaxTime = 1
  MaxOutstanding = 2
  MaxRestarts = 1
SYMMETRY Bodies
SPECIFICATION Spec
INVARIANTS
  PaymentInv
  OnlyPaidRequestsServed
PROPERTIES
  ImplementsPayPerUse
  OldChallengesSurvive
\* The requests of an instance are finite: when all are over, it stops.
CHECK_DEADLOCK FALSE
