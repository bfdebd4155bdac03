CONSTANTS
  k1 = k1
  k2 = k2
  k3 = k3
  k4 = k4
  Keys = {k1}
  Members = {}
  NumRequests = 3
  KeyOf <- OneKey
  Rps <- OneRps
  Daily <- NoDaily
  PoolDaily = 0
  Revocable = {k1}
  LastSecond = 1
  SecondsPerDay = 2
  MaxStops = 0
SPECIFICATION Spec
INVARIANTS
  RateLimitHolds
\* The requests of an instance are finite: when all are over, it stops.
CHECK_DEADLOCK FALSE
