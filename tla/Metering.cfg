CONSTANTS
  k1 = k1
  k2 = k2
  k3 = k3
  k4 = k4
  Keys = {k1, k2, k3, k4}
  Members = {k1, k2}
  NumRequests = 5
  KeyOf <- FourKeys
  Rps <- SomeRps
  Daily <- SomeDaily
  PoolDaily = 1
  Revocable = {k3}
  LastSecond = 2
  SecondsPerDay = 2
  MaxStops = 1
SPECIFICATION Spec
INVARIANTS
  MeteringInv
  MemberPoolHolds
  RevokedKeyRefused
\* The requests of an instance are finite: when all are over, it stops.
CHECK_DEADLOCK FALSE
