CONSTANTS
  a1 = a1
  a2 = a2
  i1 = i1
  i2 = i2
  Accounts = {a1, a2}
  Ips = {i1, i2}
  NumRequests = 3
  MinInterval = 2
  DailyMax = 1
  HourlyMax = 1
  PruneAt = 1
  SecondsPerHour = 1
  HoursPerDay = 3
  LastSecond = 4
  MaxStops = 1
SYMMETRY Alike
SPECIFICATION MemberSpec
INVARIANTS
  LimiterInv
  NoStrandedKey
PROPERTIES
  RetiredForGood
\* The requests of an instance are finite: when all are over, it stops.
CHECK_DEADLOCK FALSE
