CONSTANTS
  p1 = p1
  p2 = p2
  k1 = k1
  k2 = k2
  Procs = {p1, p2}
  Rows = {"known", "unknown"}
  KnownRows = {"known"}
  EnvKey = EnvKey
  NewKeys = {k1, k2}
  Missing = Missing
  MaxStarts = 5
SYMMETRY Alike
SPECIFICATION Spec
INVARIANTS
  VaultInv
  MigrationInv
PROPERTIES
  DryRunWritesNothing
\* The starts of an instance are finite: when they are used up, it stops.
CHECK_DEADLOCK FALSE
