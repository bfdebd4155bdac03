CONSTANTS
  c1 = c1
  c2 = c2
  c3 = c3
  c4 = c4
  k1 = k1
  k2 = k2
  Clients = {c1, c2, c3, c4}
  Keys = {k1, k2}
  Members = {k2}
  KeyOf <- ThreeAndOne
  Routes = {2}
  MaxPerKey = 2
  MemberConcurrent = 1
  MaxUpstream = 1
SPECIFICATION FairSpec
INVARIANTS
  PermitsInv
PROPERTIES
  NoOvertaking
  RequestsMoveOn
