CONSTANTS
  h1 = h1
  h2 = h2
  h3 = h3
  Callers = {c1, c2}
  Names = {"a", "b"}
  Hashes = {h1, h2, h3}
  NameOf <- OneNameTwice
  Deleted <- OneDeleted
  Switched = {h1}
  Pinned = {h3}
  Nothing = Nothing
  TTL = 1
  MaxFaults = 1
SPECIFICATION CatalogueSpec
INVARIANTS
  CatalogueInv
PROPERTIES
  NegativesExpire
  CallsEnd
