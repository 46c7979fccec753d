SPECIFICATION BoundedSpec
CONSTANTS
  v1 = v1
  v2 = v2
  Orgs = {o1, o2}
  NoOrg = NoOrg
  Releases = {v1, v2}
  NoRelease = NoRelease
  ModelOf <- OneModel
  VersionOf <- Versions
  Requests = {p1, p2}
  CatalogVersions = {c1, c2}
  TableVersions = {1, 2}
  Contents = {k1, k2}
  None = None
  MaxTime = 1
  MaxRoster = 2
  QuoteIds = {q1, q2}
  Rebuilds = {b1, b2}
SYMMETRY Symmetry
CHECK_DEADLOCK FALSE
INVARIANTS
  StrayPinsHaveACause
  IssuedQuotesReproduce
  LedgerDriftHasACause
PROPERTIES
  UpgradesAreOptIn
