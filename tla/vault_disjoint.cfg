CONSTANTS
  u1 = u1
  u2 = u2
  u3 = u3
  u4 = u4
  p1 = p1
  p2 = p2
  prod = prod
  staging = staging
  NoUid = NoUid
  NoRef = NoRef
  NoName = NoName
  Keep = Keep
  Uid = {u1, u2, u3}
  Ref = {"db", "stage"}
  Title = {"DB", "Stage", "Other"}
  Body <- Bodies
  Content = {1}
  Label = {}
  Keyed = {}
  Setting = {}
  ManifestName = {prod, staging}
  Run = {p1, p2}
  ManifestOf <- TwoManifests
  Versions <- DisjointVersions
  Rank <- SerialOrder
  OutsideTitle = {"DB"}
  OutsideBody <- PlainBodies
  RenameTitle = {"Other"}
  OutsideMarkers <- IsolatedMarkers
  MaxOutside = 2
SPECIFICATION Spec
SYMMETRY Symmetry
CHECK_DEADLOCK FALSE
INVARIANT TypeOK
INVARIANT StaleButOwn
PROPERTY CustodyRefined
PROPERTY OwnScopeOnly
