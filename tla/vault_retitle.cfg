CONSTANTS
  u1 = u1
  u2 = u2
  u3 = u3
  u4 = u4
  p1 = p1
  p2 = p2
  prod = prod
  staging = staging
  NoUid = NoUid
  NoRef = NoRef
  NoName = NoName
  Keep = Keep
  Uid = {u1, u2, u3, u4}
  Ref = {"db", "web"}
  Title = {"DB", "Web", "Data", "Other"}
  Body <- Bodies
  Content = {1, 2}
  Label = {}
  Keyed = {}
  Setting = {}
  ManifestName = {prod}
  Run = {p1}
  ManifestOf <- OneManifest
  Versions <- RetitleVersions
  Rank <- SerialOrder
  OutsideTitle = {"DB", "Other"}
  OutsideBody <- PlainBodies
  RenameTitle = {"Other"}
  OutsideMarkers <- IsolatedMarkers
  MaxOutside = 0
SPECIFICATION Spec
SYMMETRY Symmetry
CHECK_DEADLOCK FALSE
PROPERTY IdempotentRerun
