CONSTANTS
  p1 = p1
  p2 = p2
  p3 = p3
  Pid = {p1, p2, p3}
  Profile = {1, 2}
  Config <- MCConfig
  NoPid = NoPid
  Nowhere = 0
  Title = {"a"}
  Uid = {1, 2, 3, 4, 5, 6}
  Mishaps = 2
  Runs = 3
  Scenarios <- MCScenarios
  Handle <- MCHandle
  RowTitle = {"vm", "root"}
  RowRef = {"vm", "root"}
  RowBody = {"b"}
  ManifestName = {"a", "b"}
  NoUid = 0
  NoRef = NoRef
  NoName = NoName
  Keep = Keep
  Run = {r1, r2}
  Manifest <- MCManifest
  GatewayOf <- MCGatewayOf
  ConfOf <- MCConfOf
  Wirings <- MCWirings
  Strangers <- MCStrangers
  PathUids <- MCPathUids
  TitleUids <- MCTitleUids
  MaxStarts = 2
  MaxMishaps = 1
SPECIFICATION LabSpec
SYMMETRY Symmetric
INVARIANT TypesOK
INVARIANT MarkedIsReachable
PROPERTY KeepsToItsOwn
PROPERTY NoFalseAlarm
PROPERTY RerunsGetThrough
CHECK_DEADLOCK FALSE
