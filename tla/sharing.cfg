CONSTANTS
  Uid = {1, 2, 3, 4, 5, 6, 7, 8, 9, 10, 11, 12, 13, 14, 15, 16, 17, 18, 19}
  Ref = {"sf", "ann", "any", "bob", "ops", "eve", "ghost", "db", "gone", "theirs"}
  Name = {"/Team", "/Ops", "ann@x", "bob@x", "eve@x", "mal@x", "*"}
  Terms = {"use", "manage", "no_edit", "edit_records", "red", "unset"}
  RecordTerms = {"edit_records"}
  Unset = "unset"
  Keep = Keep
  NoRef = NoRef
  Versions <- MCVersions
  Rank <- Order
  UidsFor <- MCUidsFor
  SharedRecords = {"db"}
  OutsideRows <- MCOutsideRows
  OutsideMarkers <- Foreign
  MaxOutside = 1
  MaxFails = 1
SPECIFICATION Spec
INVARIANT TypeOK
INVARIANT OneSidecarPerRow
INVARIANT NothingForgotten
INVARIANT SidecarsTellTheTruth
PROPERTY AppliedIsInForce
PROPERTY RevokesOnlyUnwanted
