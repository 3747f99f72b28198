CONSTANTS
  Uid = {1, 2, 3, 4, 5}
  Ref = {"cfg", "vm", "root"}
  Title = {"cfg", "vm", "host", "root"}
  Body = {"b", "c"}
  ManifestName = {"ours"}
  NoUid = 0
  NoRef = NoRef
  NoName = NoName
  Keep = Keep
  Kind <- MCKind
  Name <- MCName
  Unowned <- MCUnowned
  Off = "off"
  Ours = "ours"
  Versions <- MCVersions
  Gateway = {"gw"}
  Strangers <- MCStrangers
  MaxTrouble = 2
SPECIFICATION Spec
INVARIANT TypeOK
INVARIANT OneOwnerPerRef
INVARIANT NeverStuck
INVARIANT CleanMeansDone
PROPERTY MarksOnlyItsOwn
PROPERTY DeletesOnlyUnwanted
PROPERTY AppliedIsDone
CHECK_DEADLOCK FALSE
