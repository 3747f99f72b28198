CONSTANTS
  CompanyName = {"acme", "ACME", "beta"}
  Folded <- MCFolded
  NoFile = NoFile
  Unlimited = 1000000000
  Top = 2147483647
  Portfolios <- MCPortfolios
  Rivals <- MCRivals
  McId = {1, 2, 3, 4, 5, 6, 7}
  AppName = {"x", "y"}
  EarlyName = {"x"}
  AppRef = {"a", "b"}
  Vault = {"admin", "dir"}
  NoMark = NoMark
  AppId = {1, 2, 3, 4, 5, 6}
  Rollouts <- MCRollouts
  Unlisted = Unlisted
  BootName = "x"
  Admin = "admin"
  Directory = {"dir"}
  NoRecord = NoRecord
  Patience = 2
  StrangeApps <- MCStrangeApps
  SvcUid = {1, 2, 3, 4, 5}
  SvcRef = {"r1", "r2"}
  SvcTitle = {"t1", "t2"}
  SvcBody = {"b1", "b2"}
  Orders <- MCOrders
  Founding <- MCFounding
  Project = "project"
  Keep = Keep
  NoSvcRef = NoSvcRef
  NoName = NoName
  SvcPatience = 1
  SvcQueue = 1
  Token = {1, 2, 3, 4, 5, 6, 7, 8, 9, 10}
  Benches <- MCBenches
  Mishaps = 2
SPECIFICATION Spec
PROPERTY AgreesWithMock
PROPERTY MakesNoTwin
PROPERTY MarksOnlyNewApps
PROPERTY BootstrapWorks
PROPERTY BenchWorks
PROPERTY EnrolmentRecovers
PROPERTY Advances
PROPERTY Ends
CHECK_DEADLOCK FALSE
