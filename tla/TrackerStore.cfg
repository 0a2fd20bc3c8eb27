SPECIFICATION Spec
CONSTANTS
  None = None
  NoTournament = NoId
  NoId = NoId
  Moscow = Moscow
  Bundles = {1, 2}
  Tournaments = {1, 2}
  Hands = {1, 2, 3, 4, 5}
  info <- SmallInfo
  economics <- SmallEconomics
  Files <- SmallFiles
  Uploads <- SmallUploads
  Zones = {Moscow}
  InitialZone = None
  Workers = 2
  MaxAttempts = 2
  MaxZoneChanges = 1
  MaxFailures = 1
INVARIANTS
  FeaturesFollowRows
  HelperFollowsRows
  ExactBoundaryIsTrue
  UploadsAccounted
  StatisticsAgree
  DashboardIsWhole
CHECK_DEADLOCK FALSE
