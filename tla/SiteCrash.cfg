SPECIFICATION FairSpec
CONSTANTS
  Code <- MCCode
  Known <- MCKnown
  Default = "zzz"
  NoCode = "none"
  Empty = "empty"
  Torn = "torn"
  NoDelta = "nodelta"
  ImageSite = "none"
  Mobile = FALSE
  Disturbances = {"power", "setup"}
  Budget = 2
PROPERTIES
  SelectedSiteIsBuilt
CHECK_DEADLOCK FALSE
