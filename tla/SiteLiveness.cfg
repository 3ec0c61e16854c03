SPECIFICATION FairSpec
CONSTANTS
  Code <- MCCode
  Known <- MCKnown
  Default = "zzz"
  NoCode = "none"
  Empty = "empty"
  Torn = "torn"
  NoDelta = "nodelta"
  ImageSite = "none"
  Mobile = FALSE
  Disturbances = {"power", "sysupgrade", "setup"}
  Budget = 1
PROPERTIES
  SiteFollows
  SetupSettles
  RunEnds
CHECK_DEADLOCK FALSE
