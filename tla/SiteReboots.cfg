SPECIFICATION FairSpec
CONSTANTS
  Code <- MCCode
  Known <- MCKnown
  Default = "zzz"
  NoCode = "none"
  Empty = "empty"
  Torn = "torn"
  NoDelta = "nodelta"
  ImageSite = "none"
  Mobile = FALSE
  Disturbances = {}
  Budget = 0
PROPERTIES
  RebootsEnd
CHECK_DEADLOCK FALSE
