SPECIFICATION FairSpec
CONSTANTS
  Code <- MCCode
  Known <- MCKnown
  Default = "zzz"
  NoCode = "none"
  Empty = "empty"
  Torn = "torn"
  NoDelta = "nodelta"
  ImageSite = "none"
  Mobile = TRUE
  Disturbances = {"power", "sysupgrade", "setup"}
  Budget = 2
INVARIANTS
  TypeOK
  NoRebootLoop
  LockIsHeld
  RebootsIntoSite
PROPERTIES
  DisarmedIsSettled
CHECK_DEADLOCK FALSE
