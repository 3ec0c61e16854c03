SPECIFICATION Spec
CONSTANTS
  Ifname = {"w", "b"}
  Wireless = {"w"}
  StationOn <- MCStationOn
  Answering = {"s1"}
  BatadvReport <- MCBatadvReport
  Silent = Silent
  Colour = {"blue"}
  Colours <- MCColours
  NoColour = "undefined"
INVARIANTS
  TypeOK
  OnlyTheVisibleListen
  ColoursConserved
PROPERTIES
  TablesFollowMesh
  NeighboursGetNames
  LeavingEndsQueries
CHECK_DEADLOCK FALSE
