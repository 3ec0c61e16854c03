SPECIFICATION Spec
CONSTANTS
  Node = {"n1", "n2", "n3"}
  Addresses <- MCAddresses
  BootNode = "n1"
  NoNode = "none"
  MaxPicks = 2
  MaxReloads = 1
  Path = {"p", "q", "r"}
  Label <- MCLabel
  NoVpn = NoVpn
  Message <- MCMessage
INVARIANTS
  TypeOK
  PageIsWhole
  StrandsForAReason
  RateDefined
  RowsAreCurrent
  RowsAreSorted
  UptimeIsRounded
PROPERTIES
  NothingForgotten
  GotoSettles
  KeepsPromise
CHECK_DEADLOCK FALSE
