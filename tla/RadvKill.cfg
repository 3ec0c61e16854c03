CONSTANTS
  o1 = o1
  o2 = o2
  Router = {r1, r2}
  Originator = {o1, o2}
  Unspec = Unspec
  NoRouter = NoRouter
  AnySrc = AnySrc
  Pid = {p1, p2}
  NoPid = NoPid
  NoChild = NoChild
  Radix = 2
  BigEndian = FALSE
  Lifetime <- MCLifetime
  Garbage <- MCGarbage
  MaxTQ = 2
  Threshold = 1
  MinInterval = 1
  MaxLeft = 1
SPECIFICATION Spec
INVARIANT KillsOnlyItsChild
