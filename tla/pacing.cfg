SPECIFICATION PacerSpec
CONSTANTS
  h1 = h1  h2 = h2  f1 = f1  f2 = f2  f3 = f3  f4 = f4
  Servers <- TwoHosts
  Fetches <- FourFetches
  HostOf <- TwoServers
  Interval = 2
  Horizon = 5
  AsksRobots = TRUE
  MaxBackoff = 2
SYMMETRY SameServer
INVARIANTS SpacedUnlessOverdue AtTheRate
CHECK_DEADLOCK FALSE
