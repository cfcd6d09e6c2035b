SPECIFICATION FairFleet
CONSTANTS
  Aliases = {"a1", "a2"}
  Identities = {"i1", "i2"}
  Capacity = 2
  QuickHands = FALSE
  MaxGeneration = 0
  MaxAdds = 2
  MaxMishaps = 1
  MaxProbes = 1
INVARIANTS
  AgentsAreOfConnection
PROPERTIES
  FleetSettles
CHECK_DEADLOCK FALSE
