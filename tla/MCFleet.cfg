\* One source that is added twice, confirmed, reconnected and removed, on channels for two
\* reports; one process of each kind, with more output than is kept.
SPECIFICATION MCSpec
CONSTANTS
  Aliases = {"a1"}
  Identities = {"i1", "i2"}
  Capacity = 2
  QuickHands = FALSE
  MaxGeneration = 1
  MaxAdds = 2
  MaxMishaps = 1
  MaxProbes = 1
  Limit = 2
  PipeCapacity = 2
  MaxOutput = 4
PROPERTIES
  ViewsAreCurrent
  FleetEnds
  CallsAnswer
CHECK_DEADLOCK FALSE
