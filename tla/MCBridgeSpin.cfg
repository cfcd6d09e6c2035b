\* A clock that was set back leaves a hole at the end of the spool.
SPECIFICATION FairSpec
CONSTANTS
  NoSource = NoSource
  SourceIds = {idA}
  MaxSequence = 2
  PageSize = 2
  MaxInFlight = 2
  OrderedClock = FALSE
PROPERTY
  NeverSpins
