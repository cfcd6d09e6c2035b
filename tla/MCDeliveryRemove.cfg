\* A source is removed while it connects, or removed and added again: each of the two is
\* violated (tlc -continue).
SPECIFICATION DeliverySpec
CONSTANTS
  k1 = k1
  idA = idA
  idB = idB
  b1 = b1
  NoSource = NoSource
  Key = k1
  Keys = {k1}
  Bodies = {b1}
  EventIds <- MCEventIds
  SourceIds = {idA}
  MaxSequence = 2
  PageSize = 1
  MaxInFlight = 2
  OrderedClock = TRUE
  MayRemove = TRUE
  MaxBreaks = 0
  MaxRegenerated = 2
  MaxChanges = 2
INVARIANTS
  NeverRefused
  RemovedSourceIsReleased
CHECK_DEADLOCK FALSE
