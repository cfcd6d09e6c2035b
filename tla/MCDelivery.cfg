\* The source is removed and added again; every event arrives or is recorded as lost.
SPECIFICATION MCSpec
CONSTANTS
  k1 = k1
  idA = idA
  idB = idB
  b1 = b1
  NoSource = NoSource
  Key = k1
  Keys = {k1}
  Bodies = {b1}
  EventIds <- MCEventIds
  SourceIds = {idA, idB}
  MaxSequence = 2
  PageSize = 2
  MaxInFlight = 1
  OrderedClock = TRUE
  MayRemove = TRUE
  MaxBreaks = 1
  MaxRegenerated = 1
  MaxChanges = 2
PROPERTY
  Delivered
CHECK_DEADLOCK FALSE
