\* A stream under appends, pruning in any order and a regeneration; the same end to end,
\* with broken connections and a user; streams of up to seven bytes in pieces of up to
\* four; every state of the host.
SPECIFICATION MCSpec
CONSTANTS
  k1 = k1
  idA = idA
  idB = idB
  b1 = b1
  NoSource = NoSource
  Key = k1
  Keys = {k1}
  Bodies = {b1}
  EventIds <- MCEventIds
  SourceIds = {idA, idB}
  MaxSequence = 3
  PageSize = 2
  MaxInFlight = 3
  OrderedClock = FALSE
  MayRemove = FALSE
  MaxBreaks = 1
  MaxRegenerated = 3
  MaxChanges = 1
  MaxFrameBytes = 2
  MaxBytes = 7
  MaxPiece = 4
  Noises = {"none", "banner", "flood"}
INVARIANTS
  FramesAreTrue
  DeliveryInv
  PiecesDoNotMatter
  HostIsJudged
CHECK_DEADLOCK FALSE
