\* A hook, a regeneration and a bridge on one spool, with crashes anywhere.
SPECIFICATION FairSpec
CONSTANTS
  NoProc = NoProc
  Writers = {w1}
  Regenerators = {g1}
  Readers = {r1}
  SourceIds = {idA, idB}
  MaxSequence = 2
  Times = {0, 1}
  Sizes = {1}
  MaxEvents = 1
  MaxPayloadBytes = 2
  BatchSize = 1
INVARIANTS
  TypeOK
  EventsBelongToIdentity
  SnapshotGapIsLost
PROPERTIES
  ReplacedEventsAreSaved
  ImplementsLog
  CallsEnd
