\* A local spool and an SSH source, both read and announced by polls.
SPECIFICATION MCSpec
CONSTANTS
  local = local
  remote = remote
  idA = idA
  idB = idB
  idR = idR
  b1 = b1
  NoSource = NoSource
  Local = local
  Remote = remote
  Keys = {local, remote}
  RemoteId = idR
  SourceIds = {idA, idB, idR}
  Bodies = {b1}
  EventIds <- MCEventIds
  MaxSequence = 3
  MaxRemote = 1
  PageSize = 2
  MaxAttempts = 1
  MaxIndividual = 1
  Urgent <- MCUrgent
  MaxRegenerated = 1
  MaxFaults = 1
INVARIANTS
  PipelineInv
PROPERTIES
  OwedIsDecided
  LocalIsAccounted
CHECK_DEADLOCK FALSE
