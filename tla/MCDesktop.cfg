\* Two settings and two identities in any order, every table of up to four rows, three
\* openers with a crash, every quiet interval of a short day, texts of
\* three tokens of any kind, of five of some kinds and of four lines with blocks.
SPECIFICATION MCSpec
CONSTANTS
  k1 = k1
  k2 = k2
  idA = idA
  idB = idB
  e1 = e1
  e2 = e2
  b1 = b1
  NoSource = NoSource
  Keys = {k1, k2}
  SourceIds = {idA, idB}
  EventIds = {e1, e2}
  Bodies = {b1}
  MaxSequence = 2
  MaxRows = 4
  Times = {0, 1, 2}
  Sizes = {1, 2}
  MaxEvents = 2
  MaxPayloadBytes = 3
  BatchSize = 2
  Openers = {"o1", "o2", "o3"}
  StoreOpener = "o1"
  LastEvent = 2
  MaxCrashes = 1
  MaxTime = 12
  DayLength = 4
  RetryDelays <- MCRetryDelays
  MaxTries = 3
  QuietDelay = 1
  MaxCompletionAge = 4
  SkewThreshold = 1
  Offsets <- MCOffsets
  Pids = {1, 2}
  MaxStamp = 4
  Ahead = {0, 2}
  Alphabets <- MCAlphabets
  Identifiers = {"n1", "n2", "n3"}
  Activations = {"a1", "a2"}
  Nothing = Nothing
  MaxActivations = 2
  MaxTokens = 4
  Calls = {"c1", "c2"}
  MaxVersion = 4
INVARIANTS
  TypeOK
  CursorIsPosition
  ReplayIsDuplicate
  BatchIsRight
  OpeningIsWhole
  ExcerptIsRight
  ClicksAreOwn
PROPERTIES
  ImplementsLedger
  ScheduleIsKept
  StatusFollows
  AnswersAreNotOlder
CHECK_DEADLOCK FALSE
