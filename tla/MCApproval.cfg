SPECIFICATION FairSpec
CONSTANTS
  Hooks = {"h1", "h2"}
  Ids = {"h1", "h2"}
  Versions = {1}
  MaxPassive = 1
  MaxHandlers = 4
  MayBeLate = FALSE
INVARIANTS
  ApprovalInv
PROPERTIES
  OneSurface
  AskedIsAnswered
CHECK_DEADLOCK FALSE
