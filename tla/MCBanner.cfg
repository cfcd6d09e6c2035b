SPECIFICATION MCSpec
CONSTANTS
  Ids = {"info", "note", "ask", "other"}
  Approvals = {"ask", "other"}
  First = {"info", "ask"}
  MaxShows = 2
  Versions = {1, 2}
  MaxPassive = 1
  Threads = {"command"}
  Worker = "worker"
  Main = "main"
  MaxAttempts = 2
  MaxFailures = 2
  MaxClaims = 1
  MaxRedraws = 1
PROPERTIES
  BannerIsOwn
  BoardSpec
  WindowFollows
CHECK_DEADLOCK FALSE
