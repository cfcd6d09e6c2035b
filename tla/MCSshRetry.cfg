\* A host whose ssh prints a banner; violated: an interruption waits for the user.
SPECIFICATION Judgement
CONSTANTS
  Noises = {"none", "banner"}
INVARIANT
  InterruptionIsRetried
CHECK_DEADLOCK FALSE
