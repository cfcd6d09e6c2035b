SPECIFICATION SetupSpec
CONSTANTS
  MaxTouches = 1
  MaxFailures = 2
PROPERTIES
  SetupIsKept
  DiagnosticsCatchUp
CHECK_DEADLOCK FALSE
