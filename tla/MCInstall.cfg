\* The desktop and the command line install the hooks of both agents while an editor saves;
\* configurations with up to two groups; every call of the hook.
SPECIFICATION MCSpec
CONSTANTS
  Installers = {"desktop", "cli"}
  Agents = {"codex", "claude-code"}
  Wanted <- MCWanted
  Edits = {"e1"}
  MaxFailures = 2
  Paths = {"p1", "p2"}
  Unusable = "unusable"
  Theirs = "theirs"
  MaxGroups = 2
INVARIANTS
  InstallInv
  HookIsHonest
PROPERTIES
  MergedOnce
  RetryRepairs
CHECK_DEADLOCK FALSE
