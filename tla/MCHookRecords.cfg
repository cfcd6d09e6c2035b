\* Every call of the hook; violated: a question that an approval would not show is not
\* recorded either.
SPECIFICATION HookRun
INVARIANT
  PermissionsAreRecorded
CHECK_DEADLOCK FALSE
