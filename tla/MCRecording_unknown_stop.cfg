SPECIFICATION Spec
CONSTANTS
  MaxId = 2
  MaxTasks = 1
  Foreground = {TRUE, FALSE}
INVARIANT UnknownIdentifierIsOld
CHECK_DEADLOCK FALSE
