SPECIFICATION Spec
CONSTANTS
  MaxId = 1
  MaxTasks = 1
  Foreground = {TRUE, FALSE}
PROPERTY DelayedStartsOnceCaptured
CHECK_DEADLOCK FALSE
