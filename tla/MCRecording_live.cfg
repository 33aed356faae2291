SPECIFICATION Spec
CONSTANTS
  MaxId = 2
  MaxTasks = 1
  Foreground = {TRUE}
PROPERTIES
  StartIsAnswered
  StopIsAnswered
CHECK_DEADLOCK FALSE
