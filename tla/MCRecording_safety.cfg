SPECIFICATION Spec
CONSTANTS
  MaxId = 2
  MaxTasks = 2
  Foreground = {TRUE, FALSE}
INVARIANTS
  TypeOK
  LiveHasIdentifier
  StoppedIsStopped
  ReadyIsKept
PROPERTIES
  NoStartAfterStop
CHECK_DEADLOCK FALSE
