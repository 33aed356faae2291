SPECIFICATION Spec
CONSTANTS
  MaxId = 2
  MaxCaptures = 2
  MaxTasks = 1
INVARIANTS
  TypeOK
  LiveHasIdentifier
  StoppedIsStopped
  CapturingIsCaptured
PROPERTIES
  StopsForAReason
  AskedIsStopped
