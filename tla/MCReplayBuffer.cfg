SPECIFICATION Spec
CONSTANTS
  MaxSessions = 2
  MaxCaptures = 2
  MaxMishaps = 2
  MaxPending = 1
INVARIANTS
  TypeOK
  ReadyIsAsked
  
PROPERTIES
  CaptureIsKept
  EndsForAReason
CHECK_DEADLOCK FALSE
