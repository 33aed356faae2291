SPECIFICATION FairSpec
CONSTANTS
  MaxSessions = 2
  MaxCaptures = 1
  MaxMishaps = 1
  MaxPending = 1
PROPERTIES
  OutputSettles
  FinishedIsReady
CHECK_DEADLOCK FALSE
