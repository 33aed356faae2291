SPECIFICATION Spec
CONSTANTS
  MaxCommands = 2
  BufferSize = 1
  PipeSize = 2
INVARIANTS
  TypeOK
  MergedIsEarly
  ObsOutlivesCommands
PROPERTIES
  ShutdownEnds
  ServerEnds
  AnswerArrives
CHECK_DEADLOCK FALSE
