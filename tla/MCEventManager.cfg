CONSTANTS
  start = start
  stop = stop
  save1 = save1
  save2 = save2
  video = video
  replay = replay
  STARTED = STARTED
  STOPPED = STOPPED
  READY = READY
  ERR = ERR
  ParseError = ParseError
  Shutdown = Shutdown
  NoCall = NoCall
  NoEvent = NoEvent
  Call = {start, stop}
  Ident = {video}
  Type = {STARTED, STOPPED, ERR}
  identifier <- MCIdentifier
  accepted <- MCAccepted
  errors <- MCErrors
  BufferSize = 1
  MaxEvents = 2
SPECIFICATION Spec
INVARIANTS
  TypeOK
  WaiterOrPending
  RightAnswer
  AnswerNotLost
PROPERTIES
  KeepsPromises
  LoopStops
CHECK_DEADLOCK FALSE
