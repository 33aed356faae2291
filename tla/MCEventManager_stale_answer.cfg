CONSTANTS
  start = start
  stop = stop
  save1 = save1
  save2 = save2
  video = video
  replay = replay
  STARTED = STARTED
  STOPPED = STOPPED
  READY = READY
  ERR = ERR
  ParseError = ParseError
  Shutdown = Shutdown
  NoCall = NoCall
  NoEvent = NoEvent
  Call = {save1, save2}
  Ident = {replay}
  Type = {STARTED, ERR}
  identifier <- MCIdentifier
  accepted <- MCAccepted
  errors <- MCErrors
  BufferSize = 2
  MaxEvents = 2
SPECIFICATION Spec
INVARIANT AnswerToThisCommand
CHECK_DEADLOCK FALSE
