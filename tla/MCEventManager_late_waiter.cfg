CONSTANTS
  start = start
  stop = stop
  save1 = save1
  save2 = save2
  video = video
  replay = replay
  STARTED = STARTED
  STOPPED = STOPPED
  READY = READY
  ERR = ERR
  ParseError = ParseError
  Shutdown = Shutdown
  NoCall = NoCall
  NoEvent = NoEvent
  Call = {start}
  Ident = {video}
  Type = {STARTED, READY, ERR}
  identifier <- MCIdentifier
  accepted <- MCAccepted
  errors <- MCErrors
  BufferSize = 2
  MaxEvents = 2
SPECIFICATION Spec
INVARIANT LateWaiterIsServed
CHECK_DEADLOCK FALSE
