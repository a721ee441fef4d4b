SPECIFICATION FairSpec
CONSTANTS
  u1 = u1  u2 = u2
  Extended = TRUE
  Callers = {u1, u2}
  Switch = switch
  Budget <- ManyRequests
  MaxRevision = 12
INVARIANTS
  TypeOK
  OneCapture
  LastRequestWins
  PipelineMatchesMute
PROPERTIES
  StartIsHonoured
  PinFollowed
CHECK_DEADLOCK FALSE
