SPECIFICATION Spec
CONSTANTS
  u1 = u1  u2 = u2
  Extended = TRUE
  Callers = {u1, u2}
  Switch = switch
  Budget <- OneRequest
  MaxRevision = 12
CHECK_DEADLOCK FALSE
INVARIANT SwitchBeatsSoftware
