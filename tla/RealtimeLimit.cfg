SPECIFICATION Spec
CONSTANTS
  Agents = {1, 2, 3}
  MaxTurns = 2
  MaxFrames = 2
  Endings = {"speech", "limit"}
  Budget = 2
INVARIANT
  OnlyOwnAudio
CHECK_DEADLOCK FALSE
