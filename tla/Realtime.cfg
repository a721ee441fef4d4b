SPECIFICATION Spec
CONSTANTS
  Agents = {1, 2, 3}
  MaxTurns = 2
  MaxFrames = 2
  Endings = {"speech", "noise"}
  Budget = 2
INVARIANTS
  TypeOK
  SessionsOwned
  DownIsRepaired
  BoundTurnIsWhole
  OnlyOwnAudio
  UserPreempts
CHECK_DEADLOCK FALSE
