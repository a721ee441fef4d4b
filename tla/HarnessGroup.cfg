SPECIFICATION Spec
CONSTANTS
  k1 = k1  k2 = k2  r1 = r1  r2 = r2  a1 = a1  d1 = d1  d2 = d2  s1 = s1  s2 = s2
  Agents = {a1}
  Agent = a1
  Slow = {}
  Web = 0
  Questions = {}
  RecordLimit = 2
  None = none
  Keys = {k1, k2}
  Runs = {r1, r2}
  RunOf <- TwoRuns
  WebRuns = {}
  Deliveries = {d1, d2}
  DeliveryOf <- TwoIds
  ResultIds = {s1, s2}
  Frames <- GroupFrames
  Outcome <- GroupOutcomes
  Destinations <- Generations2
  MaxGeneration = 2
  MaxFaults = 0
  MaxCrashes = 1
PROPERTY SpeechIsLive
CHECK_DEADLOCK FALSE
