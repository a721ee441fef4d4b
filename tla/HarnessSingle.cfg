SPECIFICATION FairSpec
CONSTANTS
  k1 = k1  k2 = k2  r1 = r1  r2 = r2  a1 = a1  d1 = d1  d2 = d2  s1 = s1  s2 = s2
  Agents = {a1}
  Agent = a1
  Slow = {k1}
  Web = 0
  Questions = {}
  RecordLimit = 2
  None = none
  Keys = {k1}
  Runs = {r1}
  RunOf <- OneRun
  WebRuns = {}
  Deliveries = {d1}
  DeliveryOf <- OneId
  ResultIds = {s1}
  Frames <- SingleFrames
  Outcome <- SingleOutcome
  Destinations <- Generations3
  MaxGeneration = 3
  MaxFaults = 2
  MaxCrashes = 2
INVARIANTS
  TypeOK
  ShownOnce
  WrittenFirst
PROPERTIES
  SpeechIsLive
  ResultPublished
CHECK_DEADLOCK FALSE
