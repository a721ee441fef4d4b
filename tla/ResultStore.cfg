SPECIFICATION Spec
CONSTANTS
  k1 = k1  k2 = k2  r1 = r1  r2 = r2  a1 = a1
  web = web  voice1 = voice1  d1 = d1  d2 = d2
  Keys = {k1, k2}
  Runs = {r1, r2}
  Agents = {a1}
  Destinations = {web, voice1}
  Web = web
  Deliveries = {d1, d2}
  ResultIds = {s1}
  Questions = {q1}
  Frames <- TaskFrames
  RecordLimit = 2
  None = none
INVARIANTS
  TypeOK
  LedgerConsistent
  SpeechGrantedOnce
PROPERTIES
  NeverRegresses
  ImplementsOutbox
