\* Two agent turns, the second of a restarted os-server, a cached cue and the
\* realtime model's voice; one event; both modes.
SPECIFICATION FairSpec
CONSTANTS
  a = a
  b = b
  f = f
  n = n
  Requests = {a, b, f, n}
  Kind <- MixKind
  Class <- MixClass
  Turn <- MixTurn
  Cached = {b, f}
  Modes <- BothModes
  MaxEvents = 1
INVARIANTS
  TypeOK
  OneVoice
PROPERTY TurnsInOrder
  QueueIsDrained
