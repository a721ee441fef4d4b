--------------------------- MODULE MCSpeechQueue ---------------------------
(* Small sets of spoken requests for TLC. *)
EXTENDS SpeechQueue

CONSTANTS a, b, f, n

\* Two turns of the agent, the second numbered by a restarted os-server, a cached cue, and the realtime model's own voice.
MixKind   == (a :> "queue") @@ (b :> "queue") @@ (f :> "speak") @@ (n :> "native")
MixClass  == (a :> "main") @@ (b :> "main") @@ (f :> "filler") @@ (n :> "reply")
MixTurn   == (a :> [seq |-> 1, stamp |-> 1]) @@ (b :> [seq |-> 1, stamp |-> 2])
               @@ (f :> NoTurn) @@ (n :> NoTurn)

BothModes == BOOLEAN
=============================================================================
