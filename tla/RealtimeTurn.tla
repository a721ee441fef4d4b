---------------------------- MODULE RealtimeTurn ----------------------------
(***************************************************************************)
(* A capture and its realtime turn, with everybody else who uses the       *)
(* session of RealtimeSession: _stream_session of                          *)
(* hal/drivers/voice/voice_service.py with run_realtime_turn of            *)
(* _internal/realtime_turn.py, the thread that prepares the session while  *)
(* the user speaks, and the announcer of hal/drivers/harness/announcer.py. *)
(* The device listens always (no wake word) and talks to Gemini with       *)
(* manual activity: the audio streamed so far stays in the open activity   *)
(* of the session until it is committed or the session is replaced.        *)
(***************************************************************************)
EXTENDS RealtimeSession

CONSTANT Endings    \* how captures end: "speech", "noise" or "limit"

ASSUME EndingsKnown == Endings \subseteq {"speech", "noise", "limit"}

VARIABLES
  phase,      \* where the capture thread is
  turn,       \* the number of the capture
  frames,     \* the length of rt_audio_buffer
  said,       \* how the capture ended
  begun,      \* realtime_turn_started
  deferred,   \* realtime_deferred
  at,         \* per preparing thread, and for the announcer: where it is
  spoke,      \* a turn has completed since the boot
  committed,  \* what was committed to the model last; no code reads it
  spoilt      \* the turns whose audio the code left in a session it kept: a rebuild
              \* failed, or the turn went to the harness

capture == <<phase, turn, frames, said, begun, deferred>>
ghosts  == <<committed, spoilt>>
vars    == <<session, capture, at, spoke, ghosts>>

Phases == {"idle", "capture", "finish", "run", "commit", "recover", "replay", "reply",
           "over"}
Places == {"none", "mark", "look", "session", "join", "rebuild", "done", "ready", "check",
           "speak"}
Threads == 0 .. MaxTurns        \* the announcer, and the preparation of each capture
NoCommit == [turn |-> 0, length |-> 0, audio |-> {}, bound |-> FALSE]

TypeOK ==
  /\ SessionTypeOK
  /\ phase \in Phases /\ said \in Endings \cup {"none"}
  /\ turn \in 0 .. MaxTurns /\ frames \in 0 .. MaxFrames
  /\ begun \in BOOLEAN /\ deferred \in BOOLEAN /\ spoke \in BOOLEAN
  /\ at \in [Threads -> Places]
  /\ committed \in [turn : 0 .. MaxTurns, length : 0 .. MaxFrames, audio : SUBSET Frames,
                    bound : BOOLEAN]
  /\ spoilt \subseteq 1 .. MaxTurns

Init ==
  /\ SessionInit
  /\ phase = "idle" /\ turn = 0 /\ frames = 0 /\ said = "none"
  /\ begun = FALSE /\ deferred = FALSE
  /\ at = [w \in Threads |-> "none"]
  /\ spoke = FALSE /\ committed = NoCommit /\ spoilt = {}

Move(w, place) == at' = [at EXCEPT ![w] = place]

-----------------------------------------------------------------------------
(* The end of a rebuild, and whoever waited for it.                        *)

Resume(ok) ==
  /\ IF rebuild.by \in Threads
     THEN Move(rebuild.by, IF rebuild.why = "abandoned" THEN "ready" ELSE "done")
     ELSE UNCHANGED at
  /\ phase' = IF rebuild.by = Committer THEN IF ok THEN "replay" ELSE "over" ELSE phase
  /\ UNCHANGED <<turn, frames, said, begun, deferred, spoke, committed>>

RebuildEnds ==
  \/ \E k \in Agents : Publish(k) /\ Resume(TRUE) /\ UNCHANGED spoilt
  \/ /\ RebuildFails /\ Resume(FALSE)
     /\ spoilt' = spoilt \cup IF agent' = None THEN {} ELSE {f[1] : f \in activity[agent]}

-----------------------------------------------------------------------------
(* _prepare_session, in a preparation thread or in the announcer.          *)

(* A synchronous rebuild; without the reservation it is given up.          *)
RebuildNow(w, why) ==
  IF Rebuilding THEN Move(w, "done") /\ UNCHANGED rebuild
                ELSE Begin(why, w) /\ Move(w, "rebuild")

NeedsFresh == agent # None /\ agent \in stale

PrepareSession(w) ==
  /\ at[w] = "session"
  /\ \/ parked /\ Rebuilding /\ Move(w, "join") /\ UNCHANGED rebuild
     \/ parked /\ ~Rebuilding /\ RebuildNow(w, "resume")
     \/ ~parked /\ NeedsFresh /\ RebuildNow(w, "fresh")
     \/ ~parked /\ ~NeedsFresh /\ spoke /\ RebuildNow(w, "idle")
     \/ ~parked /\ ~NeedsFresh /\ Move(w, "done") /\ UNCHANGED rebuild
  /\ UNCHANGED <<ends, agent, transport, park, marks, world, capture, spoke, ghosts>>

(* The thread waited for the rebuild in flight, and no longer than 4 s.    *)
Join(w) ==
  /\ at[w] = "join"
  /\ \/ ~parked /\ Move(w, "done") /\ UNCHANGED <<rebuild, resumeFailed>>
     \/ parked /\ RebuildNow(w, "resume") /\ resumeFailed' = (resumeFailed \/ Rebuilding)
  /\ UNCHANGED <<ends, agent, transport, parked, parking, marks, world, capture,
                 spoke, ghosts>>

(* prepare_turn: the turn is marked before the announcement is looked for. *)
MarkTurn(t) ==
  /\ at[t] = "mark"
  /\ inFlight' = TRUE
  /\ Move(t, "look")
  /\ UNCHANGED <<ends, agent, transport, rebuild, park, announce, bound, world,
                 capture, spoke, ghosts>>

StopAnnouncement(t) ==
  /\ at[t] = "look"
  /\ announce' = IF announce = "armed" THEN "set" ELSE announce
  /\ Move(t, "session")
  /\ UNCHANGED <<ends, agent, transport, rebuild, park, inFlight, bound, world,
                 capture, spoke, ghosts>>

PrepareStep ==
  \/ \E t \in 1 .. MaxTurns : MarkTurn(t) \/ StopAnnouncement(t)
  \/ \E w \in Threads : PrepareSession(w) \/ Join(w)

-----------------------------------------------------------------------------
(* The capture.                                                            *)

Idle ==
  /\ phase' = "idle" /\ inFlight' = FALSE /\ bound' = NoBinding
  /\ said' = "none" /\ begun' = FALSE /\ deferred' = FALSE /\ frames' = 0
  /\ committed' = NoCommit
  /\ UNCHANGED <<turn, at>>

Opens ==
  /\ phase = "idle" /\ turn < MaxTurns
  /\ started \/ starting # None
  /\ phase' = "capture" /\ turn' = turn + 1
  /\ Move(turn + 1, "mark")
  /\ UNCHANGED <<session, frames, said, begun, deferred, spoke, ghosts>>

(* The audio recorded so far, of the present turn.                         *)
Recorded(n) == {turn} \X (1 .. n)

(* A frame is kept, and streamed when the turn has begun to.               *)
Hear ==
  /\ phase = "capture" /\ frames < MaxFrames
  /\ frames' = frames + 1
  /\ LET streams == begun /\ ~deferred /\ Available
         goes    == IF bound = NoBinding THEN agent \in up ELSE Valid(bound)
     IN /\ activity' = IF streams /\ goes
                       THEN [activity EXCEPT ![agent] = @ \cup {<<turn, frames + 1>>}]
                       ELSE activity
        /\ deferred' = (deferred \/ (streams /\ ~goes /\ bound # NoBinding))
  /\ UNCHANGED <<ends, agent, loops, up, gen, stale, rebuild, park, marks, world,
                 phase, turn, said, begun, at, spoke, ghosts>>

(* bind_audio_turn, and the audio recorded so far.                         *)
BindAndFlush ==
  /\ bound' = [agent |-> agent, gen |-> gen[agent]]
  /\ activity' = [activity EXCEPT ![agent] = @ \cup Recorded(frames)]

(* start_realtime_turn once the session is prepared, during the capture or *)
(* after it.  A session that is not available leaves the turn unbound.     *)
Upload ==
  /\ phase \in {"capture", "finish"} /\ ~begun /\ frames > 0 /\ at[turn] = "done"
  /\ begun' = TRUE
  /\ IF Available /\ agent \in up
     THEN BindAndFlush /\ UNCHANGED deferred
     ELSE /\ deferred' = (Rebuilding \/ Available)
          /\ UNCHANGED <<bound, activity>>
  /\ UNCHANGED <<ends, agent, loops, up, gen, stale, rebuild, park, inFlight,
                 announce, world, phase, turn, frames, said, at, spoke, ghosts>>

(* The end of the capture.  At the limit of a hands-free capture the call  *)
(* of discard_open_activity lacks its argument and raises.                 *)
Ends(how) ==
  /\ phase = "capture" /\ frames > 0
  /\ \/ /\ how = "limit" /\ Idle
        /\ UNCHANGED <<ends, agent, transport, rebuild, park, announce, world>>
     \/ /\ how # "limit"
        /\ phase' = "finish" /\ said' = how
        /\ UNCHANGED <<session, turn, frames, begun, deferred, committed, at>>
  /\ UNCHANGED <<spoke, spoilt>>

(* A turn that was put off is flushed once the session is back; the waits  *)
(* for the preparation and for the session are bounded.                    *)
Finish ==
  /\ phase = "finish"
  /\ begun \/ at[turn] # "done"
  /\ phase' = "run"
  /\ IF begun /\ deferred /\ bound = NoBinding /\ said # "noise" /\ Available /\ agent \in up
     THEN BindAndFlush
     ELSE UNCHANGED <<bound, activity>>
  /\ UNCHANGED <<ends, agent, loops, up, gen, stale, rebuild, park, inFlight,
                 announce, world, turn, frames, said, begun, deferred, at, spoke, ghosts>>

-----------------------------------------------------------------------------
(* run_realtime_turn.                                                      *)

(* Mutant: the audio of a noise turn is not discarded. *)
DropNoiseKeeps == phase = "run" /\ said = "noise" /\ UNCHANGED rebuild

(* discard_open_activity.                                                  *)
DropNoise ==
  /\ phase = "run" /\ said = "noise"
  /\ IF begun /\ Available /\ activity[agent] # {}
     THEN Begin("noise", Background)
     ELSE UNCHANGED rebuild

(* A turn that is not committed: noise, or no session.                     *)
Drop ==
  /\ \/ DropNoise
     \/ phase = "run" /\ said = "speech" /\ ~(begun /\ Available) /\ UNCHANGED rebuild
  /\ Idle
  /\ UNCHANGED <<ends, agent, transport, park, announce, world, spoke, spoilt>>

(* A transcript while OS waits for the answer to a harness question        *)
(* (harness_followup_active, any answer of OS): the main agent has the     *)
(* turn, and what was streamed of it is neither committed nor discarded.   *)
Delegate ==
  /\ phase = "run" /\ said = "speech" /\ begun
  /\ Idle
  /\ spoilt' = spoilt \cup {turn}
  /\ UNCHANGED <<ends, agent, transport, rebuild, park, announce, world, spoke>>

(* The turn is committed, unless OS has it delegated.                      *)
Run ==
  /\ phase = "run" /\ said = "speech" /\ begun /\ Available
  /\ phase' = "commit"
  /\ UNCHANGED <<session, turn, frames, said, begun, deferred, at, spoke, ghosts>>

(* What was streamed into the activity goes to the model as one turn.      *)
CommitAudio(audio, isBound) ==
  /\ committed' = [turn |-> turn, length |-> frames, audio |-> audio, bound |-> isBound]
  /\ activity' = [activity EXCEPT ![agent] = {}]
  /\ phase' = "reply"

(* _commit_turn_output, once a preempted announcement has drained.  A      *)
(* binding that was lost takes a new session and a replay.                 *)
Commit ==
  /\ phase = "commit" /\ announce = "none"
  /\ IF bound = NoBinding
     THEN IF agent # None /\ agent \in up
          THEN CommitAudio(activity[agent], FALSE) /\ UNCHANGED rebuild
          ELSE phase' = "reply" /\ UNCHANGED <<committed, activity, rebuild>>
     ELSE IF Valid(bound)
     THEN CommitAudio(activity[agent], TRUE) /\ UNCHANGED rebuild
     ELSE /\ IF Rebuilding THEN phase' = "over" /\ UNCHANGED rebuild
                           ELSE phase' = "recover" /\ Begin("recover", Committer)
          /\ UNCHANGED <<committed, activity>>
  /\ UNCHANGED <<ends, agent, loops, up, gen, stale, park, marks, world, turn,
                 frames, said, begun, deferred, at, spoke, spoilt>>

(* The whole utterance again, into the session that recover_session made.  *)
Replay ==
  /\ phase = "replay" /\ announce = "none"
  /\ IF Available /\ agent \in up
     THEN /\ bound' = [agent |-> agent, gen |-> gen[agent]]
          /\ CommitAudio(activity[agent] \cup Recorded(frames), TRUE)
     ELSE phase' = "over" /\ UNCHANGED <<bound, activity, committed>>
  /\ UNCHANGED <<ends, agent, loops, up, gen, stale, rebuild, park, inFlight,
                 announce, world, turn, frames, said, begun, deferred, at, spoke, spoilt>>

(* The post-turn recycle of stream_output (turn cap, idle gap, silence).   *)
Recycle == Begin("recycle", Background)

(* The end of stream_output: an answer, or an unresolved tool call that    *)
(* leaves the session in need of a replacement.                            *)
Reply ==
  /\ phase = "reply"
  /\ Recycle \/ UNCHANGED rebuild
  /\ stale' \in {stale, stale \cup ({agent} \cap up)}
  /\ spoke' = TRUE
  /\ Idle
  /\ UNCHANGED <<ends, agent, loops, up, gen, activity, park, announce, world, spoilt>>

(* The session of the turn changed under it: the main agent answers.       *)
FallBack ==
  /\ phase = "over" \/ (phase = "reply" /\ bound # NoBinding /\ ~Valid(bound))
  /\ Idle
  /\ UNCHANGED <<ends, agent, transport, rebuild, park, announce, world, spoke, spoilt>>

CaptureStep ==
  \/ Opens \/ Hear \/ Upload \/ Finish \/ Drop \/ Delegate \/ Run \/ Commit \/ Replay
  \/ Reply \/ FallBack
  \/ \E how \in Endings : Ends(how)

-----------------------------------------------------------------------------
(* The announcer.                                                          *)

(* gate_open and the checks of prepare_announcement.                       *)
AnnounceBegins ==
  /\ at[Announcer] = "none" /\ phase = "idle" /\ ~inFlight
  /\ started /\ agent # None
  /\ Spend
  /\ Move(Announcer, "session")
  /\ UNCHANGED <<ends, agent, transport, rebuild, park, marks, online, capture, spoke, ghosts>>

(* An activity that no capture owns any more is replaced.                  *)
Abandoned == agent # None /\ activity[agent] # {} /\ ~Rebuilding

AnnounceReplaces ==
  /\ at[Announcer] = "done" /\ Abandoned
  /\ Begin("abandoned", Announcer) /\ Move(Announcer, "rebuild")
  /\ UNCHANGED <<ends, agent, transport, park, marks, world, capture, spoke, ghosts>>

(* announce registers its stop event.                                      *)
AnnounceRegisters ==
  /\ at[Announcer] = "ready" \/ (at[Announcer] = "done" /\ ~Abandoned)
  /\ IF Available /\ agent \in up \ stale
     THEN announce' = "armed" /\ Move(Announcer, "check")
     ELSE Move(Announcer, "none") /\ UNCHANGED announce
  /\ UNCHANGED <<ends, agent, transport, rebuild, park, inFlight, bound, world, capture,
                 spoke, ghosts>>

(* Mutant: a turn that began meanwhile is not looked for. *)
AnnounceSpeaksAnyway ==
  /\ at[Announcer] = "check"
  /\ inFlight' = TRUE /\ Move(Announcer, "speak") /\ UNCHANGED announce
  /\ UNCHANGED <<ends, agent, transport, rebuild, park, bound, world, capture,
                 spoke, ghosts>>

(* It looks for a turn that began meanwhile, and only then speaks.         *)
AnnounceSpeaks ==
  /\ at[Announcer] = "check"
  /\ IF inFlight \/ agent \notin up
     THEN announce' = "none" /\ Move(Announcer, "none") /\ UNCHANGED inFlight
     ELSE inFlight' = TRUE /\ Move(Announcer, "speak") /\ UNCHANGED announce
  /\ UNCHANGED <<ends, agent, transport, rebuild, park, bound, world, capture,
                 spoke, ghosts>>

(* The announcement was spoken to its end: stream_output ends a turn.      *)
AnnounceEnds ==
  /\ at[Announcer] = "speak"
  /\ Recycle \/ UNCHANGED rebuild
  /\ inFlight' = FALSE /\ announce' = "none" /\ spoke' = TRUE
  /\ Move(Announcer, "none")
  /\ UNCHANGED <<ends, agent, transport, park, bound, world, capture, ghosts>>

(* It was stopped, and what was left of it is read and dropped.            *)
AnnounceStops ==
  /\ at[Announcer] = "speak" /\ announce = "set"
  /\ announce' = "none"
  /\ Move(Announcer, "none")
  /\ UNCHANGED <<ends, agent, transport, rebuild, park, inFlight, bound, world,
                 capture, spoke, ghosts>>

AnnounceStep ==
  \/ AnnounceBegins \/ AnnounceReplaces \/ AnnounceRegisters
  \/ AnnounceSpeaks \/ AnnounceEnds \/ AnnounceStops

-----------------------------------------------------------------------------
Alone == UNCHANGED <<capture, at, spoke, ghosts>>

Next ==
  \/ SessionStep /\ Alone
  \/ RebuildEnds
  \/ PrepareStep
  \/ CaptureStep
  \/ AnnounceStep

Spec == Init /\ [][Next]_vars

-----------------------------------------------------------------------------
(* What a bound turn commits is the whole utterance: no reconnect of the   *)
(* agent and no replacement of it leaves a hole, because the commit then   *)
(* replays the recording (bind_audio_turn).  A replacement that fails      *)
(* while the user speaks does leave one.                                   *)
BoundTurnIsWhole ==
  (committed.bound /\ committed.turn \notin spoilt)
    => {committed.turn} \X (1 .. committed.length) \subseteq committed.audio

(* The model never hears what an earlier turn streamed and did not commit  *)
(* (discard_open_activity), unless that turn met a replacement that failed *)
(* or was delegated for a harness follow-up, which discards nothing.       *)
OnlyOwnAudio == \A f \in committed.audio : f[1] = committed.turn \/ f[1] \in spoilt

(* The user wins over an announcement, wherever in its preparation the     *)
(* capture begins: once the session of the capture is being prepared, an   *)
(* announcement that still speaks has been told to stop.                   *)
UserPreempts ==
  (at[Announcer] = "speak" /\ phase # "idle" /\ at[turn] \notin {"mark", "look"})
    => announce = "set"
=============================================================================
