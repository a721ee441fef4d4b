---------------------------- MODULE Peripherals ----------------------------
(***************************************************************************)
(* Who owns the mute of the speaker and the state of the camera: the user, *)
(* a scene, sleep, or the privacy switch laid over all of them             *)
(* (hal/privacy.py, hal/app_state.py, hal/routes/music.py, camera.py,      *)
(* scene.py, emotion.py, speaker.py).  What runs under privacy.lock is one *)
(* step; what does not is several.  A restart of the HAL comes back with   *)
(* the files the handlers wrote.                                           *)
(***************************************************************************)
EXTENDS Naturals, TLC

CONSTANTS
  SpeakerLocks,  \* mute_speaker_on_mute of the device's switch
  CameraLocks,   \* disable_camera_on_mute of the device's switch
  Scenes,        \* [scenes -> "off" or "on"]: what a scene asks of both
  NoScene,
  None,          \* no preference kept aside, or no enrollment
  MaxEvents      \* bound: requests, flips of the switch and restarts

ASSUME PeripheralConstants ==
  /\ SpeakerLocks \in BOOLEAN /\ CameraLocks \in BOOLEAN
  /\ SpeakerLocks \/ CameraLocks
  /\ NoScene \notin DOMAIN Scenes /\ None \notin BOOLEAN
  /\ MaxEvents \in Nat

VARIABLES
  muted,       \* app_state._speaker_muted
  disabled,    \* app_state._camera_disabled
  override,    \* app_state._camera_manual_override
  running,     \* the capture loop of the camera
  locked,      \* privacy.speaker_muted and camera_muted, where configured
  before,      \* privacy.speaker_before and camera_before
  sleeping,    \* app_state._sleeping, with the sleepy emotion
  slept,       \* app_state._sleepy_auto_muted_speaker
  scene,       \* app_state._active_scene
  applying,    \* the scene that activate_scene is at work on
  waiting,     \* the speaker drains that a cancel still reaches
  passed,      \* the drains that are past their last look at the cancel
  sleepDrain,  \* app_state._sleepy_drain_cancel is not None
  pc,          \* where the handlers and the switch's thread are
  switch,      \* the switch is in its muted position
  enroll,      \* None, or the mute a voice enrollment found
  snap,        \* "no", "asked", "open" (the snapshot opened it) or "kept"
  file,        \* the sidecar files: speaker, camera, sleep, scene
  events,
  wants,       \* what the last request or scene made of the speaker and camera
  tangled,     \* a request met an enrollment, or a crash a half-done wake
  torn         \* the camera changed hands during a snapshot

device == <<muted, disabled, override, running, locked, before>>
mood   == <<sleeping, slept, scene, applying, waiting, passed, sleepDrain>>
aside  == <<switch, enroll, snap>>
ghosts == <<wants, tangled, torn>>
vars   == <<device, mood, aside, pc, file, events, ghosts>>

Drains  == {"sleep"} \cup DOMAIN Scenes

(* A handler of /emotion, a handler of /scene, and the switch's thread.    *)
Threads == {"emotion", "scene", "button"}

TypeOK ==
  /\ muted \in BOOLEAN /\ disabled \in BOOLEAN /\ override \in BOOLEAN
  /\ running \in BOOLEAN /\ locked \in BOOLEAN /\ switch \in BOOLEAN
  /\ before \in [speaker : BOOLEAN \cup {None}, camera : BOOLEAN \cup {None}]
  /\ sleeping \in BOOLEAN /\ slept \in BOOLEAN /\ sleepDrain \in BOOLEAN
  /\ {scene, applying} \subseteq DOMAIN Scenes \cup {NoScene}
  /\ waiting \subseteq Drains /\ passed \subseteq Drains
  /\ pc \in [Threads -> {"idle", "wake", "sceneOff", "restore", "camera", "doze", "drain",
                         "setCamera", "setSpeaker", "unmute", "unlock", "sync"}]
  /\ enroll \in BOOLEAN \cup {None} /\ snap \in {"no", "asked", "open", "kept"}
  /\ file \in [speaker : BOOLEAN, camera : BOOLEAN, override : BOOLEAN,
               sleeping : BOOLEAN, slept : BOOLEAN,
               scene : DOMAIN Scenes \cup {NoScene}]
  /\ events \in 0 .. MaxEvents
  /\ wants \in [speaker : BOOLEAN, camera : BOOLEAN]
  /\ tangled \in BOOLEAN /\ torn \in BOOLEAN

Init ==
  /\ muted = FALSE /\ disabled = FALSE /\ override = FALSE /\ running = TRUE
  /\ locked = FALSE /\ before = [speaker |-> None, camera |-> None]
  /\ sleeping = FALSE /\ slept = FALSE /\ scene = NoScene /\ applying = NoScene
  /\ waiting = {} /\ passed = {} /\ sleepDrain = FALSE
  /\ pc = [t \in Threads |-> "idle"]
  /\ switch = FALSE /\ enroll = None /\ snap = "no"
  /\ file = [speaker |-> FALSE, camera |-> FALSE, override |-> FALSE,
             sleeping |-> FALSE, slept |-> FALSE, scene |-> NoScene]
  /\ events = 0
  /\ wants = [speaker |-> FALSE, camera |-> FALSE]
  /\ tangled = FALSE /\ torn = FALSE

-----------------------------------------------------------------------------
(* The locks, the files, and the camera.                                   *)

SpeakerLocked == locked /\ SpeakerLocks
CameraLocked  == locked /\ CameraLocks

(* What the speaker and the camera go back to when nothing overlays them.  *)
SpeakerPref == IF slept THEN FALSE ELSE IF SpeakerLocked THEN before.speaker ELSE muted
CameraPref  == IF CameraLocked THEN before.camera ELSE disabled

CountEvent == events < MaxEvents /\ events' = events + 1

Goto(t, at) == pc' = [pc EXCEPT ![t] = at]

(* A handler is between the two halves of a wake, or of leaving a scene.   *)
Waking  == \E t \in Threads : pc[t] = "wake"
Leaving == Waking \/ \E t \in Threads : pc[t] \in {"sceneOff", "restore"}

(* Bookkeeping of the overlaps that are known to lose a preference.        *)
NoteSpeaker == tangled' = (tangled \/ enroll # None)
NoteCamera  == torn' = (torn \/ snap = "open")

(* _persist_speaker_state: under the switch, the preference beneath it.    *)
SaveSpeaker ==
  file' = [file EXCEPT !.speaker = IF locked' /\ SpeakerLocks THEN before'.speaker ELSE muted']

(* Mutant: the files are given what is in force. *)
SaveBothInForce ==
  file' = [file EXCEPT !.speaker = muted', !.camera = disabled', !.override = override']

(* _persist_camera_state and the other, which privacy.apply calls.         *)
SaveBoth ==
  file' = [file EXCEPT
    !.speaker = IF locked' /\ SpeakerLocks THEN before'.speaker ELSE muted',
    !.camera = IF locked' /\ CameraLocks THEN before'.camera ELSE disabled',
    !.override = override']

(* Mutant: the camera is started without a look at the lock. *)
StartCameraAnyway == running' = TRUE

(* GuardedCamera.start.                                                    *)
StartCamera == running' = (running \/ ~CameraLocked)

(* Mutant: a lock that is applied again captures its own mute. *)
LockAgain ==
  /\ locked' = TRUE
  /\ before' = [speaker |-> IF SpeakerLocks THEN muted ELSE None,
                camera  |-> IF CameraLocks THEN disabled ELSE None]
  /\ muted' = (muted \/ SpeakerLocks)
  /\ disabled' = (disabled \/ CameraLocks)
  /\ running' = (running /\ ~CameraLocks)

(* privacy.apply(True): both preferences are kept aside once.              *)
Lock ==
  /\ locked' = TRUE
  /\ before' = IF locked THEN before
               ELSE [speaker |-> IF SpeakerLocks THEN muted ELSE None,
                     camera  |-> IF CameraLocks THEN disabled ELSE None]
  /\ muted' = (muted \/ SpeakerLocks)
  /\ disabled' = (disabled \/ CameraLocks)
  /\ running' = (running /\ ~CameraLocks)

(* Mutant: the camera gets its flag back and is not started. *)
UnlockFlagOnly ==
  /\ locked' = FALSE
  /\ before' = [speaker |-> None, camera |-> None]
  /\ muted' = IF before.speaker = None THEN muted ELSE before.speaker
  /\ disabled' = IF before.camera = None THEN disabled ELSE before.camera
  /\ UNCHANGED running

(* privacy.apply(False).                                                   *)
Unlock ==
  /\ locked' = FALSE
  /\ before' = [speaker |-> None, camera |-> None]
  /\ muted' = IF before.speaker = None THEN muted ELSE before.speaker
  /\ disabled' = IF before.camera = None THEN disabled ELSE before.camera
  /\ running' = (running \/ before.camera = FALSE)

(* _auto_camera_off and _auto_camera_on, which the user's own word, the    *)
(* switch and a state that already agrees make void.                       *)
AutoCamera(off) ==
  IF CameraLocked \/ override \/ disabled = off
  THEN UNCHANGED <<disabled, running, file, wants, torn>>
  ELSE /\ disabled' = off
       /\ running' = ~off
       /\ file' = [file EXCEPT !.camera = off, !.override = override]
       /\ wants' = [wants EXCEPT !.camera = off]
       /\ NoteCamera

-----------------------------------------------------------------------------
(* The user's requests: each holds privacy.lock throughout.                *)

MuteSpeaker ==
  /\ CountEvent
  /\ muted' = TRUE
  /\ before' = IF SpeakerLocked THEN [before EXCEPT !.speaker = TRUE] ELSE before
  /\ slept' = FALSE
  /\ file' = [file EXCEPT !.speaker = TRUE,
                          !.slept = IF slept THEN FALSE ELSE @,
                          !.sleeping = IF slept THEN sleeping ELSE @]
  /\ wants' = [wants EXCEPT !.speaker = TRUE]
  /\ NoteSpeaker
  /\ UNCHANGED <<disabled, override, running, locked, sleeping, scene, applying, waiting,
                 passed, sleepDrain, aside, pc, torn>>

(* An unmute also drops a scene's drain, and leaves sleep's flag alone.    *)
UnmuteSpeaker ==
  /\ ~SpeakerLocked
  /\ CountEvent
  /\ waiting' = waiting \cap {"sleep"}
  /\ muted' = FALSE
  /\ UNCHANGED <<locked, before>>
  /\ IF muted THEN SaveSpeaker ELSE UNCHANGED file
  /\ wants' = [wants EXCEPT !.speaker = FALSE]
  /\ NoteSpeaker
  /\ UNCHANGED <<disabled, override, running, sleeping, slept, scene, applying,
                 passed, sleepDrain, aside, pc, torn>>

(* A disable that finds the camera off already changes nothing, unless it  *)
(* is the switch that keeps it off.                                        *)
DisableCamera ==
  /\ CountEvent
  /\ IF ~CameraLocked /\ disabled
     THEN UNCHANGED <<disabled, override, running, before, file, torn>>
     ELSE /\ override' = TRUE
          /\ disabled' = TRUE
          /\ running' = FALSE
          /\ before' = IF CameraLocked THEN [before EXCEPT !.camera = TRUE] ELSE before
          /\ file' = [file EXCEPT !.camera = TRUE, !.override = TRUE]
          /\ NoteCamera
  /\ wants' = [wants EXCEPT !.camera = TRUE]
  /\ UNCHANGED <<muted, locked, mood, aside, pc, tangled>>

EnableCamera ==
  /\ ~CameraLocked
  /\ CountEvent
  /\ wants' = [wants EXCEPT !.camera = FALSE]
  /\ IF disabled
     THEN /\ disabled' = FALSE /\ override' = FALSE /\ running' = TRUE
          /\ file' = [file EXCEPT !.camera = FALSE, !.override = FALSE]
          /\ NoteCamera
     ELSE UNCHANGED <<disabled, override, running, file, torn>>
  /\ UNCHANGED <<muted, locked, before, mood, aside, pc, tangled>>

-----------------------------------------------------------------------------
(* Sleep and wake: POST /emotion, which the switch calls too.              *)

(* Any other emotion than sleepy, of a handler that goes on with the wake. *)
Rouse(t) ==
  /\ pc[t] = "idle"
  /\ sleeping' = FALSE
  /\ file' = IF sleeping THEN [file EXCEPT !.sleeping = FALSE, !.slept = slept] ELSE file
  /\ UNCHANGED <<device, slept, scene, applying, waiting, passed, sleepDrain, aside, ghosts>>

FeelAwake ==
  /\ CountEvent
  /\ Rouse("emotion")
  /\ Goto("emotion", IF sleeping THEN "wake" ELSE "camera")

FeelSleepy ==
  /\ pc["emotion"] = "idle"
  /\ CountEvent
  /\ sleeping' = TRUE
  /\ file' = IF sleeping THEN file ELSE [file EXCEPT !.sleeping = TRUE, !.slept = slept]
  /\ Goto("emotion", "doze")
  /\ UNCHANGED <<device, slept, scene, applying, waiting, passed, sleepDrain, aside, ghosts>>

DozeCamera ==
  /\ pc["emotion"] = "doze"
  /\ AutoCamera(TRUE)
  /\ Goto("emotion", "drain")
  /\ UNCHANGED <<muted, override, locked, before, mood, aside, events, tangled>>

(* _finalize_sleepy_peripherals, void when a wake came first.              *)
DozeSpeaker ==
  /\ pc["emotion"] = "drain"
  /\ IF sleeping /\ ~muted
     THEN waiting' = {"sleep"} /\ sleepDrain' = TRUE
     ELSE UNCHANGED <<waiting, sleepDrain>>
  /\ Goto("emotion", "idle")
  /\ UNCHANGED <<device, sleeping, slept, scene, applying, passed, aside, file, events, ghosts>>

(* _wake_sleepy_peripherals; the wake then leaves the scene.               *)
Wake(t) ==
  /\ pc[t] = "wake"
  /\ waiting' = waiting \ {"sleep"}
  /\ sleepDrain' = FALSE
  /\ slept' = FALSE
  /\ before' = IF slept /\ SpeakerLocked THEN [before EXCEPT !.speaker = FALSE] ELSE before
  /\ muted' = (muted /\ (slept => SpeakerLocked))
  /\ file' = [file EXCEPT !.speaker = @ /\ ~slept, !.sleeping = sleeping, !.slept = FALSE]
  /\ Goto(t, IF scene # NoScene THEN "sceneOff" ELSE "camera")
  /\ NoteSpeaker
  /\ UNCHANGED <<disabled, override, running, locked, sleeping, scene, applying, passed, aside,
                 events, wants, torn>>

(* The camera of the emotion that woke the device, or of any other.        *)
EmotionCamera(t) ==
  /\ pc[t] = "camera"
  /\ AutoCamera(FALSE)
  /\ Goto(t, IF t = "button" THEN "unlock" ELSE "idle")
  /\ UNCHANGED <<muted, override, locked, before, mood, aside, events, tangled>>

-----------------------------------------------------------------------------
(* Scenes.                                                                 *)

ActivateScene ==
  /\ pc["scene"] = "idle"
  /\ CountEvent
  /\ \E s \in DOMAIN Scenes :
       scene' = s /\ applying' = s /\ file' = [file EXCEPT !.scene = s]
  /\ Goto("scene", "setCamera")
  /\ UNCHANGED <<device, sleeping, slept, waiting, passed, sleepDrain, aside, ghosts>>

SceneCamera ==
  /\ pc["scene"] = "setCamera"
  /\ AutoCamera(Scenes[applying] = "off")
  /\ Goto("scene", "setSpeaker")
  /\ UNCHANGED <<muted, override, locked, before, mood, aside, events, tangled>>

(* Mutant: the drain is given the scene that is active by now. *)
SceneDrainActive == IF sleeping \/ sleepDrain THEN {} ELSE {scene}

(* _start_scene_speaker_drain, which leaves the mute to sleep.             *)
SceneDrain == IF sleeping \/ sleepDrain THEN {} ELSE {applying}

(* A scene mutes through a drain; it looks at the flags before it unmutes, *)
(* without the lock.                                                       *)
SceneSpeaker ==
  /\ pc["scene"] = "setSpeaker"
  /\ IF Scenes[applying] = "off"
     THEN /\ waiting' = IF muted THEN waiting
                        ELSE (waiting \cap {"sleep"}) \cup SceneDrain
          /\ Goto("scene", "idle")
     ELSE /\ waiting' = waiting \cap {"sleep"}
          /\ Goto("scene", IF muted /\ ~SpeakerLocked THEN "unmute" ELSE "idle")
  /\ UNCHANGED <<device, sleeping, slept, scene, applying, passed, sleepDrain, aside, file,
                 events, ghosts>>

SceneUnmutes ==
  /\ pc["scene"] = "unmute"
  /\ muted' = FALSE
  /\ UNCHANGED <<locked, before>>
  /\ SaveSpeaker
  /\ Goto("scene", "idle")
  /\ wants' = [wants EXCEPT !.speaker = FALSE]
  /\ tangled' = (tangled \/ enroll # None \/ SpeakerLocked)
  /\ UNCHANGED <<disabled, override, running, mood, aside, events, torn>>

SceneOff ==
  /\ pc["scene"] = "idle" /\ scene # NoScene
  /\ CountEvent
  /\ Goto("scene", "sceneOff")
  /\ UNCHANGED <<device, mood, aside, file, ghosts>>

(* deactivate_scene up to its lock.                                        *)
LeaveScene(t) ==
  /\ pc[t] = "sceneOff"
  /\ scene' = NoScene
  /\ file' = [file EXCEPT !.scene = NoScene]
  /\ waiting' = waiting \cap {"sleep"}
  /\ Goto(t, "restore")
  /\ UNCHANGED <<device, sleeping, slept, applying, passed, sleepDrain, aside, events, ghosts>>

(* Under the lock: what the switch keeps closed is reopened beneath it.    *)
RestoreScene(t) ==
  /\ pc[t] = "restore"
  /\ LET camera  == disabled /\ ~override
         speaker == muted
     IN /\ before' = [speaker |-> IF SpeakerLocked /\ speaker THEN FALSE ELSE before.speaker,
                      camera  |-> IF CameraLocked /\ camera THEN FALSE ELSE before.camera]
        /\ muted' = (SpeakerLocked /\ muted)
        /\ disabled' = IF ~CameraLocked /\ camera THEN FALSE ELSE disabled
        /\ running' = IF ~CameraLocked /\ camera THEN TRUE ELSE running
        /\ UNCHANGED <<locked, override>>
        /\ file' = [file EXCEPT !.speaker = @ /\ ~speaker, !.camera = @ /\ ~camera]
        /\ wants' = [speaker |-> FALSE,
                     camera |-> IF camera THEN FALSE ELSE wants.camera]
        /\ IF camera THEN NoteCamera ELSE UNCHANGED torn
  /\ NoteSpeaker
  /\ Goto(t, IF t = "scene" THEN "idle" ELSE "camera")
  /\ UNCHANGED <<mood, aside, events>>

-----------------------------------------------------------------------------
(* The drains: threads that mute once the announcement has been played.    *)

DrainPasses(d) ==
  /\ d \in waiting
  /\ waiting' = waiting \ {d}
  /\ passed' = passed \cup {d}
  /\ UNCHANGED <<device, sleeping, slept, scene, applying, sleepDrain, aside, pc, file, events,
                 ghosts>>

(* Mutant: the drain does not look again whether the device sleeps. *)
StillWantedAny(d) == TRUE

(* The second look of _mute_speaker_for_sleep and _mute_speaker_for_scene. *)
StillWanted(d) == IF d = "sleep" THEN sleeping ELSE scene = d /\ ~sleeping

(* Their commit, under privacy.lock.                                       *)
DrainCommits(d) ==
  /\ d \in passed
  /\ passed' = passed \ {d}
  /\ IF StillWanted(d) /\ ~muted
     THEN /\ muted' = TRUE
          /\ IF d = "sleep"
             THEN /\ slept' = TRUE
                  /\ file' = [file EXCEPT !.sleeping = sleeping, !.slept = TRUE]
                  /\ UNCHANGED wants
             ELSE /\ file' = [file EXCEPT !.speaker = TRUE]
                  /\ wants' = [wants EXCEPT !.speaker = TRUE]
                  /\ UNCHANGED slept
          /\ NoteSpeaker
     ELSE UNCHANGED <<muted, slept, file, wants, tangled>>
  /\ UNCHANGED <<disabled, override, running, locked, before, sleeping, scene, applying,
                 waiting, sleepDrain, aside, pc, events, torn>>

-----------------------------------------------------------------------------
(* The privacy switch, enrollments and snapshots.                          *)

Flip ==
  /\ CountEvent
  /\ switch' = ~switch
  /\ UNCHANGED <<device, mood, enroll, snap, pc, file, ghosts>>

SwitchLocks ==
  /\ pc["button"] = "idle" /\ switch /\ ~locked
  /\ Lock
  /\ UNCHANGED override
  /\ SaveBoth
  /\ NoteSpeaker /\ NoteCamera
  /\ UNCHANGED <<mood, aside, pc, events, wants>>

(* The opened switch wakes a sleeping device first, and then lets go.      *)
SwitchWakes ==
  /\ ~switch /\ locked
  /\ Rouse("button")
  /\ Goto("button", IF sleeping THEN "wake" ELSE "unlock")
  /\ UNCHANGED events

SwitchUnlocks ==
  /\ pc["button"] = "unlock"
  /\ Unlock
  /\ UNCHANGED override
  /\ SaveBoth
  /\ Goto("button", "idle")
  /\ NoteSpeaker /\ NoteCamera
  /\ UNCHANGED <<mood, aside, events, wants>>

(* record-enroll mutes the speaker for the recording.                      *)
Enroll ==
  /\ enroll = None /\ ~locked
  /\ CountEvent
  /\ enroll' = muted
  /\ muted' = TRUE
  /\ UNCHANGED <<disabled, override, running, locked, before, mood, switch, snap, pc, file,
                 ghosts>>

EnrollEnds ==
  /\ enroll # None
  /\ enroll' = None
  /\ muted' = (muted /\ (enroll \/ SpeakerLocked))
  /\ UNCHANGED <<disabled, override, running, locked, before, mood, switch, snap, pc, file,
                 events, ghosts>>

(* A snapshot looks at the lock, opens a disabled camera and closes it.    *)
Snapshot ==
  /\ snap = "no" /\ ~CameraLocked
  /\ CountEvent
  /\ snap' = "asked"
  /\ UNCHANGED <<device, mood, switch, enroll, pc, file, ghosts>>

SnapshotOpens ==
  /\ snap = "asked"
  /\ snap' = IF disabled THEN "open" ELSE "kept"
  /\ IF disabled THEN StartCamera ELSE UNCHANGED running
  /\ UNCHANGED <<muted, disabled, override, locked, before, mood, switch, enroll, pc, file,
                 events, ghosts>>

SnapshotEnds ==
  /\ snap \in {"open", "kept"}
  /\ running' = (running /\ snap = "kept")
  /\ snap' = "no"
  /\ UNCHANGED <<muted, disabled, override, locked, before, mood, switch, enroll, pc, file,
                 events, ghosts>>

-----------------------------------------------------------------------------
(* Restarts: the files are read, the switch is taken for muted until its   *)
(* pin is read, and the scene is put back unless the device sleeps.        *)
Restart ==
  /\ CountEvent
  /\ sleeping' = file.sleeping
  /\ slept' = (file.sleeping /\ file.slept)
  /\ before' = [speaker |-> IF SpeakerLocks THEN file.speaker \/ slept' ELSE None,
                camera  |-> IF CameraLocks THEN file.camera ELSE None]
  /\ muted' = (file.speaker \/ slept' \/ SpeakerLocks)
  /\ disabled' = (file.camera \/ CameraLocks)
  /\ override' = file.override
  /\ locked' = TRUE
  /\ running' = ~disabled'
  /\ SaveBoth
  /\ scene' = NoScene /\ applying' = NoScene
  /\ waiting' = {} /\ passed' = {} /\ sleepDrain' = FALSE
  /\ pc' = [emotion |-> "idle", scene |-> "idle", button |-> "sync"]
  /\ enroll' = None /\ snap' = "no"
  /\ tangled' = (tangled \/ Leaving)
  /\ UNCHANGED <<switch, wants, torn>>

(* The first read of the pin; an open switch wakes nobody.                 *)
FirstSync ==
  /\ pc["button"] = "sync"
  /\ IF switch THEN Lock ELSE Unlock
  /\ UNCHANGED override
  /\ SaveBoth
  /\ Goto("button", "idle")
  /\ UNCHANGED <<mood, aside, events, ghosts>>

(* restore_persisted_scene: a sleeping device keeps only the name.         *)
SceneReturns ==
  /\ pc["scene"] = "idle" /\ scene = NoScene /\ file.scene # NoScene
  /\ scene' = file.scene /\ applying' = file.scene
  /\ IF sleeping THEN UNCHANGED pc ELSE Goto("scene", "setCamera")
  /\ UNCHANGED <<device, sleeping, slept, waiting, passed, sleepDrain, aside, file, events,
                 ghosts>>

-----------------------------------------------------------------------------
Next ==
  \/ MuteSpeaker \/ UnmuteSpeaker \/ DisableCamera \/ EnableCamera
  \/ FeelAwake \/ FeelSleepy \/ DozeCamera \/ DozeSpeaker
  \/ ActivateScene \/ SceneCamera \/ SceneSpeaker \/ SceneUnmutes \/ SceneOff
  \/ \E t \in Threads : Wake(t) \/ EmotionCamera(t) \/ LeaveScene(t) \/ RestoreScene(t)
  \/ \E d \in Drains : DrainPasses(d) \/ DrainCommits(d)
  \/ Flip \/ SwitchLocks \/ SwitchWakes \/ SwitchUnlocks
  \/ Enroll \/ EnrollEnds \/ Snapshot \/ SnapshotOpens \/ SnapshotEnds
  \/ Restart \/ FirstSync \/ SceneReturns

Spec == Init /\ [][Next]_vars

-----------------------------------------------------------------------------
(* While the switch locks the camera its capture loop does not run, even   *)
(* when a snapshot that was under way starts or ends it.                   *)
LockedCameraIsOff == CameraLocked => ~running

(* Wake is final: a device that is awake, and whose wake is done, is not   *)
(* muted by a drain of the sleep before (_mute_speaker_for_sleep).         *)
WakeIsFinal ==
  ~sleeping /\ ~Waking => ~slept

(* Under every overlay of the switch, of sleep and of restarts, the speaker *)
(* goes back to what the user or a scene last made of it.  Requests that   *)
(* meet an enrollment are left out: see the hazards.                       *)
SpeakerChoiceKept ==
  ~tangled /\ enroll = None /\ ~Leaving => SpeakerPref = wants.speaker

(* The same of the camera, which the user's own disable keeps off.         *)
CameraChoiceKept == CameraPref = wants.camera /\ (override => CameraPref)

(* The capture loop follows the flag, but for a snapshot that opened it.   *)
CameraFollowsFlag ==
  ~torn /\ snap # "open" /\ ~CameraLocked => running = ~disabled
=============================================================================
