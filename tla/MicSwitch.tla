----------------------------- MODULE MicSwitch -----------------------------
(***************************************************************************)
(* The microphone and everybody who mutes it: the physical slide switch    *)
(* (hal/drivers/privacy_button.py), the web and button routes, sleep and   *)
(* wake, scenes, a voice enrollment and a change of the audio route.       *)
(* Each handler runs in a thread of its own and takes no common lock: it   *)
(* is the list of the steps it still has to do, and steps of different     *)
(* handlers interleave.  A restart of the HAL reads the mutes back from    *)
(* the sidecar files.  Extended is a device whose switch also locks camera *)
(* and speaker (Lamp); without it the switch only mutes (Intern).          *)
(***************************************************************************)
EXTENDS VoiceLifecycle, Sequences

CONSTANTS
  Extended,   \* disable_camera_on_mute or mute_speaker_on_mute
  Callers,    \* threads that serve requests and gestures
  Switch,     \* the thread of the settle timer and of the watchdog
  Budget      \* bound: how many requests, flips of the switch and restarts

ASSUME SwitchApart == Switch \notin Callers /\ Extended \in BOOLEAN

ASSUME BudgetBound == Budget \in [{"request", "flip", "restart"} -> Nat]

VARIABLES
  pin,        \* the position of the switch: TRUE is muted
  last,       \* _last_known_level
  hw,         \* _hw_mic_switch_muted
  locked,     \* privacy.camera_muted or privacy.speaker_muted
  muted,      \* _mic_muted
  sleeping,   \* _sleeping
  auto,       \* _sleepy_auto_muted_mic
  enrolling,  \* _enrolling
  saved,      \* the sidecar files: mic, sleeping, auto
  todo,       \* per thread: the steps it still has to do
  booted,     \* requests are served
  left,       \* what is left of the budget
  tangled     \* two handlers overlapped, or a route change met a mute

switches == <<pin, last, hw, locked, muted, sleeping, auto, enrolling, saved>>
vars == <<lifecycle, switches, todo, booted, left, tangled>>

Actors == Callers \cup {Switch}

Steps == {"gate", "start", "stop", "saveMic", "saveSleep", "unmute", "live", "wake",
          "wakeMic", "doze", "record", "restart", "lock", "unlock", "mute", "apply",
          "open", "autostart", "sync", "ready"}

TypeOK ==
  /\ LifecycleTypeOK
  /\ \A b \in {pin, last, hw, locked, muted, sleeping, auto, enrolling, booted, tangled} :
       b \in BOOLEAN
  /\ saved \in [mic : BOOLEAN, sleeping : BOOLEAN, auto : BOOLEAN]
  /\ todo \in [Actors -> Seq(Steps)]
  /\ left \in [{"request", "flip", "restart"} -> Nat]

Quiet == \A a \in Actors : todo[a] = <<>>
Settled == Quiet /\ ~teardown /\ resumes = {}

(* Mutant: nobody asks for the lock. *)
MicLockedNever == FALSE

(* privacy.mic_locked: the extra guard of a device that opted in.          *)
MicLocked == locked /\ hw

-----------------------------------------------------------------------------
(* Requests: what a handler decides on entry, and the steps that follow.   *)

Spend(kind) == left[kind] > 0 /\ left' = [left EXCEPT ![kind] = @ - 1]

Enter(c, steps) ==
  /\ booted /\ todo[c] = <<>>
  /\ Spend("request")
  /\ todo' = [todo EXCEPT ![c] = steps]
  /\ tangled' = (tangled \/ ~Quiet)
  /\ UNCHANGED <<lifecycle, pin, last, hw, locked, saved, booted>>

Mute(c) ==
  /\ Enter(c, IF muted THEN <<>> ELSE <<"saveMic", "stop">>)
  /\ muted' = TRUE
  /\ UNCHANGED <<sleeping, auto, enrolling>>

(* A button or touch tap wakes the device too; the web route does not.     *)
Unmute(c) ==
  /\ \E steps \in {<<"unmute", "live">>, <<"wake", "unmute", "live">>} :
       Enter(c, IF hw THEN <<>> ELSE steps)
  /\ UNCHANGED <<muted, sleeping, auto, enrolling>>

Sleep(c) ==
  /\ Enter(c, <<"saveSleep", "doze">>)
  /\ sleeping' = TRUE
  /\ UNCHANGED <<muted, auto, enrolling>>

Wake(c) ==
  /\ Enter(c, <<"wake">>)
  /\ UNCHANGED <<muted, sleeping, auto, enrolling>>

(* Every scene has its microphone on, and scene/off opens it too.          *)
Scene(c) ==
  /\ Enter(c, IF muted /\ ~MicLocked THEN <<"gate", "start", "saveMic">> ELSE <<>>)
  /\ muted' = (muted /\ MicLocked)
  /\ UNCHANGED <<sleeping, auto, enrolling>>

Enroll(c) ==
  /\ ~MicLocked
  /\ Enter(c, IF running THEN <<"stop", "record", "restart", "start">> ELSE <<"record">>)
  /\ enrolling' = TRUE
  /\ UNCHANGED <<muted, sleeping, auto>>

(* A change of the audio route stops and starts the pipeline directly.     *)
Reroute(c) ==
  /\ booted /\ todo[c] = <<>>
  /\ Spend("request")
  /\ todo' = [todo EXCEPT ![c] = <<"stop", "start">>]
  /\ tangled' = (tangled \/ ~Quiet \/ muted)
  /\ UNCHANGED <<lifecycle, switches, booted>>

-----------------------------------------------------------------------------
(* The steps of a handler.                                                 *)

At(a, step) == todo[a] # <<>> /\ Head(todo[a]) = step
Then(a, steps) == todo' = [todo EXCEPT ![a] = steps \o Tail(@)]

(* app_state.start_voice_service.                                          *)
Gate(a) ==
  /\ At(a, "gate")
  /\ todo' = [todo EXCEPT ![a] = IF MicLocked \/ enrolling THEN Tail(Tail(@)) ELSE Tail(@)]
  /\ UNCHANGED <<lifecycle, switches>>

StartPipeline(a) ==
  /\ At(a, "start")
  /\ RequestStart
  /\ Then(a, <<>>)
  /\ UNCHANGED switches

StopPipeline(a) ==
  /\ At(a, "stop")
  /\ RequestStop
  /\ Then(a, <<>>)
  /\ UNCHANGED switches

SaveMic(a) ==
  /\ At(a, "saveMic")
  /\ saved' = [saved EXCEPT !.mic = muted]
  /\ Then(a, <<>>)
  /\ UNCHANGED <<lifecycle, pin, last, hw, locked, muted, sleeping, auto, enrolling>>

SaveSleep(a) ==
  /\ At(a, "saveSleep")
  /\ saved' = [saved EXCEPT !.sleeping = sleeping, !.auto = auto]
  /\ Then(a, <<>>)
  /\ UNCHANGED <<lifecycle, pin, last, hw, locked, muted, sleeping, auto, enrolling>>

(* routes/voice.py unmute_mic: the check of the switch, then the flag.     *)
UnmuteCheck(a) ==
  /\ At(a, "unmute")
  /\ todo' = [todo EXCEPT ![a] = IF hw THEN <<>> ELSE Tail(@)]
  /\ UNCHANGED <<lifecycle, switches>>

UnmuteLive(a) ==
  /\ At(a, "live")
  /\ muted' = FALSE
  /\ Then(a, IF muted THEN <<"gate", "start", "saveMic">> ELSE <<>>)
  /\ UNCHANGED <<lifecycle, pin, last, hw, locked, sleeping, auto, enrolling, saved>>

(* Any other emotion ends sleep: routes/emotion.py, then                   *)
(* _wake_sleepy_peripherals.                                               *)
WakeUp(a) ==
  /\ At(a, "wake")
  /\ sleeping' = FALSE
  /\ Then(a, IF sleeping THEN <<"saveSleep", "wakeMic", "saveSleep">> ELSE <<>>)
  /\ UNCHANGED <<lifecycle, pin, last, hw, locked, muted, auto, enrolling, saved>>

(* Mutant: a wake clears the mute and leaves the pipeline down. *)
WakeMicOnly(a) ==
  /\ At(a, "wakeMic")
  /\ auto' = FALSE
  /\ muted' = (muted /\ ~(auto /\ ~hw))
  /\ Then(a, <<>>)
  /\ UNCHANGED <<lifecycle, pin, last, hw, locked, sleeping, enrolling, saved>>

WakeMic(a) ==
  /\ At(a, "wakeMic")
  /\ auto' = FALSE
  /\ muted' = (muted /\ ~(auto /\ ~hw))
  /\ Then(a, IF auto /\ ~hw THEN <<"gate", "start">> ELSE <<>>)
  /\ UNCHANGED <<lifecycle, pin, last, hw, locked, sleeping, enrolling, saved>>

(* _finalize_sleepy_peripherals; a wake in between makes it return.        *)
Doze(a) ==
  /\ At(a, "doze")
  /\ muted' = (muted \/ sleeping)
  /\ auto' = (auto \/ (sleeping /\ ~muted))
  /\ Then(a, CASE ~sleeping -> <<>>
               [] sleeping /\ muted -> <<"saveSleep">>
               [] OTHER -> <<"stop", "saveSleep">>)
  /\ UNCHANGED <<lifecycle, pin, last, hw, locked, sleeping, enrolling, saved>>

(* The recording starts once the enrollment's own stop() has returned.     *)
Recorded(a) ==
  /\ At(a, "record")
  /\ ~teardown
  /\ enrolling' = FALSE
  /\ Then(a, <<>>)
  /\ UNCHANGED <<lifecycle, pin, last, hw, locked, muted, sleeping, auto, saved>>

EnrollRestart(a) ==
  /\ At(a, "restart")
  /\ todo' = [todo EXCEPT ![a] = IF MicLocked THEN Tail(Tail(@)) ELSE Tail(@)]
  /\ UNCHANGED <<lifecycle, switches>>

-----------------------------------------------------------------------------
(* The switch.                                                             *)

Flip ==
  /\ Spend("flip")
  /\ pin' = ~pin
  /\ UNCHANGED <<lifecycle, last, hw, locked, muted, sleeping, auto, enrolling, saved,
                 todo, booted, tangled>>

(* The settle timer of an edge or, when the edge was lost, the watchdog    *)
(* reads the pin; an unchanged level is left alone.  The position is       *)
(* published before anything is applied.                                   *)
Changed == pin # last

Reconcile ==
  /\ booted /\ todo[Switch] = <<>>
  /\ Changed
  /\ todo' = [todo EXCEPT ![Switch] = <<IF pin THEN "lock" ELSE "open", "apply">>]
  /\ hw' = pin
  /\ tangled' = (tangled \/ ~Quiet)
  /\ UNCHANGED <<lifecycle, pin, last, locked, muted, sleeping, auto, enrolling, saved,
                 booted, left>>

(* privacy.apply, on a device that opted in.                               *)
Lock(a) ==
  /\ \/ At(a, "lock") /\ locked' = Extended /\ Then(a, <<"mute">>)
     \/ At(a, "unlock") /\ locked' = FALSE /\ Then(a, <<>>)
  /\ UNCHANGED <<lifecycle, pin, last, hw, muted, sleeping, auto, enrolling, saved>>

(* _apply_state_locked mutes unless the microphone is muted already.       *)
SwitchMutes(a) ==
  /\ At(a, "mute")
  /\ muted' = TRUE
  /\ Then(a, IF muted THEN <<>> ELSE <<"saveMic", "stop">>)
  /\ UNCHANGED <<lifecycle, pin, last, hw, locked, sleeping, auto, enrolling, saved>>

(* Opening the switch is a tap that wakes and unmutes, and then unlocks.   *)
SwitchOpens(a) ==
  /\ At(a, "open")
  /\ Then(a, IF muted THEN <<"wake", "unmute", "live", "unlock">> ELSE <<"unlock">>)
  /\ UNCHANGED <<lifecycle, switches>>

(* The level that was read, not the one of now, is the one applied.        *)
Applied(a) ==
  /\ At(a, "apply")
  /\ last' = hw
  /\ Then(a, <<>>)
  /\ UNCHANGED <<lifecycle, pin, hw, locked, muted, sleeping, auto, enrolling, saved>>

-----------------------------------------------------------------------------
(* Start of the HAL: privacy.prepare, the autostart of the pipeline, the   *)
(* first read of the pin, and then requests are served.                    *)

Autostart(a) ==
  /\ At(a, "autostart")
  /\ Then(a, IF muted THEN <<>> ELSE <<"gate", "start">>)
  /\ UNCHANGED <<lifecycle, switches>>

(* Mutant: the first level read is not remembered. *)
FirstSyncForgotten(a) ==
  /\ At(a, "sync")
  /\ hw' = pin
  /\ Then(a, CASE pin -> <<"lock">>
               [] ~pin /\ muted /\ sleeping -> <<"unlock">>
               [] OTHER -> <<"unlock", "unmute", "live">>)
  /\ UNCHANGED <<lifecycle, pin, last, locked, muted, sleeping, auto, enrolling, saved>>

FirstSync(a) ==
  /\ At(a, "sync")
  /\ hw' = pin
  /\ last' = pin
  /\ Then(a, CASE pin -> <<"lock">>
               [] ~pin /\ muted /\ sleeping -> <<"unlock">>
               [] OTHER -> <<"unlock", "unmute", "live">>)
  /\ UNCHANGED <<lifecycle, pin, locked, muted, sleeping, auto, enrolling, saved>>

Ready(a) ==
  /\ At(a, "ready")
  /\ Then(a, <<>>)
  /\ UNCHANGED <<lifecycle, switches>>

Boot == <<"autostart", "sync", "ready">>

Restart ==
  /\ booted
  /\ Spend("restart")
  /\ LifecycleRestart
  /\ sleeping' = saved.sleeping
  /\ auto' = (saved.sleeping /\ saved.auto)
  /\ muted' = (Extended \/ saved.mic \/ auto')
  /\ hw' = Extended /\ locked' = Extended
  /\ enrolling' = FALSE /\ tangled' = FALSE /\ booted' = FALSE
  /\ todo' = [a \in Actors |-> IF a = Switch THEN Boot ELSE <<>>]
  /\ UNCHANGED <<pin, last, saved>>

-----------------------------------------------------------------------------
Init ==
  /\ LifecycleInit
  /\ pin \in BOOLEAN /\ last = FALSE
  /\ hw = Extended /\ locked = Extended /\ muted = Extended
  /\ sleeping = FALSE /\ auto = FALSE /\ enrolling = FALSE
  /\ saved = [mic |-> FALSE, sleeping |-> FALSE, auto |-> FALSE]
  /\ todo = [a \in Actors |-> IF a = Switch THEN Boot ELSE <<>>]
  /\ booted = FALSE /\ left = Budget /\ tangled = FALSE

Request(c) ==
  \/ Mute(c) \/ Unmute(c) \/ Sleep(c) \/ Wake(c) \/ Scene(c) \/ Enroll(c) \/ Reroute(c)

HandlerStep(a) ==
  \/ Gate(a) \/ StartPipeline(a) \/ StopPipeline(a) \/ SaveMic(a) \/ SaveSleep(a)
  \/ UnmuteCheck(a) \/ UnmuteLive(a) \/ WakeUp(a) \/ WakeMic(a) \/ Doze(a)
  \/ Recorded(a) \/ EnrollRestart(a) \/ Lock(a) \/ SwitchMutes(a) \/ SwitchOpens(a)
  \/ Applied(a)
  \/ Autostart(a) \/ FirstSync(a) \/ Ready(a)

Step(a) ==
  /\ HandlerStep(a)
  /\ booted' = (booted \/ At(a, "ready"))
  /\ UNCHANGED <<left, tangled>>

Worker == LifecycleWorker /\ UNCHANGED <<switches, todo, booted, left, tangled>>

Next ==
  \/ \E c \in Callers : Request(c)
  \/ \E a \in Actors : Step(a)
  \/ Flip \/ Reconcile \/ Restart \/ Worker

Spec == Init /\ [][Next]_vars

(* Handler threads run; the teardown's waits are bounded, a loop leaves    *)
(* once it sees `running` cleared, and the watchdog ticks.                 *)
FairSpec ==
  /\ Spec
  /\ \A a \in Actors : WF_vars(Step(a))
  /\ WF_vars(Worker)
  /\ WF_vars(Reconcile)

-----------------------------------------------------------------------------
(* A start that met a teardown is not lost: the pipeline comes up unless a *)
(* later request stops it.                                                 *)
StartIsHonoured == asked = "start" ~> (running \/ asked = "stop")

(* When all handlers are done and none overlapped another, the pipeline    *)
(* runs exactly if the microphone is not muted: through sleep, wake,       *)
(* scenes, enrollments, flips of the switch and restarts.  On a device     *)
(* whose switch locks its peripherals, a muted switch means muted.         *)
PipelineMatchesMute ==
  Settled /\ booted /\ ~tangled => (running <=> ~muted) /\ (Extended /\ hw => muted)

(* Once the switch stays where it is, the HAL follows it, although edges   *)
(* may be lost: the watchdog catches up.                                   *)
PinFollowed == <>[](hw = pin)

(* routes/voice.py: the physical switch beats software, so nothing listens *)
(* while it is muted.                                                      *)
SwitchBeatsSoftware == Settled /\ booted /\ hw => ~running
=============================================================================
