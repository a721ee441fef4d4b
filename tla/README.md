# Verification of Autonomous OS

TLA+ models of Autonomous OS, the TLC runs that check them and the theorems that TLAPS
proves about them: the harness results and schedules of the Go OS server (`src/system`),
and the microphone, the speech, the realtime voice session and the privacy of the Python
HAL (`src/hal`). The modules
are translated from the code; documents, docstrings and comments are used for what they
promise, and some of those promises turn out not to hold (see *Findings*).

1. [The system](#1-the-system)
2. [Modules](#2-modules)
3. [Runs](#3-runs)
4. [Findings](#4-findings)
5. [Proofs](#5-proofs)
6. [What is not modelled](#6-what-is-not-modelled)
7. [Plan](#7-plan)

Names of properties are in `code font`. Paths are below `src/`; in the Go components of
the table, below `src/system`.

## 1. The system

The robot runs a few processes: **OS server** (Go, `cmd/`, `server/`), the **HAL** (Python,
`src/hal`) that owns hardware, microphone, camera and speaker, one external **agent
runtime** (OpenClaw, Hermes, Claude Code, ...) behind a gateway, and **bootstrap**, the
updater. OS server is the centre: HAL posts sensing events to it, the backend sends
commands over MQTT, the app and the paired computer connect over HTTP and WebSocket, and it
keeps its durable state in JSON files. The HAL is one process of many threads: handlers of
HTTP routes, GPIO callbacks, the capture loop, workers that play speech.

### Components

| component | state | operations | talks to |
|---|---|---|---|
| harness result store (`harness/result_store.go`) | one JSON ledger: inputs, results, staged frames, questions, answers | `Reserve`, `BindReceipt`, `Stage`, `Apply`, `Claim`, `Finish`, `BindQuestion`, `ReserveAnswer`, `ReserveUnlinkedAnswer`, `BindAnswerReceipt`, `OpenResultStore` | called by result delivery under one mutex |
| harness result delivery (`server/harness.go`, `server/harness_results.go`, `server/agent/delivery/http/handler_harness*.go`) | routes and run marks in memory, the published set, a replay cursor per connection | the request handler and its hooks, capture of events, the watcher, delivery of a result: restore, inspect, claim, show, speak, finish | ledger, link, external history, agent handler, HAL |
| schedule store, runner, sync (`schedule/`, MQTT handlers) | rows and timezone in one file | ticker, Run now, `schedule.sync`, `timezone.set` | agent gateway, backend over MQTT |
| HAL: voice pipeline and mic switch (`hal/drivers/voice/voice_service.py`, `privacy_button.py`, `routes/voice.py`, `app_state.py`) | the capture thread and its revision; mute, sleep, switch and enrollment flags; sidecar files | start, stop, deferred restart; mute, unmute, sleep, wake, scenes, enrollment, audio route, the switch and its watchdog, boot | GPIO, routes, realtime sessions |
| HAL: speech queue (`hal/drivers/voice/tts/service.py`) | the speaker lock, the stop event, the pending queue, the newest turn | `speak`, `speak_queue`, `speak_cached`, `native_play_*`, `stop`, `stop_realtime_reply`, drain | OS server, realtime sessions, captures |
| HAL: speaker and camera (`hal/privacy.py`, `routes/{music,camera,scene,emotion,speaker}.py`) | mute and disable flags, what the switch laid aside, sleep and scene, files | user requests, emotions, scenes, drains, switch, enrollment, snapshots, boot | the switch, speech |
| HAL: realtime voice (`hal/realtime/`, `hal/drivers/voice/_internal/realtime_turn.py`, `hal/drivers/harness/announcer.py`) | the agent that is current and its transport, the rebuild reservation, parking, the mark of a turn, the binding of a capture | start, stop, retry, rebuild, park, resume; prepare, bind, stream, commit, replay, discard; announce | remote models, voice pipeline, speech queue |
| HAL: sensing, motion, LEDs, speaker recognition, configuration | filters, servo and strip state, a voice bank, environment | perception loops, animations, enrolment | OS server |
| harness link (`harness/service.go`) | paired peer, connection generation, pending requests | pair, confirm, cancel, unpair, connect, request, revoke | the paired computer |
| harness voice (`harness/voice*.go`) | mode, focus, pending prompt, voice generation | begin, submit, answer, receipt, resolve, gestures | link, HAL, sensing |
| schedule intents and digest (`schedule/intent.go`, `schedule_mutate.go`) | pending edits in a file | publish, replay, verdict | backend over MQTT |
| bootstrap and OTA (`bootstrap/`, `ota/`) | versions state file | check loop, forced check and update | metadata server, systemd |
| agent events and speech (`server/agent/`) | turn of the current run, buffers, reply sinks | runtime events, TTS, cancel | runtime, HAL |
| sensing and dead air (`server/sensing/`) | timers, last events, fillers | classify, forward, fill | HAL, agent |
| agent runtimes (`agent/`) | connection and queue per runtime | send, reconnect, cancel | external agents |
| buddy (`buddy/`) | paired desktop companions | pair, dispatch, reply | companions |
| intents (`intent/`) | rules, none at run time | match | sensing |
| network, health, ambient, status LED | polling loops | reconnect, recover, light | system tools, HAL |
| device, config, plugins, backend client | configuration files | setup, install | backend |
| external history (`externalhistory/`) | a bounded journal of turns | append, prune | runtimes |
| web UI, skills, robots, integrations, scripts | outside the core | | OS server |

`PROJECT.json` lists the same components with their sources and status.

### How a delegated task travels

    agent / voice / web --POST--> request handler --frame--> paired computer
                                   |  reserve input            |
                                   v                           v
                              ResultStore <--- capture --- turn.summary, receipts
                                   |  apply
                                   v
         worker: restore route, inspect, history, claim, show, speak, finish
                                   |
                                   +--> chat or web display, HAL speaker

A request handler registers a *route* for its run, adds a *mark* for it in the agent
handler, reserves the input in the ledger in its `BeforeRequest` hook and only then sends
the frame. The answer, a *receipt*, gives the input a delivery id. The computer groups its
answers: one `turn.summary` may resolve several inputs, and may arrive before their
receipts, so it is *staged* before the replay cursor passes it and *applied* when the
receipts agree. One worker then serves the applied results one at a time. Speech is
an outbox: a claim is written before anything is said, and a claim whose outcome is
unknown is never granted again.

### How a scheduled task fires

`schedule.sync` replaces the whole list and computes the first run of every row; the
ticker, once a minute, snapshots the due rows and serves them; *Run now* serves one out of
turn; `timezone.set` re-reads the list and syncs it again. Each runs in its own goroutine
and only the single operations of the `Store` are atomic.

### How the robot listens and speaks

The **voice pipeline** is a thread that owns the microphone. It is stopped and started by
whoever mutes and unmutes: a tap, the web, sleep and wake, a scene, a voice enrollment, a
change of the audio route, and the physical slide switch, whose edges may be lost and are
made up for by a watchdog. `stop()` waits a bounded time for the thread; a start that meets
a teardown leaves a worker behind that starts later.

**Speech** has one speaker lock. A request takes it, stops what may be interrupted and waits
for it, or is parked in a queue that the playing worker drains. OS server numbers its turns
so that the newest wins, and a restarted server starts counting again. In LIVE mode a
realtime model speaks too, natively or through the same queue.

A **realtime session** is one provider *agent* at a time. The agent reconnects its transport
by itself; everything else that brings a session back is a *rebuild*, a thread that holds
the one rebuild reservation, connects a new agent and publishes it. Rebuilds come from the
first connect that failed, from a turn that finds the session parked, idle or unusable, from
a commit whose session changed, from noise that must not reach the model and from the
recycling after a reply. A watchdog *parks* a session nobody uses. A **capture** has its
session prepared by a thread of its own while the user speaks, *binds* itself to one
transport of one agent, streams into it and commits; if the binding is lost it replays its
recording. The **announcer** speaks results through the same session when nobody else uses
it, and must give way to the user.

The **privacy switch** lays a mute and a disabled camera over whatever the user, a scene or
sleep chose, and must give back exactly that. Sleep and scenes mute through *drains*,
threads that wait for speech to end and may outlive what they were started for.

### What is hard, and what correctness means

* **Result store.** Crashes between a claim and its outcome; a write whose rename took
  effect although an error is returned; groups whose receipts come in any order; answers,
  questions and tasks that share identifiers. *Correct*: groups resolve whole or not at
  all, identifiers stay unique, speech is granted once, nothing recorded is taken back.
* **Result delivery.** Request handlers, the reader of events, the watcher and the restart
  interleave between four locks; requests time out and are retried under the same key;
  marks expire after 15 minutes; the listener at the microphone changes. *Correct*: what
  the computer accepted is in the ledger, an event is never lost between cursor and inbox,
  a result is spoken once, to the listener who asked, after it was shown, and every
  expected result is published in the end.
* **Scheduling.** A row is read, then acted upon, then written, while a sync replaces it;
  jitter may be negative, so a stored time is not its own anchor; failures are retried in a
  window. *Correct*: an occurrence is sent once, the next run only moves forward, a failure
  is reported once, and a due row never stays due for ever.
* **Voice pipeline.** Waits time out while threads live on; eight kinds of handlers share
  two flags and no lock. *Correct*: one thread owns the microphone, the last request wins,
  a start is not lost, and the pipeline runs exactly if the microphone is not muted.
* **Speech.** The last look at the queue and the release of the lock; a stop and the item
  behind the one it was meant for; posts that arrive out of order. *Correct*: one voice at
  a time, newest turn wins, what was accepted is played in the end and the speaker is freed.
* **Speaker and camera.** Overlay, sleep, scene and user own the same flag, and a restart
  may come at any step. *Correct*: a locked camera is off, a wake is final, and what the
  user chose is in force or laid aside, and on file.
* **Realtime sessions.** Up to seven threads connect, replace, park, stop and use one
  session, with one reservation between them and few locks; a replacement takes seconds and
  may fail. *Correct*: no session is left open that nobody owns, one that is down has
  somebody who brings it back, what the model hears is the whole turn of the user and
  nothing of another one, and the user preempts an announcement.
* **Link, OTA.** See *Not modelled* and *Plan*.

`PROJECT.json` lists the hazards with their lines and the properties that cover them; those
with no property carry a note. More of them, left out of that list because nothing here
decides them, are in section 6.

## 2. Modules

| module | models |
|---|---|
| `ResultLedger` | the data of the ledger and the update each method of `ResultStore` makes; no variables |
| `ResultStore` | the store as a process: memory, file, failed writes, crashes |
| `ResultOutbox` | what the store promises: tasks answered once and in groups, speech granted once |
| `ResultLedgerProofs` | what each operator of `ResultLedger` does to a typed ledger; used by both modules below that prove about a ledger |
| `ResultStoreProofs` | theorems about `ResultStore`, and that it implements `ResultOutbox` |
| `HarnessDelivery` | routes, marks, request handlers, inbox and worker around the ledger |
| `HarnessDeliveryProofs` | theorems about `HarnessDelivery` |
| `ScheduleRunner` | store, ticker, Run now, sync and timezone of schedules |
| `ScheduleRunnerProofs` | theorems about `ScheduleRunner` |
| `VoiceLifecycle` | start, stop, teardown and deferred restart of the voice pipeline |
| `MicSwitch` | `VoiceLifecycle` with everybody who mutes the microphone |
| `MicSwitchProofs` | one capture, last request wins, the pipeline matches the mute |
| `SpeechQueue` | who speaks, and when: admission, queue, stop, drain, release |
| `SpeechQueueProofs` | one voice at a time, each call queued once, the turns in order |
| `Peripherals` | speaker and camera under user, scenes, sleep and the switch |
| `PeripheralsProofs` | theorems about `Peripherals` |
| `RealtimeSession` | the realtime session: transports, rebuilds, start, stop, retry, parking |
| `RealtimeTurn` | `RealtimeSession` with captures, the threads that prepare for them, and the announcer |
| `RealtimeProofs` | theorems about both: who owns the session, and what the model hears |
| `MC...` | small instances for TLC |

`ResultStore` and `HarnessDelivery` both extend `ResultLedger`: the same operators are
checked against crashes of the disk in one and against concurrent handlers in the other.
`HarnessDelivery` takes a ledger write as one step that happens or fails; `ResultStore`
is what justifies that, and its third outcome (an error although the file was
replaced) is covered there.

### ResultLedger and ResultStore

Every method of the code is a triple of checks, a clone with the change, and `commit`. In
the model `XFresh(d, ...)` is the conjunction of the checks under which the method writes
and `Xed(d, ...)` the ledger it writes. A call that is refused, or finds its record already
there, changes nothing and is not a step.

| code | operators / action |
|---|---|
| `Reserve` | `ReserveFresh`, `Reserved` / `Reserve` |
| `BindReceipt` | `ReceiptFresh`, `ReceiptBound` / `BindReceipt` |
| `Stage` | `StageFresh`, `Staged` / `Stage` |
| `Apply` | `ApplyFresh`, `Applied`, `Speakable` / `Apply` |
| `Claim`, `Finish` | `ClaimFresh`, `ClaimGrants`, `Claimed`, `FinishFresh`, `Finished` / `Claim`, `Finish` |
| `BindQuestion` | `QuestionFresh`, `QuestionBound` / `BindQuestion` |
| `reserveAnswer` | `AnswerFresh`, `Answered` / `ReserveAnswer` |
| `BindAnswerReceipt` | `AnswerReceiptFresh`, `AnswerReceiptBound` / `BindAnswerReceipt` |
| `commit`, `save` | `Commit`, `CommitFails`, `Write` |
| `OpenResultStore` | `Recovered` / `Open`, after `Crash` |
| `expired` | the set `late` and `Expire` |

Abstractions: one `(owner, serverInstanceId)` pair, to which every key and scan of the code
is scoped; texts only as far as they are compared (`agent`) or limit speech (`long`); JSON
and validation of strings are left out. `granted` is a ghost that counts grants.

### HarnessDelivery

| code | action |
|---|---|
| `registerHarnessDispatch`, `MarkHarnessResponseRun` | `Register`, `MarkRun` (two locks, two steps) |
| errors of `Service.Request`, `forgetHarnessReply` | `Refuse`, `Forget` |
| `reserveHarnessResult` and its second look at the route | `ReserveInput`, `CheckRoute` |
| `SendEncrypted`, the wait for an answer | `Send`, `Return` |
| `bindHarnessResultReceipt`, `reconcileHarnessResultReceipts` | `BindKey`, `Receipt`, `Reconcile` |
| `captureHarnessResult` and the cursor | `Emit`, `Capture` |
| `processHarnessResults` | `Apply`, `Pick` |
| `deliverStoredHarnessResult` | `Pick`, `Inspect`, `ClaimSpeech`, `Show`, `Submit`, `FinishSpeech` |
| restart, `restoreHarnessHistoryReplies` | `Restart` |

`Emit`, `Receipt` and the outcomes of `Send` and `Return` are the paired computer, which is
outside the repository: it accepts a frame or refuses it with an error, or never gets it, it
accepts an input once per key, answers it with one result and replays its
events after a reconnect. A restored route and its mark are set in one step. Frames are
whole values; the external history is a write that can fail. The ghosts are `dispatched`,
`shown` and `spoken`. Of the request methods only the tracked tasks are modelled
(`question.answer` and local-only requests are not).

### ScheduleRunner

Time is counted in ticks. A wall-clock cadence is the set of its true instants, a time
zone an offset, and jitter a constant of the cadence that can be negative; an interval
counts from its anchor and a one-off is an absolute instant. `NextRun` is
`NextRunForDevice` over that data, `DejitterAnchor` the function of that name.

| code | action |
|---|---|
| `Runner.tick` | `TickLoad`, `TickZone`, `Reanchor`, `Consider` |
| `fire` | `Send`, `Record`, `Report` |
| `RunNow` | `RunNow`, `RunSend`, `RunRecord` |
| `Store.mutate` | `Mutate`: one row if it still exists, in a write that may fail |
| `ReplaceSchedules`, `carryLocalBookkeeping`, `SyncSchedules` | `MqttSync`, `Carried`, `Replace`, `Seed` |
| `SetTimezone`, `resyncSchedulesForTimezone` | `ZoneSet`, `ZoneLoad`, then `Replace` and `Seed` |

At most one manual run and one goroutine of `timezone.set` run at a time. The gateway is
busy while somebody's turn is open. The ghosts are `fired` and `acked`, which also counts how
often a task was deleted (`gone`). Two assumptions restrict the constants: `PaceAssumption`
(an interval is positive and jitter no more than a window early, as `spec.go` floors them) and
`ListsAssumption` (a row of a list that arrives carries no bookkeeping of its own).

### VoiceLifecycle and MicSwitch

| code | action |
|---|---|
| `VoiceService.start`, `_start_locked` | `RequestStart`, `StartLocked`, `StillStopping` |
| `stop` and its teardown thread | `RequestStop`, `TeardownEnds`, `LoopExits`, `RealtimeStopped` |
| `_resume_after_teardown` | `Resume`, `Current` |
| `mute_mic`, `unmute_mic` | `Mute`, `Unmute` / `UnmuteCheck`, `UnmuteLive` |
| `_finalize_sleepy_peripherals`, `_wake_sleepy_peripherals` | `Sleep`, `Wake` / `Doze`, `WakeUp`, `WakeMic` |
| `scene.py`, `speaker.py` (enrollment), `audio_route.py` | `Scene`, `Enroll`, `Reroute` / `Recorded`, `EnrollRestart` |
| `start_voice_service` | `Gate` |
| `PrivacySwitch`: edges, settle timer, watchdog | `Flip`, `Reconcile` / `Lock`, `SwitchMutes`, `SwitchOpens`, `Applied` |
| boot: `privacy.prepare`, autostart, first read of the pin | `Restart` / `Autostart`, `FirstSync`, `Ready` |

A handler is the list of the steps it still has to do (`todo`); the steps of different
threads interleave, as in the code, which has no common lock for them. `asked` is a ghost,
and `tangled` remembers that two handlers overlapped.

### SpeechQueue

| code | action |
|---|---|
| the gates before any lock, `_optional_speech_blocked` | `Arrive` |
| `speak_queue` | `Admit`, `Preempt`, `Take`, `AppendItem`, `GiveUp`; `Superseded`, `CounterRestarted` |
| `speak`, `speak_cached`, `native_play_begin` | `TryLock`, `Busy`, `WaitLock`, `ClaimRefused`, `Claim` |
| `_begin_playback` | `Begin` |
| `_speak_stream`, `_drain_pending_queue` | `HeadEnds`, `DrainLooks`, `DrainPops`, `FirstFrame`, `NoFrame`, `SegmentEnds`, `StreamFails` |
| `native_play_end`, `_release_or_drain_live_queue` | `Finish`, `Release`, `LeaveNative` (native mode ends after the lock is given up outside LIVE) |
| `stop` | `StopLive`, `StopPlain` and `ClearPending`; `AskStop`, `Hush`, `Stop` |
| `_live_stop_output`, `stop_realtime_reply` | `StopLiveOutput`, `RejectReply` |
| `begin_input_capture`, `end_input_capture` | `BeginCapture`, `EndCapture` |

`pc[r]` is where the thread of a call, and then the worker that it starts, has got to; only
what the code does under one lock is one step. Audio is a first frame that comes or does
not. `heard`, the turn that last spoke, is a ghost. `TurnConstants` says that only calls of
`/voice/speak-queue` carry the number of a turn, and that they play no realtime reply
(`hal/routes/voice.py`).

### Peripherals

| code | action |
|---|---|
| `/speaker/mute`, `/speaker/unmute`, `/camera/disable`, `/camera/enable` | `MuteSpeaker`, `UnmuteSpeaker`, `DisableCamera`, `EnableCamera` |
| `/emotion`, sleep and wake | `FeelAwake`, `FeelSleepy`, `DozeCamera`, `DozeSpeaker`, `Wake`, `EmotionCamera` |
| `/scene`, `/scene/off` | `ActivateScene`, `SceneCamera`, `SceneSpeaker`, `SceneUnmutes`, `SceneOff`, `LeaveScene`, `RestoreScene` |
| the drains | `DrainPasses`, `DrainCommits` |
| `privacy.apply`, the switch's thread | `Lock`, `Unlock`, `Flip`, `SwitchLocks`, `SwitchWakes`, `SwitchUnlocks` |
| enrollment, `/camera/snapshot` | `Enroll`, `EnrollEnds`, `Snapshot`, `SnapshotOpens`, `SnapshotEnds` |
| `_persist_speaker_state`, `_persist_camera_state` | `SaveSpeaker`, `SaveBoth` |
| start of the HAL | `Restart`, `FirstSync`, `SceneReturns` |

What runs under `privacy.lock` is one step. One `/emotion` and one `/scene` handler run at a
time beside the switch. `wants` is a ghost for what the user asked; `tangled`
and `torn` mark the overlaps that are known to lose it (an enrollment, a snapshot).

### RealtimeSession and RealtimeTurn

| code | action |
|---|---|
| `_make_agent`, `VoiceAgentBase.connect`, `disconnect` | `New`, `Transports` |
| the receive loop of `gemini_live.py`, `_ensure_connected` | `Lose`, `Heal` |
| `available`, `_validate_audio_turn` | `Available`, `Valid` |
| `_begin_rebuild`, `_rebuild_locked`, `_disconnect_in_background` | `Begin`, then `Publish` or `RebuildFails`; `Replaced` |
| `start`, `stop`, `_connect_retry_loop` | `StartMakes`, `StartConnects`; `StopTakes`, `StopCloses`; `RetryTries`, `RetryEnds` |
| `_maybe_park_idle_session`, `_park_idle_session` | `ParkDecides`; `ParkBegins`, `ParkCloses` |
| `prepare_turn` | `MarkTurn`, `StopAnnouncement`, then `PrepareSession`, `Join` |
| `_stream_session`: frames, `start_realtime_turn`, end, late flush | `Hear`, `Upload`, `Ends`, `Finish` |
| `run_realtime_turn` | `Run`, `Drop` (`discard_open_activity`: `DropNoise`), `Delegate` (an active harness follow-up), `FallBack` |
| `_commit_turn_output`, `recover_session` | `Commit`, `Replay` |
| the end of `stream_output` | `Reply`, `Recycle` |
| `prepare_announcement` | `AnnounceBegins`, `AnnounceReplaces` |
| `announce` | `AnnounceRegisters`, `AnnounceSpeaks`, `AnnounceEnds`, `AnnounceStops` |

An agent is a number that is used again once nobody refers to it; `loops` are the agents
whose threads run, `up` those that are connected, and `gen` numbers the transports of an
agent, which is the identity that a binding pins. Audio is a set of pairs of a turn and a
frame: `activity[k]` is what agent `k` has heard since its last commit. Times are choices:
a session is found idle, the mark of a turn too old to count, a turn cap reached or a reply
silent whenever the code could find it so, and OS has a turn delegated whenever it could.
`committed` and `spoilt` are ghosts: what went to the model last, and the turns whose audio
the code left in a session it kept (a rebuild that failed, a turn delegated for a harness
follow-up). The model is of a device that listens
always, with Gemini and manual activity; `Endings` says how captures can end, so that the
run of the limit and the run of everything else ask different questions.

## 3. Runs

Every `pass` run is exhaustive over its instance. The bounds are the constants of the cfg
files; no cfg replaces a definition of the modules and no symmetry or state constraint is
used. `CHECK_DEADLOCK FALSE` is used where the budgets run out and a robot with nothing to
do is at rest; `result_store` never stops, and `speech_queue` stutters once every call has
ended, so that there a deadlock would be a real one.

| run | question | instance |
|---|---|---|
| `result_store` | do groups complete whole, is speech granted once, do identities stay unique over tasks, questions and answers, does nothing regress, and is it the outbox? | 2 keys, 2 deliveries, a group and a single frame that names its run, a question; failed writes and crashes |
| `harness_single` | is one result shown once, spoken once to a live listener, after a reservation, with the cursor behind the inbox, and published in the end? | 1 key, 2 failed writes, 2 restarts, 3 listeners, a late key; with fairness |
| `harness_group` | is a group of two turns spoken as a whole? | 2 keys and runs answered together or the first alone, 1 restart, 2 listeners |
| `schedule_quiet` | without later syncs: fired once, next run only forward | 2 ids, a wall-clock cadence with negative jitter, an interval with a connector; Run now, a failed send, a failed write |
| `schedule_sync` | under two syncs: fired once, failures acked once, and is a due row resolved? | 1 id, two cadences and a disabled row, two failed sends, a restart, a failed write; with fairness |
| `schedule_zones` | fired once under two zone changes | wall-clock and one-off rows, a user who is busy |
| `mic_switch` | one capture, last request wins, the pipeline follows the mute, the pin is followed, no start is lost | 2 threads with 2 requests, 1 flip, 1 restart; a switch that locks; with fairness |
| `speech_queue` | one voice, newest turn wins, is the queue drained in the end? | 2 numbered turns with the same number and a later stamp, a cached cue, a native voice; both modes; 1 event; with fairness |
| `peripherals` | does the switch, sleep or a scene ever lose the user's choice, or open a locked camera? | a scene that closes and one that opens; 6 events |
| `realtime` | is a session ever left open, or down with nobody to bring it back, a turn committed with a hole or with another's audio, an announcement spoken over the user? | 3 agents, 2 captures of 2 frames that end in speech or noise, 2 of: outage, lost transport, stop, announcement |

Two more runs, each expected to find a violation, are listed under *Findings*.

**Why these bounds.** The uniqueness scans, groups and routes relate two records at a time,
so two keys, runs and deliveries reach every branch; a third adds only a bystander. A
restart can interrupt the delivery of a result, and a second one the delivery that the
first made necessary; a third finds the state the second left. A claim is followed by at
most one write, so two faults fail every pair of consecutive writes. `RecordLimit` is 2:
the maps are full in some states of the runs. For schedules `Window` is one tick, so that
an occurrence is due, retried once and then stale within `MaxTime`; the budgets bound each
kind of disturbance separately and are named in `MCScheduleRunner`. In `mic_switch` two
requests, a flip and a restart put three handlers and a boot sequence beside one another;
`MaxRevision` 12 is never reached. In `speech_queue` the four calls are one of each class;
the event is a stop, a hush, a capture, a rejected reply or a failed stream. Six events of
`peripherals` are enough to lock, ask, sleep, restart, unlock and wake. In `realtime` three
agents are a current one, one that is being replaced and one that connects; two captures
are one that leaves audio behind and one that could commit it; two frames put a loss
between them; and a budget of two is an outage or loss and what it meets.

**How the properties are worded.** `FiredOnce` allows a second message only for a restart,
failed write, sync or zone change that explains it (and `FailureAckedOnce` a second report
only for a failed write, a Run now, a zone change, which writes the list back as it was, or a
task that is deleted and created again), because the code sends before it records; the clock, jitter, retries, deferrals and Run now must add nothing. `SpeechIsLive`
is an action property of the submission to HAL: it compares the destination in the ledger
with the generations of the listener since the worker took the result up, since the peer
can leave after the last comparison the code can make. `PipelineMatchesMute`
leaves out `tangled` runs: two handlers that overlap really can leave a
muted flag and a running pipeline, since each reads and writes flags and pipeline in
separate steps; what remains is any *sequence* of handlers through teardowns, lost edges
and restarts. Its second half says that a locked switch keeps the pipeline down whatever
the flag says. `SpeakerChoiceKept` leaves out requests that meet an enrollment and crashes
in the middle of a wake, `CameraFollowsFlag` snapshots during which the camera changed
hands. `QueueIsDrained` leaves out a refused claim. `DownIsRepaired` leaves out a parked
session, which the next turn resumes, and the one that was thrown away because it was
contaminated and could not be replaced. `BoundTurnIsWhole` and `OnlyOwnAudio` leave out turns
whose audio the code left in a session it kept (`spoilt`: a failed rebuild, a harness
follow-up), and the former speaks of bound commits only: a capture that begins while no session is there, and is not deferred,
streams its tail unbound. All of those are described in section 4 or 6.

**Fairness.** `HarnessDelivery`: the watcher goroutine runs every 30 seconds and at every
event, and the calls of the worker return: its request to HAL has a deadline and a file
write succeeds or fails; so capture, apply, pick and each step of the worker are weakly fair. The
computer is assumed to stay paired, answer `receipt.get` and replay its events. Nothing is
assumed of request handlers, the listener, or the clock. `ScheduleRunner`: the ticker's
loop goes on, a sync that has begun finishes, and a turn of the gateway ends (runtimes time
out). Nothing is assumed of the clock, the user or the backend. `MicSwitch`: a handler that
has begun goes on, a capture loop leaves once it sees `_running` cleared, the waits of the
teardown are bounded, and the watchdog polls; nothing is assumed of people.
`SpeechQueue`: a call and a worker run to their end, because every wait (for the lock, for
a frame) has a timeout, and `stop()` finishes; nothing is assumed of who speaks or stops.

## 4. Findings

Each run checks one sentence of a document or comment and finds an interleaving that
breaks it. `PROJECT.json` has the quotations.

| run | sentence | what happens |
|---|---|---|
| `mic_route` | the physical switch beats software (`hal/routes/voice.py:572`) | a change of the audio route restarts the pipeline past the gate, so it listens with the switch muted |
| `realtime_limit` | reaching the limit of a hands-free capture discards the unfinished request (`docs/realtime-voice.md:726`, the log line at `hal/drivers/voice/voice_service.py:3342`) | `discard_open_activity()` is called without its required argument and raises, so the request's audio stays in the open activity and is committed with the next turn; the unit test replaces the orchestrator by a mock |

More disagreements of the same kind, which the models show or which were met while reading
them, and which no run asks about:

* Rejecting one realtime reply drops the reply behind it: the drain has popped the next item
  while the playback's owner is still the rejected one (`hal/drivers/voice/tts/service.py:856`
  and `1406`, against `843`: a rejection of one turn preserves the others).
* A disable of a camera that is off already returns before it sets the manual override, and
  the next emotion switches it on (`hal/routes/camera.py:82`, against `74`).
* A harness retry that is refused drops the live route of the first attempt, and its result
  comes back silent, as if after a restart (`docs/harness.md:398`).
* A `schedule.sync` between the read and the write of a zone change: deleted rows return
  (against `schedule_sync_handler.go:45`, only `schedule.sync` changes the set of ids).
* A sync in the retry window moves the next run past a failed occurrence (against
  `runner.go:383-389`, a failure does not burn it).
* Ticker and Run now both see an idle gateway and both start a turn (against
  `runner.go:420-422`).
* Two dispatches that name one run share its route, and the first is then sent unreserved;
  a Run now that succeeds between two retries makes the next failure be reported again; the
  ticker, firing a row that a sync has just changed, stores the next run of the old cadence.
* After a restart of the counter, a late post of an old turn whose number is above the new
  count takes the speaker as the newest (turns 5, then 3 after the restart, then a late 4),
  against `tts/service.py:1205` (a delayed POST from an older turn is dropped). Once that has
  happened the newest turn of the old counter is the measure, and turns of the new counter can
  be heard out of order too. Section 5 says what this does to the proof.
* Outside LIVE mode, text that is queued behind a cached or native worker, or after a
  worker's last look, has no worker (against `tts/service.py:1180-1183`); the next speech
  plays it.
* *Realtime* (lines of `hal/realtime/orchestrator.py` unless named):
  - `start` takes no lock, although line 491 says that start and stop are serialized with
    swaps: a stop that overtakes a slow first connect leaves a live session in a stopped
    orchestrator, and a rebuild begun before a stop and a start replaces the agent that the
    start is connecting. Parking that meets a stop sets `_idle_parked` after it, and a later
    start whose connect fails then counts as available and starts no retry loop.
  - A capture that begins while the session is unavailable and not being rebuilt is not
    deferred (`voice_service.py:2849`); if the session comes back meanwhile, only its tail
    is streamed, unbound, and committed, against the docstring of `bind_audio_turn` (1218).
  - A rebuild that fails during a bound capture keeps the old session, and its binding
    validates again although frames were withheld in between: the commit has a hole.
  - A turn with a transcript that is delegated because OS waits for the answer to a harness
    question (`realtime_turn.py:568-570`) returns before the noise and availability checks and
    discards nothing: the audio it has streamed stays in the open activity and is committed
    with the next turn, which is what the docstring of `discard_open_activity` (800-803) says
    a dropped turn must not do. `Delegate` models it; `OnlyOwnAudio` and its theorem except
    such turns, and without that exception TLC finds their audio in the next commit.
  - The replacement of a contaminated session that cannot connect leaves no agent, and
    nothing tries again until a turn that follows a long silence (720-724).
  - The end of an announcement clears the mark of a user's turn that has begun meanwhile
    (1591), so that the watchdog may park under it.
  - The consumer of an announcement stops iterating when it is preempted, which closes the
    generator before it drains, against the docstring of `announce` (1718).
  - A parked session counts as available, so an unbound commit into it waits for the
    receive timeout.

## 5. Proofs

### The result store

`ResultStoreProofs` proves, over the lemmas of `ResultLedgerProofs`, for every set of keys, runs, agents,
deliveries, results, questions and frames and every record limit:

* `TypeCorrect`: `Spec => []TypeOK`.
* `LedgerCorrect`: `Spec => []LedgerConsistent`. Both copies satisfy `Consistent`: unique
  runs and deliveries across inputs and answers, completion atomic, questions linked, one
  listener for speech, answers and receipts in step.
* `FileNeverBehind`: the file always extends memory.
* `LedgerAppendOnly`: `Spec => NeverRegresses`, which is about memory, what the process acts
  on and tells its callers. The file alone may step back: a write that was renamed but
  reported as failed is replaced by the next one, which starts from memory.
* `SpeechAtMostOnce`: `Spec => []SpeechGrantedOnce`.
* `FileWithinOneStep`: while the process runs, the file is at most one step of the outbox
  ahead of memory.
* `StoreImplementsOutbox`: `Spec => ImplementsOutbox`, the refinement.

**Assumptions.** Those of `ResultLedger`, which TLC evaluates in every run of it: a frame
has a nonempty set of members with distinct deliveries (what `ParseSummaryResult` accepts),
`RecordLimit` is a number, and `None` is no other value. Nothing is assumed of finiteness.

**Argument.** Every action either leaves both copies alone, or computes a new ledger `e`
from `mem` (or from `disk`, on reopening) and leaves each copy as it was or equal to `e`
(`StepShape`). So whatever a ledger operator preserves is preserved by both copies, and
each conjunct of `Consistent` is proved once per method and not once per failure.
`Consistent` is inductive only as a whole: `CompletionAtomic` rests on the uniqueness of
deliveries and on the frames assumption, `SpeechHasOneListener` on `CompletionAtomic`.
`NeverRegresses` is not inductive: a failed write leaves the file ahead, and a restart
installs the file. The missing fact is `FileAhead`, that the file extends memory, and
`Extends` is reflexive and transitive on typed ledgers. `SpeechGrantedOnce` is strengthened
to: what was granted was granted once and is past pending in *both* copies; that rests on
`FileAhead` in turn.

The refinement maps the outbox to the ledger that counts: memory while the process runs,
the file while it does not. `Advances(d, e)` compares two ledgers through that mapping, and
every method advances the ledger it starts from. The hard step is `Crash`, which changes no
ledger but makes the file the one that counts: writes that reported an error must not have
piled up in it. They cannot, since a later method starts from memory and its write replaces
the file (`FileOneStepAhead`). Reopening is the restart of the outbox, whether or not its
own save succeeds.

### Result delivery

`HarnessDeliveryProofs` proves, for every set of keys, runs, deliveries and results, every
number of listeners, faults and restarts: `TypeOKKept`, `ShownOnceAlways`,
`SpeechIsLiveAlways` and, where no two dispatches name the same run (`OneRunEach`),
`WrittenFirstAlways`.

**Assumptions.** `DispatchAssumption` (a dispatch has one run and one delivery, and an outcome
names the deliveries of its members), `BoundsAssumption` (the bounds are numbers) and
`RouteAssumption` (`None` is no route), next to those of the ledger. `OneRunEach` is a
hypothesis of the last theorem only and not an assumption of the model: two dispatches of one
run do exist in the code, and then the first is sent unreserved (section 4).

**Argument.** A step of the delivery makes at most one write, and a write is a method of the
ledger, so `ResultLedgerProofs` gives the types. `DeliveryInv` adds that a result is recorded
only with its tasks (`Whole`) and that what the worker has in hand is a result of the ledger,
its grant in the file (`Working`). `SpeechInv` follows a result through the worker: shown and
not yet published means that its worker is about to publish it (`Displayed`), nothing is said
before the claim nor by a worker that has not submitted (`Unspoken`), a route that was not
restored is of a dispatch of this process (`Registered`), and a worker that submits speaks to
a listener who has been there since it took the result up (`Addressed`). `SpeechIsLive` is an
action property and follows from the invariant before the step. `WrittenInv` follows the
reservation instead: a route leads to the key it was registered for (`Routed`), and a request
has its route until it has its reservation, and is past it only with it (`Reserving`). With two
keys of one run the second registration takes the route over, which is where `OneRunEach` is
needed.

### Schedules

`ScheduleRunnerProofs` proves, for every set of tasks, cadences, lists and zones, every window,
horizon and budget: `TypeOKKept`, `FailureAckedOnceAlways` and `FiredOnceAlways`; and, for a
device whose list arrives once and whose zone stays (`Budget["sync"] <= 1`,
`Budget["zone"] = 0`), `NextOnlyForwardAlways`. A second list or another zone is *meant* to
move a task back.

Both properties that count are proved as accounts. `AckInv`: what is known of a failed
occurrence is in its row; `Spare` counts the losses of memory that were paid for and not yet
used (a zone change or a Run now that is still on its way will overwrite the row once), and
each of the places where the next report may come from (the row, the ticker's snapshot, a row
that was deleted under it, a report that is due) has its own conjunct. `FireInv`: a *pass* is a
sequence of ever later occurrences of a task. The next run of the row is where one pass
stands, a snapshot that has parted from its row is another, and a sync that has not written
yet is one to come; what was sent of an occurrence, and the passes that still have it ahead
(`Can`), never exceed what was spent. The step of the ticker that needs `PaceAssumption` is
the next run after a message: it is later than the occurrence, even with the earliest jitter,
because `DejitterAnchor` undoes the jitter first. A manual cadence and a one-off have no next
run. `ForwardInv` says that a row the ticker has taken up stays where it is until it is served
(`InPlace`), so that what the ticker computes from its snapshot is after what the row says.

### The voice pipeline

`MicSwitchProofs` proves, for every set of callers, every budget and every `MaxRevision`,
for devices whose switch locks peripherals and for those where it does not:
`OneCaptureAlways`, `LastRequestWinsAlways`, `TypeOKKept` and `PipelineMatchesMuteAlways`. A first lemma, `HandlersOnlyRequest`, shows that every step
of a handler, of the switch and of a boot is, for the pipeline, a start, a stop, a step of a
worker, a restart or nothing; so the rest of the proof is about `VoiceLifecycle` alone.
Neither of the first two is inductive. The invariant `LifecycleInv` adds: `thread` knows of the
loop that is counted (`LoopCounted`), a running pipeline owns it (`RunningOwnsLoop`), a
worker's revision is not in the future (`WorkersAreOld`), and a worker that is still current
belongs to a start and finds the pipeline down (`CurrentWorkerWaits`): that is what makes it
safe for `Resume` to start without a second look.

The types are those of `TypeInv`: a step that can skip the step after it (the gate of a start,
the restart of an enrollment) is never the last of its list (`Paired`).

`PipelineMatchesMute` speaks of a moment when all handlers are done, so its invariant has to
say where the handler at work is heading. `PlanOK`: while no two handlers overlapped, at most
one has steps left (`Alone`); what those steps will ask the pipeline for matches the mute they
will leave behind (`WillMatch`), and with a closed switch that locks, the mute and the lock are
there or still ahead, and nothing ahead opens the microphone (`WillShut`). Each entry of a
handler (a mute, a scene, an edge of the switch, a boot) establishes it for its whole list of
steps, each step preserves it. `StartKept` ties it to the pipeline: a start that was asked for
last runs or has a current worker.

### Speaker and camera

`PeripheralsProofs` proves, for every set of scenes, every switch that locks one or both,
and every `MaxEvents`: `TypeOKKept`, `WakeIsFinalAlways`, `LockedCameraIsOffAlways`,
`CameraFollowsFlagAlways`, `CameraChoiceKeptAlways` and `SpeakerChoiceKeptAlways`. The types hold only together with
`BeforeTypes`: a preference is laid aside exactly while its lock is in force, or an unlock
would have nothing to give back. The properties of the camera are proved together from
`CameraBody` (what the loop does: a locked camera is off, an unlocked one that is settled
follows its flag) and `CameraWord` (what the flags remember: the choice is in force or laid
aside, and the file holds it), with `OpenedWasOff` for a snapshot under way and
`SyncIsLocked` for the boot, during which the switch counts as muted.

The speaker has four owners, so `SpeakerChoiceKept` needs what the mute is *beneath* them:
`Beneath` looks under the switch, then under an enrollment. `SpeakerBody` says that a lock and
an enrollment do mute and that the file holds `Beneath` unless sleep itself muted;
`SpeakerWord` that this is the last word on the speaker, or that a handler which is leaving a
scene is about to restore it (`RestorePending`). `SleepSaved` says that a sleeping device would
come back from a restart with the mute of its sleep, and `SyncAlone` that nobody enrolls before
the first read of the pin. It rests on `WakeIsFinal`: a drain of an old sleep would mute
beneath everything.

### The realtime session

`RealtimeProofs` proves, for every finite set of agents, every way captures may end and every
number of captures, frames and disturbances: `TypeOKKept`, `SessionsOwnedAlways`,
`DownIsRepairedAlways`, `UserPreemptsAlways`, `BoundTurnIsWholeAlways` and, for devices on which
no capture runs into its limit (`"limit" \notin Endings`), `OnlyOwnAudioAlways`; run
`realtime_limit` shows that the last assumption is needed, and the property itself excepts the
`spoilt` turns. The types are proved in the parts
`Flags`, `Names`, `Transported`, `Captured` and `Remembered`: what an activity holds and a
commit sends are frames of captures that were opened.

`SessionsOwned` and `DownIsRepaired` are proved together, as parts of the inductive invariant `SessionInv`; a
capture and the announcer can only take a reservation, mark or stream, which `QuietStep` says is
harmless. The strengthening is who owns an agent. While a rebuild runs, the current agent is
the one it replaces or none (`RebuildShape`), so what it publishes or discards is nobody
else's. A stop and a start own the agent they work on, one at a time, and no discard runs
while a start connects (`Owners`): only an agent with loops can be contaminated or hold
audio, and that of a start has none yet (`Shapes`). Without that, a discard could take away
the agent that a start is about to connect, and leave it open.

`UserPreempts` follows from `TurnInv`. From the mark of a capture on, a turn is in flight
whenever an announcement is under way that does not speak yet (`Marked`), and one that
checks or speaks has registered its event (`Armed`); so whichever of the two comes second
sees the other. `WaitsForIt` and `Standing` say that a thread that waits for its rebuild does
nothing else meanwhile, and that captures that have not begun have no thread.

`BoundTurnIsWhole` and `OnlyOwnAudio` are about what is committed, so each needs an invariant
about the open activity before the commit, and both rest on `SessionInv`.

`WholeInv` follows a turn that is *pinned*: the transport it was bound to is still the current
one. While its capture is open, the activity holds all that was recorded, unless a replacement
is under way, during which frames are kept and not streamed. The replacement ends in one of two
ways: it unpins the turn, or it fails and puts the turn into `spoilt`, because the first frame is
in the activity already. A reconnect unpins too: a generation that was bound is never counted
again (`Pins`), since an agent somebody is bound to is not used for a new session. A bound turn
that is no longer pinned is replayed from the recording. The hard step is `Hear`: an agent that is
pinned and not being replaced must be `Available`, which is where `Owners` is needed.

`Clean` says that whenever somebody may commit (the turn is at its commit, or no replacement is
under way) everything in the activity is the open capture's own or of a spoilt turn. A capture
that ends without a commit leaves audio behind only together with the replacement that discards
it (`CleanDrop`), and one that is delegated for a harness follow-up becomes `spoilt`
(`CleanDelegate`).

### The speech queue

`SpeechQueueProofs` proves, for any calls of any kind and class in any mode: `OneVoiceAlways`,
`TypeOKKept` and, in every run in which no turn of an earlier counter is accepted late
(`NotLate`), `TurnsInOrderAlways`.

For `OneVoice` every step is one of four: it takes a free speaker, gives it back, moves a call
without changing whether that call has the speaker, or touches neither; with that it is
inductive.

The types say that a call is in the queue at most once, and not both in it and taken out of it;
that holds because a queued call has left its admission (`Parked`), so that it cannot be
appended again, and because who waits for a first frame has an item (`Popped`). A stop filters
the queue. What the filter `Kept` leaves is a fact about a recursive function over a sequence
of any length, which the library's induction theorems cannot be instantiated for; `KeptIsQueued`
proves it by the least length at which it would fail, with the well-foundedness of the numbers.

Stamps order the turns where the numbers of two counters do not: a turn is not after another if
its stamp is not later. `OrderInv` says that the turn that was heard is not after the latest;
that the items of the queue are of one turn, which is between the two, and is the latest unless
a preemption is under way (`QueueInOrder`), the same of an item that was taken out
(`ActiveInOrder`); that whoever is admitted with a number holds the request lock and is the
latest (`AdmittedIsLatest`), so that nobody else preempts or parks meanwhile; and that an item
that was taken out is held by the worker that waits for it (`ActiveIsHeld`), so that nobody
else begins to speak.

That the latest turn never steps back in that order has two halves. A turn that is accepted for
a restart of the counter is stamped later, which is what `_counter_restarted` asks of it. A turn
that is accepted for its higher number need not be: nothing in the code looks at its stamp.
`NotLate` is the hypothesis that it is not stamped before the turn it succeeds, over the steps of
a run and not over the constants: any turns may be posted, in any order, over any number of
restarts (4 and 5 of one counter in either order, then 1 of the next), and what is late and
refused does no harm. Where it fails the property can fail with it, as
section 4 says: that is the code, not the proof.

**Left to TLC.** All liveness: `ResultPublished`, `DueIsResolved`, `StartIsHonoured`,
`PinFollowed` and `QueueIsDrained`, as fairness and `ENABLED` are beyond the prover; and the two
violations of section 4. Every invariant and every safety property of a passing run is
proved, three under a stated hypothesis (`OneRunEach`, one list and one zone, `NotLate`)
and one for the devices of its run (`Endings`).

## 6. What is not modelled

* In `HarnessDelivery`: `question.answer` and its questions, local-only routes, the legacy
  single-task summary, progress events, and the retention of old marks beyond 15 minutes.
  `Service.Request` is a step that is refused, sent or left unknown. The second
  look at the route (`CheckRoute`) is modelled, but no property breaks without it: it keeps a
  request whose route is gone from being sent and its result from coming back silent.
* In `ScheduleRunner`: the arithmetic of calendars and `EndAt` (a cadence is its set of
  instants), errors of *reading* the file, the digest and the intents of offline edits.
* In `MicSwitch`: what the pipeline does while it runs (voice activity, wake word,
  transcription, sessions); an enrollment that fails to restart it.
* In `SpeechQueue`: synthesis, resampling, chimes and the prerender of phrases. The retries of
  `_speak_sync` are one failure, of which there are at most `MaxEvents`. A request waits for the lock at most two seconds in the code; here it may give up
  whenever the lock is held.
* In `Peripherals`: a camera whose stop fails, LEDs, servos, dimming, and the microphone,
  which is `MicSwitch`.
* In `RealtimeSession` and `RealtimeTurn`: wake words and follow-up windows (the model listens
  always), LIVE mode, manual and harness-only captures, tool calls and look frames, prewarm, a
  change of voice, the other providers, the retry of a turn that stays silent, history and
  context files. A start that overlaps a stop, and a start that meets a rebuild begun before
  the stop, are excluded (section 4 says what happens). There is no clock: the watchdog may find
  the mark of a turn older than `TURN_IN_FLIGHT_MAX_S` at any time, the announcer takes every
  mark for a recent one. The replaced agent is closed in the
  step that publishes the new one, and a preempted announcement drains within its bound.
* Whole components: see the table above and `PROJECT.json`. Runtimes, sensing, motion, web
  UI and skills are clients, filters or drivers with little protocol state of their own; they
  appear as the environment (a gateway that is busy, accepts or fails; a computer that
  answers; an agent that posts its turns late).

Hazards that were met and that no module decides:

* *Harness*: a run shared by two dispatches; marks purged after 15 minutes; inputs that are
  never pruned, so that the 4097th is refused; only the first eight candidates asked for
  their receipts; the status a Run now leaves; a crash in a sync before the next runs.
* *Microphone*: the end of an enrollment restarts the pipeline although it was muted
  meanwhile; a mute during sleep is lost at the wake; a crash between the two writes of
  sleep; an exception of `apply` is only logged; the autostart before the first read of the
  pin; a scene on a device whose switch only mutes.
* *Speech*: `_live_stop_output` reads what plays and stops what plays later; a request gives
  up after two seconds; `native_play_end` may release twice; mute and the mark of a stopped
  turn are read before the lock.
* *Handlers left out of the list for room*: a refused harness retry; a sync inside the retry
  window; ticker and Run now at an idle gateway; a schedule file that cannot be read; an
  unmute beside the switch; a snapshot that closes a camera enabled meanwhile; unlocking in
  two steps (`CameraFollowsFlag` covers it).
* *Peripherals*: an enrollment's own mute taken aside by the switch; a drain past its last
  look; a restart in the middle of a wake.

## 7. Plan

The first six blocks are done.

1. `ResultLedger`, `ResultStore`, `ResultOutbox`, `ResultLedgerProofs`, `ResultStoreProofs`.
2. `HarnessDelivery` over the ledger, `HarnessDeliveryProofs`; `ScheduleRunner`,
   `ScheduleRunnerProofs`.
3. `VoiceLifecycle`, `MicSwitch`, `MicSwitchProofs`.
4. `SpeechQueue`, `SpeechQueueProofs`.
5. `Peripherals`, `PeripheralsProofs`.
6. `RealtimeSession`, `RealtimeTurn`, `RealtimeProofs`.
7. `HarnessLink`: pairing attempts, provisional peers, connection generations, pending
   requests (at most 64), unpairing and revocation; an abstract specification of a request
   that is answered, refused or unknown, which is what `HarnessDelivery` uses.
8. `HarnessVoice`: mode, focus, gestures, one pending prompt and its receipt; the source of
   the listener generation.
9. `ScheduleIntents`: offline edits, replay on every reconnect, the verdict of the backend
   and the digest; composed with the store of `ScheduleRunner`.
10. Answers and questions in `HarnessDelivery`; read errors in `ScheduleRunner`.
11. `ScheduleCalendar`: `NextRunForDevice` of a spec against a reference definition over a
    bounded calendar, jitter and end date included.
12. `OtaBootstrap`: three goroutines and the state file. Then agent turns, network recovery
    and buddy, as far as they keep protocol state.
13. Theorems: an abstract specification of delivery (a result is answered, shown, spoken or
    not, published) that `HarnessDelivery` implements step by step, and one of a speaker with a
    newest turn for `SpeechQueue`; the refinement of `VoiceLifecycle` to a switch that is on or
    off.
