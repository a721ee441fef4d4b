---------------------------- MODULE SpeechQueue ----------------------------
(***************************************************************************)
(* Who speaks, and when: the admission, queueing, interruption and release *)
(* of speech in hal/drivers/voice/tts/service.py.  One lock is the         *)
(* speaker.  A request takes it, or stops what may be stopped and waits for *)
(* it, or is parked in the pending queue that the playing worker drains    *)
(* before it lets go.  LIVE mode makes the release of the speaker and the  *)
(* admission to the queue atomic; outside LIVE they are not.               *)
(***************************************************************************)
EXTENDS Naturals, Sequences, SequencesExt

CONSTANTS
  Requests,   \* the calls of speak, speak_queue, speak_cached, native_play_begin
  Kind,       \* [Requests -> {"queue", "speak", "native"}]
  Class,      \* [Requests -> {"main", "filler", "reply"}]: agent reply,
              \* optional interruptible cue, realtime model's own reply
  Turn,       \* [Requests -> [seq, stamp]]: os-server's turn, seq 0 for none
  Cached,     \* the requests whose text is in the prerender cache
  Modes,      \* the values of LIVE_MODE that are considered
  MaxEvents   \* bound: stops, hushes, input captures and stream failures

NoOne == "none"
NoTurn == [seq |-> 0, stamp |-> 0]

ASSUME SpeechConstants ==
  /\ NoOne \notin Requests
  /\ Modes \subseteq BOOLEAN
  /\ MaxEvents \in Nat

(* Only /voice/speak-queue passes a number, and it plays no realtime reply. *)
ASSUME TurnConstants ==
  \A r \in Requests :
    /\ Turn[r] \in [seq : Nat, stamp : Nat]
    /\ Turn[r].seq > 0 => Kind[r] = "queue" /\ Class[r] # "reply"

VARIABLES
  live,        \* LIVE_MODE
  lock,        \* _lock is held
  speaking,    \* _speaking
  stopEvent,   \* _stop_event
  resume,      \* _resume_pending_after_stop
  intr,        \* _interruptible
  nativeMode,  \* _native_mode
  reply,       \* _realtime_reply
  owner,       \* _playback_owner: the request of the last _begin_playback
  pending,     \* _pending_queue
  active,      \* the item that was popped from it and not heard yet
  qlock,       \* the holder of _queue_request_lock
  latest,      \* _latest_queue_turn_seq and _latest_queue_turn_id
  capture,     \* _input_captures is not empty
  silenced,    \* requests of a muted speaker or of a turn the user stopped
  pc,          \* where each request, then the worker it starts, has got to
  stopper,     \* a thread in stop(): "idle", "stop" or "clear"
  events,      \* how many of the bounded events have happened
  refused,     \* the lock was given back by a claim that was refused
  heard        \* the numbered turn that last took the speaker

speaker == <<lock, speaking, stopEvent, resume, intr, nativeMode, reply, owner>>
queues  == <<pending, active, qlock, latest>>
setting == <<live, capture, silenced, stopper, events>>
ghosts  == <<refused, heard>>
vars    == <<speaker, queues, setting, ghosts, pc>>

Asking  == {"arrive", "admit", "preempt", "clearQueue", "take", "retake",
            "append", "try", "busy", "clear", "wait", "claim"}
Playing == {"head", "wav", "native", "drain", "pop", "frame", "segment",
            "finish", "release"}
Places  == Asking \cup Playing \cup {"leave", "done"}

TypeOK ==
  /\ live \in BOOLEAN /\ lock \in BOOLEAN /\ speaking \in BOOLEAN
  /\ stopEvent \in BOOLEAN /\ resume \in BOOLEAN /\ intr \in BOOLEAN
  /\ nativeMode \in BOOLEAN /\ reply \in BOOLEAN
  /\ owner \in Requests \cup {NoOne}
  /\ pending \in Seq(Requests) /\ IsInjective(pending)
  /\ active \in (Requests \cup {NoOne}) \ ToSet(pending)
  /\ qlock \in Requests \cup {NoOne}
  /\ latest \in {Turn[r] : r \in Requests} \cup {NoTurn}
  /\ capture \in BOOLEAN
  /\ silenced \subseteq Requests
  /\ pc \in [Requests -> Places]
  /\ stopper \in {"idle", "stop", "clear"}
  /\ events \in 0 .. MaxEvents
  /\ refused \in BOOLEAN
  /\ heard \in {Turn[r] : r \in Requests} \cup {NoTurn}

Init ==
  /\ live \in Modes
  /\ lock = FALSE /\ speaking = FALSE /\ stopEvent = FALSE /\ resume = FALSE
  /\ intr = FALSE /\ nativeMode = FALSE /\ reply = FALSE /\ owner = NoOne
  /\ pending = <<>> /\ active = NoOne /\ qlock = NoOne /\ latest = NoTurn
  /\ capture = FALSE /\ silenced = {}
  /\ pc = [r \in Requests |-> "arrive"]
  /\ stopper = "idle" /\ events = 0
  /\ refused = FALSE /\ heard = NoTurn

-----------------------------------------------------------------------------
(* The steps every thread is made of.                                      *)

Goto(r, at) == pc' = [pc EXCEPT ![r] = at]

CountEvent == events < MaxEvents /\ events' = events + 1

(* The call ends: accepted by a worker, parked, dropped or refused.        *)
Leave(r, at) == Goto(r, at) /\ qlock' = IF qlock = r THEN NoOne ELSE qlock

RealtimeSpeaking == speaking /\ (nativeMode \/ reply)

OptionalBlocked(r) == Class[r] = "filler" /\ capture

Voiced(r) == IF Turn[r].seq = 0 THEN heard ELSE Turn[r]

(* What a new list of the queue holds: the items of q that are in S, in    *)
(* their order.                                                            *)
Kept(q, S) ==
  LET upTo[n \in 0 .. Len(q)] ==
        IF n = 0 THEN <<>>
        ELSE IF q[n] \in S THEN Append(upTo[n - 1], q[n]) ELSE upTo[n - 1]
  IN upTo[Len(q)]

(* stop() in LIVE mode, which keeps the agent's items when asked to.       *)
StopLive(keep) ==
  LET kept == Kept(pending, {i \in Requests : keep /\ Class[i] = "main"})
  IN /\ pending' = kept
     /\ resume' = (keep /\ kept # <<>>)
     /\ stopEvent' = (stopEvent \/ speaking)

(* The first half of stop() outside LIVE; ClearPending is the second.      *)
StopPlain ==
  /\ stopEvent' = (stopEvent \/ speaking)
  /\ UNCHANGED <<pending, resume>>

StopAll == IF live THEN StopLive(FALSE) ELSE StopPlain

ClearPending ==
  /\ pending' = <<>>
  /\ UNCHANGED <<resume, stopEvent>>

(* A request becomes the speaker; the lock is already its own.             *)
Begin(r, at) ==
  /\ stopEvent' = FALSE
  /\ speaking' = TRUE
  /\ intr' = (Class[r] = "filler" \/ Kind[r] = "native")
  /\ reply' = (Class[r] = "reply" /\ Kind[r] # "native")
  /\ owner' = r
  /\ heard' = Voiced(r)
  /\ Leave(r, at)

-----------------------------------------------------------------------------
(* Requests: the gates and the queue lock.                                 *)

(* The checks before any lock: mute, a stopped turn, an open capture.      *)
Arrive(r) ==
  /\ pc[r] = "arrive"
  /\ Goto(r, IF r \in silenced \/ (Kind[r] = "speak" /\ OptionalBlocked(r))
             THEN "done"
             ELSE IF Kind[r] = "queue" THEN "admit" ELSE "try")
  /\ UNCHANGED <<speaker, queues, setting, ghosts>>

(* _counter_restarted: a number that is not higher, in a turn made later.  *)
CounterRestarted(t) ==
  /\ t.seq <= latest.seq
  /\ t.stamp # 0 /\ latest.stamp # 0
  /\ t.stamp > latest.stamp

(* Mutant: a turn with the same number is taken for the same turn. *)
SupersededLowerOnly(t) ==
  LET now == IF CounterRestarted(t) THEN NoTurn ELSE latest
  IN t.seq > 0 /\ t.seq < now.seq

(* A turn below the one that has the speaker, or one that shares its number. *)
Superseded(t) ==
  LET now == IF CounterRestarted(t) THEN NoTurn ELSE latest
  IN t.seq > 0 /\ (t.seq < now.seq \/ (t.seq = now.seq /\ t # now))

(* speak_queue under its request lock, up to the decision to preempt.      *)
Admit(r) ==
  LET t == Turn[r]
      newer == t.seq > 0 /\ (CounterRestarted(t) \/ t.seq > latest.seq)
      deferred == live /\ RealtimeSpeaking
  IN /\ pc[r] = "admit" /\ qlock = NoOne
     /\ IF Superseded(t)
        THEN Goto(r, "done") /\ UNCHANGED queues
        ELSE /\ qlock' = r
             /\ latest' = IF newer THEN t ELSE latest
             /\ Goto(r, IF newer /\ ~deferred /\ (speaking \/ pending # <<>>)
                        THEN "preempt" ELSE "take")
             /\ pending' = IF newer /\ deferred
                            THEN Kept(pending, {i \in Requests : Class[i] = "reply"})
                            ELSE pending
             /\ UNCHANGED active
     /\ UNCHANGED <<speaker, setting, ghosts>>

Preempt(r) ==
  /\ pc[r] = "preempt"
  /\ StopAll
  /\ Goto(r, IF live THEN "retake" ELSE "clearQueue")
  /\ UNCHANGED <<lock, speaking, intr, nativeMode, reply, owner, active, qlock,
                 latest, setting, refused, heard>>

ClearAfterStop(r) ==
  /\ pc[r] \in {"clearQueue", "clear"}
  /\ ClearPending
  /\ Goto(r, IF pc[r] = "clear" THEN "wait" ELSE "retake")
  /\ UNCHANGED <<lock, speaking, intr, nativeMode, reply, owner, active, qlock,
                 latest, setting, refused, heard>>

-----------------------------------------------------------------------------
(* Requests: the speaker.                                                  *)

(* speak_queue: a cached text of an idle speaker goes the way of           *)
(* speak_cached; else the speaker is taken, waited for after a preemption, *)
(* or found busy.                                                          *)
Take(r) ==
  /\ pc[r] \in {"take", "retake"}
  /\ \/ /\ ~speaking /\ r \in Cached
        /\ Goto(r, "try")
        /\ UNCHANGED <<speaker, queues, ghosts>>
     \/ /\ speaking \/ r \notin Cached
        /\ ~lock
        /\ lock' = TRUE
        /\ Begin(r, "head")
        /\ UNCHANGED <<resume, nativeMode, pending, active, latest, refused>>
     \/ /\ speaking \/ r \notin Cached
        /\ lock /\ pc[r] = "take"
        /\ Goto(r, "append")
        /\ UNCHANGED <<speaker, queues, ghosts>>
  /\ UNCHANGED setting

(* The two seconds for the lock are over.                                  *)
GiveUp(r) ==
  /\ \/ pc[r] = "retake" /\ (speaking \/ r \notin Cached)
     \/ pc[r] = "wait"
  /\ lock
  /\ Leave(r, "done")
  /\ UNCHANGED <<speaker, pending, active, latest, setting, ghosts>>

(* Parked; in LIVE mode a second try for the lock starts a drain.          *)
AppendItem(r) ==
  /\ pc[r] = "append"
  /\ pending' = Append(pending, r)
  /\ resume' = (resume \/ (live /\ stopEvent))
  /\ IF live /\ ~lock
     THEN /\ lock' = TRUE /\ stopEvent' = FALSE /\ speaking' = TRUE
          /\ Leave(r, "drain")
     ELSE UNCHANGED <<lock, stopEvent, speaking>> /\ Leave(r, "done")
  /\ UNCHANGED <<intr, nativeMode, reply, owner, active, latest, setting, refused,
                 heard>>

TryLock(r) ==
  /\ pc[r] = "try"
  /\ lock' = TRUE
  /\ Goto(r, IF lock THEN "busy" ELSE "claim")
  /\ UNCHANGED <<speaking, stopEvent, resume, intr, nativeMode, reply, owner, queues,
                 setting, ghosts>>

(* Only interruptible speech is stopped, and not a native stream by another. *)
Busy(r) ==
  /\ pc[r] = "busy"
  /\ IF intr /\ ~(Kind[r] = "native" /\ nativeMode)
     THEN /\ StopAll
          /\ Goto(r, IF live THEN "wait" ELSE "clear")
          /\ UNCHANGED qlock
     ELSE Leave(r, "done") /\ UNCHANGED <<stopEvent, resume, pending>>
  /\ UNCHANGED <<lock, speaking, intr, nativeMode, reply, owner, active, latest, setting,
                 refused, heard>>

WaitLock(r) ==
  /\ pc[r] = "wait"
  /\ ~lock
  /\ lock' = TRUE
  /\ Goto(r, "claim")
  /\ UNCHANGED <<speaking, stopEvent, resume, intr, nativeMode, reply, owner, queues,
                 setting, ghosts>>

(* _claim_speech, and the second look of native_play_begin, when they give *)
(* the lock back.                                                          *)
ClaimRefused(r) ==
  /\ pc[r] = "claim"
  /\ IF Kind[r] = "native" THEN r \in silenced ELSE OptionalBlocked(r)
  /\ lock' = FALSE
  /\ refused' = TRUE
  /\ Leave(r, "done")
  /\ UNCHANGED <<speaking, stopEvent, resume, intr, nativeMode, reply, owner, pending,
                 active, latest, setting, heard>>

Claim(r) ==
  /\ pc[r] = "claim"
  /\ ~IF Kind[r] = "native" THEN r \in silenced ELSE OptionalBlocked(r)
  /\ Begin(r, IF Kind[r] = "native" THEN "native"
              ELSE IF r \in Cached THEN "wav" ELSE "head")
  /\ nativeMode' = (nativeMode \/ Kind[r] = "native")
  /\ UNCHANGED <<lock, resume, pending, active, latest, setting, refused>>

Ask(r) ==
  \/ Arrive(r) \/ Admit(r) \/ Preempt(r) \/ ClearAfterStop(r) \/ Take(r) \/ GiveUp(r)
  \/ AppendItem(r) \/ TryLock(r) \/ Busy(r) \/ WaitLock(r) \/ ClaimRefused(r) \/ Claim(r)

-----------------------------------------------------------------------------
(* The worker that holds the speaker.                                      *)

(* The request's own utterance ends.  A cached file is followed by the     *)
(* queue in LIVE mode only, a native stream never.                         *)
HeadEnds(r) ==
  /\ pc[r] \in {"head", "wav", "native"}
  /\ Goto(r, IF pc[r] = "head" \/ (pc[r] = "wav" /\ live) THEN "drain" ELSE "finish")
  /\ UNCHANGED <<speaker, queues, setting, ghosts>>

(* The output stream cannot be opened or written.                          *)
StreamFails(r) ==
  /\ pc[r] \in {"head", "wav", "drain", "segment"}
  /\ CountEvent
  /\ Goto(r, "finish")
  /\ UNCHANGED <<speaker, queues, live, capture, silenced, stopper, ghosts>>

(* _drain_pending_queue looks at the stop event, then takes an item.       *)
DrainLooks(r) ==
  /\ pc[r] = "drain"
  /\ Goto(r, IF stopEvent THEN "finish" ELSE "pop")
  /\ UNCHANGED <<speaker, queues, setting, ghosts>>

(* Mutant: the item that is taken stays in the queue. *)
DrainPeeks(r) ==
  /\ pc[r] = "pop"
  /\ IF pending = <<>>
     THEN Goto(r, "finish") /\ UNCHANGED <<active, reply, intr>>
     ELSE LET i == Head(pending)
          IN /\ active' = i
             /\ IF live THEN reply' = (Class[i] = "reply") /\ intr' = (Class[i] = "filler")
                        ELSE UNCHANGED <<reply, intr>>
             /\ Goto(r, "frame")
  /\ UNCHANGED <<lock, speaking, stopEvent, resume, nativeMode, owner, pending, qlock, latest,
                 setting, ghosts>>

DrainPops(r) ==
  /\ pc[r] = "pop"
  /\ IF pending = <<>>
     THEN Goto(r, "finish") /\ UNCHANGED <<pending, active, reply, intr>>
     ELSE LET i == Head(pending)
          IN /\ pending' = Tail(pending)
             /\ active' = i
             /\ IF live THEN reply' = (Class[i] = "reply") /\ intr' = (Class[i] = "filler")
                        ELSE UNCHANGED <<reply, intr>>
             /\ Goto(r, "frame")
  /\ UNCHANGED <<lock, speaking, stopEvent, resume, nativeMode, owner, qlock, latest,
                 setting, ghosts>>

(* The first frame of the item.                                            *)
FirstFrame(r) ==
  /\ pc[r] = "frame"
  /\ active' = NoOne
  /\ IF live /\ stopEvent
     THEN /\ Goto(r, "finish")
          /\ UNCHANGED <<owner, reply, intr, heard>>
     ELSE /\ Goto(r, "segment")
          /\ owner' = active
          /\ reply' = (Class[active] = "reply")
          /\ intr' = IF live THEN Class[active] = "filler" ELSE intr
          /\ heard' = Voiced(active)
  /\ UNCHANGED <<lock, speaking, stopEvent, resume, nativeMode, pending, qlock, latest,
                 setting, refused>>

(* No first frame in time, or a synthesis that produced none.              *)
NoFrame(r) ==
  /\ pc[r] = "frame"
  /\ active' = NoOne
  /\ Goto(r, "drain")
  /\ UNCHANGED <<speaker, pending, qlock, latest, setting, ghosts>>

SegmentEnds(r) ==
  /\ pc[r] = "segment"
  /\ Goto(r, "drain")
  /\ UNCHANGED <<speaker, queues, setting, ghosts>>

(* Nothing is playing; the callbacks run before the lock is given up.      *)
Finish(r) ==
  /\ pc[r] = "finish"
  /\ speaking' = FALSE
  /\ intr' = (intr /\ ~(Kind[r] = "native" /\ nativeMode))
  /\ Goto(r, "release")
  /\ UNCHANGED <<lock, stopEvent, resume, nativeMode, reply, owner, queues, setting, ghosts>>

(* Mutant: a stop that kept items is not looked at. *)
ReleaseForgetsKept(r) ==
  /\ pc[r] = "release"
  /\ nativeMode' = FALSE
  /\ IF live /\ pending # <<>> /\ ~stopEvent
     THEN /\ resume' = FALSE /\ stopEvent' = FALSE /\ speaking' = TRUE
          /\ Goto(r, "drain")
          /\ UNCHANGED lock
     ELSE /\ lock' = FALSE
          /\ Goto(r, "done")
          /\ UNCHANGED <<resume, stopEvent, speaking>>
  /\ UNCHANGED <<intr, reply, owner, queues, setting, refused, heard>>

(* Mutant: the lock is given up and the queue is drained as well. *)
ReleaseAndDrain(r) ==
  /\ pc[r] = "release"
  /\ nativeMode' = FALSE
  /\ lock' = FALSE
  /\ IF live /\ pending # <<>> /\ (~stopEvent \/ resume)
     THEN /\ resume' = FALSE /\ stopEvent' = FALSE /\ speaking' = TRUE
          /\ Goto(r, "drain")
     ELSE /\ Goto(r, "done")
          /\ UNCHANGED <<resume, stopEvent, speaking>>
  /\ UNCHANGED <<intr, reply, owner, queues, setting, refused, heard>>

(* _release_or_drain_live_queue: in LIVE mode what is queued by now, unless *)
(* a stop forbids it, is drained under the same lock.  A native stream     *)
(* leaves native mode before that in LIVE mode, and after it otherwise.    *)
Release(r) ==
  /\ pc[r] = "release"
  /\ nativeMode' = (nativeMode /\ ~(live /\ Kind[r] = "native"))
  /\ IF live /\ pending # <<>> /\ (~stopEvent \/ resume)
     THEN /\ resume' = FALSE /\ stopEvent' = FALSE /\ speaking' = TRUE
          /\ Goto(r, "drain")
          /\ UNCHANGED lock
     ELSE /\ lock' = FALSE
          /\ Goto(r, IF Kind[r] = "native" /\ ~live THEN "leave" ELSE "done")
          /\ UNCHANGED <<resume, stopEvent, speaking>>
  /\ UNCHANGED <<intr, reply, owner, queues, setting, refused, heard>>

(* native_play_end outside LIVE: another call may have the speaker by now. *)
LeaveNative(r) ==
  /\ pc[r] = "leave"
  /\ nativeMode' = FALSE
  /\ Goto(r, "done")
  /\ UNCHANGED <<lock, speaking, stopEvent, resume, intr, reply, owner, queues, setting,
                 ghosts>>

Play(r) ==
  \/ HeadEnds(r) \/ DrainLooks(r) \/ DrainPops(r) \/ FirstFrame(r) \/ NoFrame(r)
  \/ SegmentEnds(r) \/ Finish(r) \/ Release(r) \/ LeaveNative(r)

-----------------------------------------------------------------------------
(* Stops from outside, and the user's own speech.                          *)

(* Mute sets its flag, and a click marks the turn, before each calls stop(). *)
Hush ==
  /\ stopper = "idle"
  /\ CountEvent
  /\ stopper' = "stop"
  /\ \E s \in {Requests} \cup {{r \in Requests : Turn[r] = t} : t \in {Turn[r] : r \in Requests}} :
       silenced' = silenced \cup s
  /\ UNCHANGED <<speaker, queues, live, capture, ghosts, pc>>

(* /tts/stop.                                                              *)
AskStop ==
  /\ stopper = "idle"
  /\ CountEvent
  /\ stopper' = "stop"
  /\ UNCHANGED <<speaker, queues, live, capture, silenced, ghosts, pc>>

Stop ==
  /\ \/ stopper = "stop" /\ StopAll /\ stopper' = IF live THEN "idle" ELSE "clear"
     \/ stopper = "clear" /\ ClearPending /\ stopper' = "idle"
  /\ UNCHANGED <<lock, speaking, intr, nativeMode, reply, owner, active, qlock, latest,
                 live, capture, silenced, events, refused, heard, pc>>

(* _live_stop_output: a session that resets stops what is the realtime's.  *)
StopLiveOutput ==
  /\ live /\ RealtimeSpeaking
  /\ CountEvent
  /\ StopLive(TRUE)
  /\ UNCHANGED <<lock, speaking, intr, nativeMode, reply, owner, active, qlock, latest,
                 live, capture, silenced, stopper, refused, heard, pc>>

(* stop_realtime_reply for the replies w; only a named one is compared to  *)
(* the owner of the playback.                                              *)
StopRealtimeReply(w, named) ==
  LET kept == Kept(pending, {i \in Requests : ~(Class[i] = "reply" /\ i \in w)})
      playing == RealtimeSpeaking /\ (named => owner \in w)
  IN /\ pending' = kept
     /\ IF playing THEN resume' = (kept # <<>>) /\ stopEvent' = TRUE
                   ELSE UNCHANGED <<resume, stopEvent>>

RejectReply ==
  LET replies == {r \in Requests : Class[r] = "reply"}
  IN /\ live
     /\ CountEvent
     /\ \/ StopRealtimeReply(replies, FALSE)
        \/ \E r \in replies : StopRealtimeReply({r}, TRUE)
     /\ UNCHANGED <<lock, speaking, intr, nativeMode, reply, owner, active, qlock, latest,
                    live, capture, silenced, stopper, refused, heard, pc>>

(* begin_input_capture and end_input_capture; LIVE sessions make none.     *)
BeginCapture ==
  /\ ~live /\ ~capture
  /\ CountEvent
  /\ capture' = TRUE
  /\ UNCHANGED <<speaker, queues, live, silenced, stopper, ghosts, pc>>

EndCapture ==
  /\ capture
  /\ capture' = FALSE
  /\ UNCHANGED <<speaker, queues, live, silenced, stopper, events, ghosts, pc>>

-----------------------------------------------------------------------------
Finished == \A r \in Requests : pc[r] = "done"

Next ==
  \/ \E r \in Requests : Ask(r) \/ Play(r) \/ StreamFails(r)
  \/ Hush \/ AskStop \/ Stop \/ StopLiveOutput \/ RejectReply
  \/ BeginCapture \/ EndCapture
  \/ Finished /\ UNCHANGED vars

Spec == Init /\ [][Next]_vars

(* A call runs to its end, waits for the lock are bounded, and a worker's  *)
(* waits for frames time out.                                              *)
FairSpec ==
  /\ Spec
  /\ \A r \in Requests : WF_vars(Ask(r) \/ Play(r))
  /\ WF_vars(Stop)

-----------------------------------------------------------------------------
(* At most one worker plays, and while one does the lock is held, through  *)
(* the hand-over from a worker to the drain of the LIVE queue.             *)
OneVoice ==
  LET speakers == {r \in Requests : pc[r] \in Playing \cup {"claim"}}
  IN /\ \A r, s \in speakers : r = s
     /\ lock <=> speakers # {}

(* A turn that is older by its number and by its stamp never takes the     *)
(* speaker after a newer one, whatever the order in which the posts, the   *)
(* stops and the worker's steps fall (speak_queue, "newest turn wins").    *)
TurnsInOrder ==
  [][~(heard'.seq <= heard.seq /\ heard'.stamp < heard.stamp)]_heard

(* In LIVE mode accepted speech leaves the queue, heard, failed or stopped: *)
(* none is left behind a free speaker (the second try of speak_queue and   *)
(* the release decide under one lock), unless a claim was refused between. *)
QueueIsDrained == (live /\ pending # <<>>) ~> (pending = <<>> \/ refused)
=============================================================================
