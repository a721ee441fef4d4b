-------------------------- MODULE MicSwitchProofs --------------------------
(***************************************************************************)
(* Whatever the handlers around the microphone do, for every set of        *)
(* callers, every budget, every bound on the revisions and both kinds of   *)
(* device: at most one capture loop is alive, the last request wins, and   *)
(* once handlers that did not overlap are done the pipeline runs exactly   *)
(* if the microphone is not muted.                                         *)
(*                                                                         *)
(* The first two follow from one invariant of the lifecycle.  The loop     *)
(* counted is the one `thread` refers to; a running pipeline has that loop *)
(* and no teardown; and a worker of _resume_after_teardown that still is   *)
(* current belongs to a start whose pipeline is down.  The last needs more *)
(* of the handlers: PlanOK says of the one handler at work that what its   *)
(* remaining steps will ask the pipeline for matches the mute they will    *)
(* leave, and that a closed switch of a device that locks its peripherals  *)
(* is muted and locked or about to be.                                     *)
(***************************************************************************)
EXTENDS MicSwitch, TLAPS, SequenceTheorems

(* The handlers touch the lifecycle only through these.                    *)
LifecycleNext ==
  \/ RequestStart \/ RequestStop \/ LifecycleWorker \/ LifecycleRestart
  \/ UNCHANGED lifecycle

LoopCounted == loops = IF thread = "live" THEN 1 ELSE 0

RunningOwnsLoop == running => thread = "live" /\ ~teardown

WorkersAreOld == \A r \in resumes : r <= revision

CurrentWorkerWaits == revision \in resumes => ~running /\ asked = "start"

LifecycleInv ==
  /\ LifecycleTypeOK
  /\ LoopCounted
  /\ RunningOwnsLoop
  /\ WorkersAreOld
  /\ CurrentWorkerWaits
  /\ LastRequestWins

(* No handler, gesture or flip of the switch changes the lifecycle by      *)
(* other means than a request to it.                                       *)
LEMMA HandlersOnlyRequest == [Next]_vars => LifecycleNext
<1> SUFFICES ASSUME [Next]_vars PROVE LifecycleNext
  OBVIOUS
<1>1. CASE UNCHANGED vars
  BY <1>1 DEF vars, LifecycleNext
<1>2. ASSUME NEW c \in Callers, Request(c) PROVE LifecycleNext
  BY <1>2 DEF Request, Mute, Unmute, Sleep, Wake, Scene, Enroll, Reroute, Enter,
     LifecycleNext
<1>3. ASSUME NEW a \in Actors, Step(a) PROVE LifecycleNext
  <2>1. CASE StartPipeline(a)
    BY <2>1 DEF StartPipeline, LifecycleNext
  <2>2. CASE StopPipeline(a)
    BY <2>2 DEF StopPipeline, LifecycleNext
  <2>3. CASE Gate(a) \/ SaveMic(a) \/ SaveSleep(a) \/ UnmuteCheck(a) \/ UnmuteLive(a)
    BY <2>3 DEF Gate, SaveMic, SaveSleep, UnmuteCheck, UnmuteLive, LifecycleNext
  <2>4. CASE WakeUp(a) \/ WakeMic(a) \/ Doze(a) \/ Recorded(a) \/ EnrollRestart(a)
    BY <2>4 DEF WakeUp, WakeMic, Doze, Recorded, EnrollRestart, LifecycleNext
  <2>5. CASE Lock(a) \/ SwitchMutes(a) \/ SwitchOpens(a) \/ Applied(a)
    BY <2>5 DEF Lock, SwitchMutes, SwitchOpens, Applied, LifecycleNext
  <2>6. CASE Autostart(a) \/ FirstSync(a) \/ Ready(a)
    BY <2>6 DEF Autostart, FirstSync, Ready, LifecycleNext
  <2> QED BY <1>3, <2>1, <2>2, <2>3, <2>4, <2>5, <2>6 DEF Step, HandlerStep
<1>4. CASE Flip
  BY <1>4 DEF Flip, LifecycleNext
<1>5. CASE Reconcile
  BY <1>5 DEF Reconcile, LifecycleNext
<1>6. CASE Restart
  BY <1>6 DEF Restart, LifecycleNext
<1>7. CASE Worker
  BY <1>7 DEF Worker, LifecycleNext
<1> QED BY <1>1, <1>2, <1>3, <1>4, <1>5, <1>6, <1>7 DEF Next

-----------------------------------------------------------------------------
(* A process starts with the pipeline down and nobody waiting.             *)
LEMMA FreshLifecycle == LifecycleInit => LifecycleInv
<1> SUFFICES ASSUME LifecycleInit PROVE LifecycleInv
  OBVIOUS
<1> USE DEF LifecycleInit
<1>1. LifecycleTypeOK
  <2>1. loops \in Nat /\ revision \in 0 .. MaxRevision
    BY RevisionBound DEF RevisionBound
  <2> QED BY <2>1, Zenon DEF LifecycleTypeOK
<1>2. LoopCounted
  BY DEF LoopCounted
<1>3. RunningOwnsLoop /\ CurrentWorkerWaits /\ LastRequestWins
  BY Zenon DEF RunningOwnsLoop, CurrentWorkerWaits, LastRequestWins
<1>4. WorkersAreOld
  BY Zenon DEF WorkersAreOld
<1> QED BY <1>1, <1>2, <1>3, <1>4 DEF LifecycleInv

(* The revision of a new request belongs to no worker. *)
LEMMA NewRevision ==
  ASSUME LifecycleInv, CanRequest, revision' = revision + 1
  PROVE  /\ revision' \in 0 .. MaxRevision /\ revision' \notin resumes
         /\ \A r \in resumes \cup {revision'} : r \in 0 .. MaxRevision /\ r <= revision'
<1> USE RevisionBound DEF RevisionBound, LifecycleInv, LifecycleTypeOK, WorkersAreOld, CanRequest
<1>1. revision \in Nat /\ revision' \in 0 .. MaxRevision /\ revision' \in Nat
  OBVIOUS
<1>2. \A r \in resumes : r \in 0 .. MaxRevision /\ r \in Nat /\ r <= revision /\ r < revision'
  BY <1>1
<1> QED BY <1>1, <1>2

LEMMA StartKeeps == LifecycleInv /\ RequestStart => LifecycleInv'
<1> SUFFICES ASSUME LifecycleInv, RequestStart PROVE LifecycleInv'
  OBVIOUS
<1>1. /\ revision' \in 0 .. MaxRevision /\ revision' \notin resumes
      /\ \A r \in resumes \cup {revision'} : r \in 0 .. MaxRevision /\ r <= revision'
  BY NewRevision DEF RequestStart
<1>2. /\ resumes' \subseteq resumes \cup {revision'}
      /\ running' => resumes' = resumes
  BY DEF RequestStart, StartLocked, StillStopping
<1>3. LoopCounted' /\ loops' \in Nat /\ thread' \in {"none", "live", "dead"}
  BY DEF LifecycleInv, LifecycleTypeOK, LoopCounted, RunningOwnsLoop, RequestStart,
         StartLocked, StillStopping
<1>4. running' => thread' = "live" /\ ~teardown'
  BY DEF LifecycleInv, RunningOwnsLoop, RequestStart, CanRequest, StartLocked,
     StillStopping
<1>5. running' \in BOOLEAN /\ realtime' \in BOOLEAN /\ teardown' \in BOOLEAN
  BY DEF LifecycleInv, LifecycleTypeOK, RequestStart, StartLocked
<1>6. asked' = "start"
  BY DEF RequestStart
<1>7. LifecycleTypeOK'
  BY <1>1, <1>2, <1>3, <1>5, <1>6 DEF LifecycleTypeOK
<1>8. WorkersAreOld'
  BY <1>1, <1>2 DEF WorkersAreOld
<1>9. CurrentWorkerWaits' /\ LastRequestWins' /\ RunningOwnsLoop'
  BY <1>1, <1>2, <1>4, <1>6 DEF CurrentWorkerWaits, LastRequestWins, RunningOwnsLoop
<1> QED BY <1>3, <1>7, <1>8, <1>9 DEF LifecycleInv

LEMMA StopKeeps == LifecycleInv /\ RequestStop => LifecycleInv'
<1> SUFFICES ASSUME LifecycleInv, RequestStop PROVE LifecycleInv'
  OBVIOUS
<1>1. /\ revision' \in 0 .. MaxRevision /\ revision' \notin resumes'
      /\ \A r \in resumes' : r <= revision'
  BY NewRevision DEF RequestStop
<1>2. LifecycleTypeOK'
  BY <1>1, Zenon DEF LifecycleInv, LifecycleTypeOK, RequestStop
<1>3. LoopCounted' /\ WorkersAreOld'
  BY <1>1 DEF LifecycleInv, LoopCounted, WorkersAreOld, RequestStop
<1>4. CurrentWorkerWaits' /\ LastRequestWins' /\ RunningOwnsLoop'
  BY <1>1, Zenon DEF CurrentWorkerWaits, LastRequestWins, RunningOwnsLoop, RequestStop
<1> QED BY <1>2, <1>3, <1>4 DEF LifecycleInv

LEMMA ResumeKeeps ==
  ASSUME LifecycleInv, NEW r \in resumes, Resume(r)
  PROVE  LifecycleInv'
<1>1. CASE Current(r)
  <2>1. r = revision /\ ~running /\ asked = "start"
    BY <1>1 DEF Current, LifecycleInv, CurrentWorkerWaits
  <2>2. /\ running' = TRUE /\ thread' = "live" /\ ~teardown' /\ resumes' = resumes \ {r}
        /\ UNCHANGED <<realtime, teardown, revision, asked>>
    BY <1>1, Zenon DEF Resume
  <2>3. loops = 0 /\ loops' = 1
    BY <1>1 DEF Resume, LifecycleInv, LoopCounted
  <2>4. LifecycleTypeOK'
    BY <2>2, <2>3 DEF LifecycleInv, LifecycleTypeOK
  <2>5. LoopCounted' /\ WorkersAreOld'
    BY <2>2, <2>3 DEF LifecycleInv, LoopCounted, WorkersAreOld
  <2>6. CurrentWorkerWaits' /\ LastRequestWins' /\ RunningOwnsLoop'
    BY <2>1, <2>2, Zenon DEF CurrentWorkerWaits, LastRequestWins, RunningOwnsLoop
  <2> QED BY <2>4, <2>5, <2>6 DEF LifecycleInv
<1>2. CASE ~Current(r)
  <2>1. /\ resumes' \subseteq resumes
        /\ UNCHANGED <<running, loops, thread, realtime, teardown, revision, asked>>
    BY <1>2, Zenon DEF Resume
  <2> QED BY <2>1 DEF LifecycleInv, LifecycleTypeOK, LoopCounted, RunningOwnsLoop,
                      WorkersAreOld, CurrentWorkerWaits, LastRequestWins
<1> QED BY <1>1, <1>2

(* Each step of the lifecycle keeps the invariant.                         *)
LEMMA LifecycleStep == LifecycleInv /\ LifecycleNext => LifecycleInv'
<1> SUFFICES ASSUME LifecycleInv, LifecycleNext PROVE LifecycleInv'
  OBVIOUS
<1> USE DEF LifecycleInv, LifecycleTypeOK, LoopCounted, RunningOwnsLoop, WorkersAreOld,
            CurrentWorkerWaits, LastRequestWins
<1>1. CASE TeardownEnds
  BY <1>1 DEF TeardownEnds
<1>2. CASE LoopExits
  BY <1>2 DEF LoopExits
<1>3. CASE RealtimeStopped
  BY <1>3 DEF RealtimeStopped
<1>4. CASE LifecycleRestart
  <2>1. LifecycleInit'
    BY <1>4, Zenon DEF LifecycleRestart, LifecycleInit
  <2> QED BY <2>1, FreshLifecycle, PTL
<1>5. CASE UNCHANGED lifecycle
  BY <1>5 DEF lifecycle
<1> QED BY <1>1, <1>2, <1>3, <1>4, <1>5, StartKeeps, StopKeeps, ResumeKeeps
       DEF LifecycleNext, LifecycleWorker

(* The invariant of the lifecycle, under everything the handlers do.       *)
THEOREM LifecycleKept == Spec => []LifecycleInv
<1>1. Init => LifecycleInv
  BY FreshLifecycle DEF Init
<1>2. LifecycleInv /\ [Next]_vars => LifecycleInv'
  BY HandlersOnlyRequest, LifecycleStep
<1> QED BY <1>1, <1>2, PTL DEF Spec

-----------------------------------------------------------------------------
(* At most one capture loop reads the microphone, however many starts,     *)
(* stops and restarts overlap and whichever of their waits time out        *)
(* (_start_locked, _resume_after_teardown).                                *)
THEOREM OneCaptureAlways == Spec => []OneCapture
<1>1. LifecycleInv => OneCapture
  BY DEF LifecycleInv, LoopCounted, OneCapture
<1> QED BY <1>1, LifecycleKept, PTL

(* After a stop the pipeline stays down until somebody asks for a start:   *)
(* no worker of an earlier start brings it back (_lifecycle_revision).     *)
THEOREM LastRequestWinsAlways == Spec => []LastRequestWins
<1>1. LifecycleInv => LastRequestWins
  BY DEF LifecycleInv
<1> QED BY <1>1, LifecycleKept, PTL

-----------------------------------------------------------------------------
(* Types.  A step that can skip the step after it (a gate, a restart of an *)
(* enrollment) never is the last of its list.                              *)
Paired(s) == \A i \in DOMAIN s : s[i] \in {"gate", "restart"} => i < Len(s)

Lists == {s \in Seq(Steps) : Paired(s)}

(* What a list looks like once its first step is replaced by the steps p.  *)
LEMMA Replaced ==
  ASSUME NEW p \in Seq(Steps), NEW s \in Seq(Steps), s # <<>>
  PROVE  /\ p \o Tail(s) \in Seq(Steps)
         /\ Len(p \o Tail(s)) = Len(p) + Len(s) - 1
         /\ \A i \in 1 .. Len(p) : (p \o Tail(s))[i] = p[i]
         /\ \A i \in 2 .. Len(s) : (p \o Tail(s))[Len(p) + i - 1] = s[i]
<1>1. Tail(s) \in Seq(Steps) /\ Len(Tail(s)) = Len(s) - 1
      /\ \A i \in 1 .. Len(s) - 1 : Tail(s)[i] = s[i + 1]
  BY HeadTailProperties
<1>2. Len(s) \in Nat \ {0} /\ Len(p) \in Nat
  BY EmptySeq, LenProperties
<1>3. p \o Tail(s) \in Seq(Steps) /\ Len(p \o Tail(s)) = Len(p) + Len(Tail(s))
      /\ \A i \in 1 .. Len(p) + Len(Tail(s)) :
           (p \o Tail(s))[i] = IF i <= Len(p) THEN p[i] ELSE Tail(s)[i - Len(p)]
  BY <1>1, ConcatProperties
<1>4. ASSUME NEW i \in 2 .. Len(s) PROVE (p \o Tail(s))[Len(p) + i - 1] = s[i]
  BY <1>1, <1>2, <1>3
<1> QED BY <1>1, <1>2, <1>3, <1>4

(* Replacing the first step by a paired list leaves a paired list.         *)
LEMMA ReplacedPaired ==
  ASSUME NEW p \in Lists, NEW s \in Lists, s # <<>>
  PROVE  p \o Tail(s) \in Lists
<1> DEFINE u == p \o Tail(s)
<1>1. p \in Seq(Steps) /\ s \in Seq(Steps) /\ Paired(p) /\ Paired(s)
  BY DEF Lists
<1>2. /\ u \in Seq(Steps) /\ Len(u) = Len(p) + Len(s) - 1
      /\ \A i \in 1 .. Len(p) : u[i] = p[i]
      /\ \A i \in 2 .. Len(s) : u[Len(p) + i - 1] = s[i]
  BY <1>1, Replaced
<1>3. Len(s) \in Nat \ {0} /\ Len(p) \in Nat /\ DOMAIN u = 1 .. Len(u)
      /\ DOMAIN s = 1 .. Len(s) /\ DOMAIN p = 1 .. Len(p)
  BY <1>1, <1>2, EmptySeq, LenProperties
<1>4. ASSUME NEW i \in DOMAIN u, u[i] \in {"gate", "restart"} PROVE i < Len(u)
  <2>1. CASE i \in 1 .. Len(p)
    BY <1>1, <1>2, <1>3, <1>4, <2>1 DEF Paired
  <2>2. CASE i \notin 1 .. Len(p)
    <3>1. i - Len(p) + 1 \in 2 .. Len(s) /\ i = Len(p) + (i - Len(p) + 1) - 1
      BY <1>2, <1>3, <2>2
    <3>2. u[i] = s[i - Len(p) + 1]
      BY <1>2, <3>1
    <3> QED BY <1>1, <1>2, <1>3, <1>4, <3>1, <3>2 DEF Paired
  <2> QED BY <2>1, <2>2
<1>5. Paired(u)
  BY <1>4 DEF Paired
<1>6. u \in Lists
  <2> HIDE DEF u
  <2> QED BY <1>2, <1>5 DEF Lists
<1> QED BY <1>6

(* Every list a handler begins with or puts before its rest is paired.     *)
LEMMA KnownLists ==
  /\ <<>> \in Lists /\ Boot \in Lists
  /\ <<"gate", "start">> \in Lists /\ <<"gate", "start", "saveMic">> \in Lists
  /\ <<"saveMic", "stop">> \in Lists /\ <<"unmute", "live">> \in Lists
  /\ <<"wake", "unmute", "live">> \in Lists /\ <<"saveSleep", "doze">> \in Lists
  /\ <<"wake">> \in Lists /\ <<"record">> \in Lists /\ <<"stop", "start">> \in Lists
  /\ <<"stop", "record", "restart", "start">> \in Lists
  /\ <<"saveSleep", "wakeMic", "saveSleep">> \in Lists /\ <<"saveSleep">> \in Lists
  /\ <<"stop", "saveSleep">> \in Lists /\ <<"mute">> \in Lists /\ <<"lock">> \in Lists
  /\ <<"wake", "unmute", "live", "unlock">> \in Lists /\ <<"unlock">> \in Lists
  /\ <<"unlock", "unmute", "live">> \in Lists
  /\ <<"lock", "apply">> \in Lists /\ <<"open", "apply">> \in Lists
BY DEF Lists, Steps, Paired, Boot

(* Doing the first step, or skipping the second one too, leaves a paired   *)
(* list.                                                                   *)
LEMMA TailPaired ==
  ASSUME NEW s \in Lists, s # <<>>
  PROVE  /\ Tail(s) \in Lists
         /\ Head(s) \in {"gate", "restart"} => Tail(Tail(s)) \in Lists
<1>1. s \in Seq(Steps) /\ Paired(s) /\ Len(s) \in Nat \ {0} /\ DOMAIN s = 1 .. Len(s)
  BY EmptySeq, LenProperties DEF Lists
<1>2. Tail(s) \in Seq(Steps) /\ Len(Tail(s)) = Len(s) - 1
      /\ \A i \in 1 .. Len(s) - 1 : Tail(s)[i] = s[i + 1]
  BY <1>1, HeadTailProperties
<1>3. Paired(Tail(s))
  BY <1>1, <1>2 DEF Paired
<1>4. ASSUME Head(s) \in {"gate", "restart"} PROVE Tail(Tail(s)) \in Lists
  <2>1. Len(s) > 1
    BY <1>1, <1>4 DEF Paired
  <2>2. Tail(s) # <<>>
    <3>1. PICK t : t = Tail(s)
      OBVIOUS
    <3>2. Len(t) = Len(s) - 1 /\ t \in Seq(Steps)
      BY <1>2, <3>1
    <3>3. Len(t) # 0
      BY <1>1, <2>1, <3>2
    <3> QED BY <3>1, <3>2, <3>3, EmptySeq
  <2>3. Tail(Tail(s)) \in Seq(Steps) /\ Len(Tail(Tail(s))) = Len(s) - 2
      /\ \A i \in 1 .. Len(s) - 2 : Tail(Tail(s))[i] = s[i + 2]
    BY <1>1, <1>2, <2>2, HeadTailProperties
  <2>4. Paired(Tail(Tail(s)))
    BY <1>1, <2>1, <2>3 DEF Paired
  <2> QED BY <2>3, <2>4 DEF Lists
<1> QED BY <1>2, <1>3, <1>4 DEF Lists

(* The types, flag by flag, and every list paired.                         *)
TypedFlags ==
  /\ pin \in BOOLEAN /\ last \in BOOLEAN /\ hw \in BOOLEAN /\ locked \in BOOLEAN
  /\ muted \in BOOLEAN /\ sleeping \in BOOLEAN /\ auto \in BOOLEAN
  /\ enrolling \in BOOLEAN /\ booted \in BOOLEAN /\ tangled \in BOOLEAN
  /\ saved \in [mic : BOOLEAN, sleeping : BOOLEAN, auto : BOOLEAN]

TypeInv ==
  /\ TypedFlags
  /\ todo \in [Actors -> Lists]
  /\ left \in [{"request", "flip", "restart"} -> Nat]

(* A handler that begins a paired list.                                    *)
LEMMA EnterTyped ==
  ASSUME TypeInv, NEW c \in Callers, NEW p \in Lists, Enter(c, p)
  PROVE  /\ todo' \in [Actors -> Lists] /\ left' \in [{"request", "flip", "restart"} -> Nat]
         /\ tangled' \in BOOLEAN
         /\ UNCHANGED <<pin, last, hw, locked, saved, booted>>
BY DEF Enter, Spend, TypeInv, TypedFlags, Actors

(* Requests, steps of a handler, and everything else keep the types.       *)
LEMMA RequestTyped == ASSUME TypeInv, NEW c \in Callers, Request(c) PROVE TypeInv'
<1> USE DEF TypeInv, TypedFlags
<1>1. CASE Mute(c)
  BY <1>1, EnterTyped, KnownLists DEF Mute
<1>2. CASE Unmute(c)
  BY <1>2, EnterTyped, KnownLists DEF Unmute
<1>3. CASE Sleep(c)
  BY <1>3, EnterTyped, KnownLists DEF Sleep
<1>4. CASE Wake(c)
  BY <1>4, EnterTyped, KnownLists DEF Wake
<1>5. CASE Scene(c)
  BY <1>5, EnterTyped, KnownLists DEF Scene
<1>6. CASE Enroll(c)
  BY <1>6, EnterTyped, KnownLists DEF Enroll
<1>7. CASE Reroute(c)
  BY <1>7, KnownLists DEF Reroute, Spend, switches, Actors
<1> QED BY <1>1, <1>2, <1>3, <1>4, <1>5, <1>6, <1>7 DEF Request

(* A step that puts a paired list before the rest of its own.              *)
LEMMA ThenTyped ==
  ASSUME TypeInv, NEW a \in Actors, todo[a] # <<>>, NEW p \in Lists, Then(a, p)
  PROVE  todo' \in [Actors -> Lists]
BY ReplacedPaired DEF Then, TypeInv

LEMMA StepTyped == ASSUME TypeInv, NEW a \in Actors, Step(a) PROVE TypeInv'
<1> USE DEF TypeInv
<1>1. todo[a] # <<>> /\ todo[a] \in Lists
  BY DEF Step, HandlerStep, At, Gate, StartPipeline, StopPipeline, SaveMic, SaveSleep,
     UnmuteCheck, UnmuteLive, WakeUp, WakeMic, Doze, Recorded, EnrollRestart, Lock,
     SwitchMutes, SwitchOpens, Applied, Autostart, FirstSync, Ready
<1>2. todo' \in [Actors -> Lists]
  <2>1. CASE Gate(a) \/ UnmuteCheck(a) \/ EnrollRestart(a)
    BY <1>1, <2>1, TailPaired, KnownLists DEF Gate, UnmuteCheck, EnrollRestart, At
  <2>2. CASE ~(Gate(a) \/ UnmuteCheck(a) \/ EnrollRestart(a))
    <3>1. \E p \in Lists : Then(a, p)
      BY <2>2, KnownLists DEF Step, HandlerStep, StartPipeline, StopPipeline, SaveMic,
         SaveSleep, UnmuteLive, WakeUp, WakeMic, Doze, Recorded, Lock, SwitchMutes,
         SwitchOpens, Applied, Autostart, FirstSync, Ready
    <3> QED BY <1>1, <3>1, ThenTyped
  <2> QED BY <2>1, <2>2
<1>3. TypedFlags'
  <2> USE DEF TypedFlags
  <2>1. UNCHANGED tangled /\ booted' \in BOOLEAN
    BY DEF Step
  <2>2. CASE SaveMic(a) \/ SaveSleep(a) \/ UnmuteLive(a) \/ WakeUp(a) \/ WakeMic(a)
    BY <2>1, <2>2 DEF SaveMic, SaveSleep, UnmuteLive, WakeUp, WakeMic
  <2>3. CASE Doze(a) \/ Recorded(a)
    BY <2>1, <2>3 DEF Doze, Recorded
  <2>4. CASE Lock(a) \/ SwitchMutes(a) \/ Applied(a) \/ FirstSync(a)
    BY <2>1, <2>4, SwitchApart DEF Lock, SwitchMutes, Applied, FirstSync
  <2>5. CASE UNCHANGED switches
    BY <2>1, <2>5 DEF switches
  <2> QED BY <2>2, <2>3, <2>4, <2>5 DEF Step, HandlerStep, Gate, StartPipeline,
             StopPipeline, UnmuteCheck, EnrollRestart, SwitchOpens, Autostart, Ready
<1> QED BY <1>2, <1>3 DEF Step

LEMMA TypeInvStep == TypeInv /\ [Next]_vars => TypeInv'
<1> SUFFICES ASSUME TypeInv, [Next]_vars PROVE TypeInv'
  OBVIOUS
<1> USE DEF TypeInv, TypedFlags
<1>1. CASE Flip
  BY <1>1 DEF Flip, Spend
<1>2. CASE Reconcile
  BY <1>2, KnownLists DEF Reconcile, Actors
<1>3. CASE Restart
  <2>1. todo' \in [Actors -> Lists]
    BY <1>3, KnownLists DEF Restart
  <2>2. sleeping' \in BOOLEAN /\ auto' \in BOOLEAN
    BY <1>3 DEF Restart
  <2>3. muted' \in BOOLEAN
    BY <1>3 DEF Restart
  <2>4. hw' \in BOOLEAN /\ locked' \in BOOLEAN
    BY <1>3, SwitchApart DEF Restart
  <2>5. left' \in [{"request", "flip", "restart"} -> Nat]
    BY <1>3 DEF Restart, Spend
  <2>6. /\ enrolling' = FALSE /\ tangled' = FALSE /\ booted' = FALSE
        /\ UNCHANGED <<pin, last, saved>>
    BY <1>3 DEF Restart
  <2> QED BY <2>1, <2>2, <2>3, <2>4, <2>5, <2>6
<1>4. CASE Worker
  BY <1>4 DEF Worker, switches
<1>5. CASE UNCHANGED vars
  BY <1>5 DEF vars, switches
<1> QED BY <1>1, <1>2, <1>3, <1>4, <1>5, RequestTyped, StepTyped DEF Next

(* The process starts with the list of its boot and the budget it is       *)
(* given.                                                                  *)
LEMMA TypeInvInit == Init => TypeInv
<1> SUFFICES ASSUME Init PROVE TypeInv
  OBVIOUS
<1>1. todo \in [Actors -> Lists]
  BY KnownLists DEF Init
<1>2. TypedFlags
  BY SwitchApart DEF Init, TypedFlags
<1> QED BY <1>1, <1>2, BudgetBound DEF Init, TypeInv

(* The types of the run's invariant are those of TypeInv and of the        *)
(* lifecycle.                                                              *)
LEMMA TypeInvIsTypeOK == LifecycleInv /\ TypeInv => TypeOK
<1> SUFFICES ASSUME LifecycleInv, TypeInv PROVE TypeOK
  OBVIOUS
<1>1. \A b \in {pin, last, hw, locked, muted, sleeping, auto, enrolling, booted, tangled} : b \in BOOLEAN
  BY Zenon DEF TypeInv, TypedFlags
<1>2. todo \in [Actors -> Seq(Steps)]
  BY DEF TypeInv, Lists
<1> QED BY <1>1, <1>2 DEF TypeOK, TypeInv, TypedFlags, LifecycleInv

(* The types hold for every set of callers and every budget; in particular *)
(* no handler takes the tail of a list that has none (gate, restart).      *)
THEOREM TypeOKKept == Spec => []TypeOK
<1> QED BY TypeInvInit, TypeInvStep, TypeInvIsTypeOK, LifecycleKept, PTL DEF Spec

-----------------------------------------------------------------------------
(* The steps that neither ask the pipeline for anything nor wait.          *)
CalmSteps == {"saveMic", "saveSleep", "unmute", "live", "wake", "wakeMic", "doze",
              "lock", "unlock", "mute", "apply", "open", "sync", "ready"}

(* From its k-th step on, the list s asks the pipeline for nothing.        *)
CalmFrom(s, k) == \A i \in DOMAIN s : i >= k => s[i] \in CalmSteps

(* What was asked for last matches the mute.                               *)
Matched == asked = "start" <=> ~muted

(* An enrollment and what is left of it.                                   *)
Enrolls == {<<"stop", "record", "restart", "start">>, <<"record", "restart", "start">>,
            <<"restart", "start">>, <<"record">>}

(* The switch is closed, on a device whose switch locks its peripherals.   *)
ShutIn == Extended /\ hw

(* After the first read of the pin only the end of the boot is left.       *)
SyncLast(s) ==
  \A i, j \in DOMAIN s : s[i] = "sync" /\ i < j => s[j] = "ready"

Has(s, steps) == \E i \in DOMAIN s : s[i] \in steps

(* What the pipeline is asked for, once the list s is done, matches.       *)
WillMatch(s) ==
  \/ CalmFrom(s, 1) /\ Matched
  \/ s = <<"record">> /\ Matched
  \/ Len(s) >= 1 /\ s[1] = "stop" /\ CalmFrom(s, 2) /\ muted
  \/ Len(s) >= 2 /\ s[1] = "saveMic" /\ s[2] = "stop" /\ CalmFrom(s, 3) /\ muted
  \/ Len(s) >= 1 /\ s[1] = "start" /\ CalmFrom(s, 2) /\ ~muted
  \/ Len(s) >= 2 /\ s[1] = "gate" /\ s[2] = "start" /\ CalmFrom(s, 3) /\ ~muted
  \/ s = <<"stop", "start">> /\ ~muted
  \/ s \in Enrolls \ {<<"record">>} /\ ~muted
  \/ s = Boot /\ asked = "stop"

(* A closed switch is muted and locked or about to be; what would open the *)
(* microphone is only ahead while the switch is open.                      *)
WillShut(s) ==
  /\ locked => Extended
  /\ ShutIn => (muted \/ Has(s, {"lock", "mute"})) /\ (locked \/ Has(s, {"lock"}))
  /\ Has(s, {"unmute", "live", "open", "unlock"}) => ~hw
  /\ Has(s, {"start"}) => ~ShutIn
  /\ enrolling => s \in Enrolls \ {<<"restart", "start">>}
  /\ SyncLast(s)

Alone(a) == \A b \in Actors \ {a} : todo[b] = <<>>

(* As long as no two handlers overlapped, at most one is at work and it    *)
(* has a plan.                                                             *)
PlanOK ==
  ~tangled => \E a \in Actors : Alone(a) /\ WillMatch(todo[a]) /\ WillShut(todo[a])

(* What becomes of a list when its first step is replaced by the steps p.  *)
LEMMA Followed ==
  ASSUME NEW p \in Seq(Steps), NEW s \in Seq(Steps), s # <<>>
  PROVE  LET u == p \o Tail(s) IN
         /\ \A X : Has(u, X) => Has(p, X) \/ Has(s, X)
         /\ \A X : s[1] \notin X => (Has(s, X) => Has(u, X))
         /\ \A X : Has(p, X) => Has(u, X)
         /\ \A k \in Nat \ {0, 1} : CalmFrom(s, k) => CalmFrom(u, Len(p) + k - 1)
         /\ SyncLast(s) /\ ~Has(p, {"sync"}) => SyncLast(u)
<1> DEFINE u == p \o Tail(s)
           n == Len(p)
<1>1. /\ u \in Seq(Steps) /\ Len(u) = n + Len(s) - 1
      /\ \A i \in 1 .. n : u[i] = p[i]
      /\ \A i \in 2 .. Len(s) : u[n + i - 1] = s[i]
  BY Replaced
<1>2. Len(s) \in Nat \ {0} /\ n \in Nat /\ DOMAIN u = 1 .. Len(u)
      /\ DOMAIN s = 1 .. Len(s) /\ DOMAIN p = 1 .. n
  BY <1>1, EmptySeq, LenProperties
<1>3. \A i \in DOMAIN u : i > n => i - n + 1 \in 2 .. Len(s) /\ u[i] = s[i - n + 1]
  <2> SUFFICES ASSUME NEW i \in DOMAIN u, i > n
               PROVE  i - n + 1 \in 2 .. Len(s) /\ u[i] = s[i - n + 1]
    OBVIOUS
  <2>1. i - n + 1 \in 2 .. Len(s) /\ i = n + (i - n + 1) - 1
    BY <1>1, <1>2
  <2> QED BY <1>1, <2>1
<1> HIDE DEF u, n
<1>4. ASSUME NEW X, Has(u, X) PROVE Has(p, X) \/ Has(s, X)
  BY <1>1, <1>2, <1>3, <1>4 DEF Has
<1>5. ASSUME NEW X, s[1] \notin X, Has(s, X) PROVE Has(u, X)
  <2>1. PICK i \in DOMAIN s : s[i] \in X
    BY <1>5 DEF Has
  <2>2. i \in 2 .. Len(s)
    BY <1>2, <1>5, <2>1
  <2>3. n + i - 1 \in DOMAIN u
    BY <1>1, <1>2, <2>2
  <2> QED BY <1>1, <2>1, <2>2, <2>3 DEF Has
<1>6. ASSUME NEW X, Has(p, X) PROVE Has(u, X)
  BY <1>1, <1>2, <1>6 DEF Has
<1>7. ASSUME NEW k \in Nat \ {0, 1}, CalmFrom(s, k) PROVE CalmFrom(u, n + k - 1)
  BY <1>2, <1>3, <1>7 DEF CalmFrom
<1>8. ASSUME SyncLast(s), ~Has(p, {"sync"}) PROVE SyncLast(u)
  <2> SUFFICES ASSUME NEW i \in DOMAIN u, NEW j \in DOMAIN u, u[i] = "sync", i < j
               PROVE  u[j] = "ready"
    BY DEF SyncLast
  <2>1. i > n
    BY <1>1, <1>2, <1>8 DEF Has
  <2>2. /\ i - n + 1 \in DOMAIN s /\ u[i] = s[i - n + 1]
        /\ j - n + 1 \in DOMAIN s /\ u[j] = s[j - n + 1]
    BY <1>2, <1>3, <2>1
  <2> QED BY <1>2, <1>8, <2>2 DEF SyncLast
<1> QED BY <1>4, <1>5, <1>6, <1>7, <1>8 DEF u, n

(* A step that does not touch the switch or its locks.                     *)
LEMMA ShutKeeps ==
  ASSUME NEW p \in Seq(Steps), NEW s \in Seq(Steps), s # <<>>,
         WillShut(s), UNCHANGED <<hw, locked>>, ~enrolling', ShutIn /\ muted => muted',
         s[1] \notin {"lock", "mute"}, ~Has(p, {"sync"}),
         Has(p, {"unmute", "live", "open", "unlock"}) => ~hw,
         Has(p, {"start"}) => ~ShutIn
  PROVE  /\ locked' => Extended
         /\ ShutIn' => (muted' \/ Has(p \o Tail(s), {"lock", "mute"}))
                       /\ (locked' \/ Has(p \o Tail(s), {"lock"}))
         /\ Has(p \o Tail(s), {"unmute", "live", "open", "unlock"}) => ~hw'
         /\ Has(p \o Tail(s), {"start"}) => ~ShutIn'
         /\ SyncLast(p \o Tail(s))
<1> DEFINE u == p \o Tail(s)
<1>1. /\ \A X : Has(u, X) => Has(p, X) \/ Has(s, X)
      /\ \A X : s[1] \notin X => (Has(s, X) => Has(u, X))
      /\ SyncLast(s) /\ ~Has(p, {"sync"}) => SyncLast(u)
  BY Followed
<1> HIDE DEF u
<1>2. SyncLast(u)
  BY <1>1 DEF WillShut
<1>3. Has(s, {"lock", "mute"}) => Has(u, {"lock", "mute"})
  BY <1>1
<1>4. Has(s, {"lock"}) => Has(u, {"lock"})
  BY <1>1
<1>5. Has(u, {"unmute", "live", "open", "unlock"}) => ~hw
  BY <1>1 DEF WillShut
<1>6. Has(u, {"start"}) => ~ShutIn
  BY <1>1 DEF WillShut
<1>7. ShutIn' <=> ShutIn
  BY DEF ShutIn
<1> QED BY <1>2, <1>3, <1>4, <1>5, <1>6, <1>7 DEF WillShut, u

(* Calm steps before a calm rest.                                          *)
LEMMA CalmReplaced ==
  ASSUME NEW p \in Seq(Steps), NEW s \in Seq(Steps), s # <<>>, CalmFrom(s, 2), CalmFrom(p, 1)
  PROVE  CalmFrom(p \o Tail(s), 1)
<1>1. CalmFrom(p \o Tail(s), Len(p) + 1)
  <2>1. CalmFrom(p \o Tail(s), Len(p) + 2 - 1)
    BY Followed
  <2>2. Len(p) + 2 - 1 = Len(p) + 1
    BY LenProperties
  <2> QED BY <2>1, <2>2
<1>2. \A i \in 1 .. Len(p) : (p \o Tail(s))[i] = p[i]
  BY Replaced
<1>3. p \o Tail(s) \in Seq(Steps) /\ Len(p) \in Nat /\ DOMAIN p = 1 .. Len(p)
  BY Replaced, LenProperties
<1> QED BY <1>1, <1>2, <1>3, LenProperties DEF CalmFrom

(* A calm first step, other than the save before a stop, means a calm      *)
(* list.                                                                   *)
LEMMA CalmHead ==
  ASSUME NEW s \in Lists, s # <<>>, WillMatch(s), WillShut(s), s[1] \in CalmSteps \ {"saveMic"}
  PROVE  CalmFrom(s, 1) /\ Matched /\ ~enrolling
BY DEF WillMatch, WillShut, CalmSteps, Enrolls, Boot

(* A step between calm steps, for what it leaves to do and how it mutes.   *)
LEMMA CalmStep ==
  ASSUME TypeInv, NEW a \in Actors, todo[a] # <<>>, WillMatch(todo[a]), WillShut(todo[a]),
         todo[a][1] \in CalmSteps \ {"saveMic", "lock", "mute", "sync"},
         NEW p \in Seq(Steps), Then(a, p), ~Has(p, {"sync"}), CalmFrom(p, 1),
         Has(p, {"unmute", "live", "open", "unlock"}) => ~hw,
         UNCHANGED <<hw, locked, muted, asked, enrolling>>
  PROVE  WillMatch(todo[a])' /\ WillShut(todo[a])'
<1> DEFINE s == todo[a]
<1>1. s \in Lists /\ s \in Seq(Steps) /\ todo'[a] = p \o Tail(s)
  BY DEF TypeInv, Then, Lists
<1>2. CalmFrom(s, 1) /\ Matched /\ ~enrolling
  BY <1>1, CalmHead
<1>3. ~Has(p, {"start"})
  BY DEF CalmFrom, Has, CalmSteps
<1>4. CalmFrom(todo'[a], 1)
  BY <1>1, <1>2, CalmReplaced DEF CalmFrom
<1>5. WillMatch(todo[a])'
  BY <1>2, <1>4 DEF WillMatch, Matched
<1>6. WillShut(todo[a])'
  <2>1. s[1] \notin {"lock", "mute"} /\ (ShutIn /\ muted => muted') /\ ~enrolling'
    BY <1>2
  <2> QED BY <1>1, <1>3, <2>1, ShutKeeps DEF WillShut
<1> QED BY <1>5, <1>6

(* Nothing left to do.                                                     *)
LEMMA EmptyPlan ==
  ASSUME NEW X
  PROVE  <<>> \in Seq(Steps) /\ ~Has(<<>>, X) /\ CalmFrom(<<>>, 1) /\ Len(<<>>) = 0
BY DEF Has, CalmFrom

(* A rest that is calm from some step on, once its first step is done.     *)
LEMMA CalmTail ==
  ASSUME NEW s \in Seq(Steps), s # <<>>, NEW k \in Nat \ {0, 1}, CalmFrom(s, k)
  PROVE  CalmFrom(<<>> \o Tail(s), k - 1)
<1>1. PICK p \in Seq(Steps) : p = <<>>
  BY EmptyPlan
<1>2. CalmFrom(p \o Tail(s), Len(p) + k - 1)
  BY Followed
<1>3. Len(p) + k - 1 = k - 1
  BY <1>1
<1> QED BY <1>1, <1>2, <1>3

(* The first step tells how far an enrollment is.                          *)
LEMMA EnrollShape ==
  ASSUME NEW s \in Enrolls
  PROVE  /\ s[1] \in {"stop", "record", "restart"}
         /\ s[1] = "stop" => s = <<"stop", "record", "restart", "start">> /\ ~CalmFrom(s, 2)
         /\ s[1] = "record" => s \in {<<"record", "restart", "start">>, <<"record">>}
         /\ s[1] = "restart" => s = <<"restart", "start">>
<1>1. CASE s = <<"stop", "record", "restart", "start">>
  <2>1. 2 \in DOMAIN s /\ s[2] = "record" /\ s[1] = "stop"
    BY <1>1
  <2> QED BY <1>1, <2>1 DEF CalmFrom, CalmSteps
<1>2. CASE s = <<"record", "restart", "start">>
  BY <1>2
<1>3. CASE s = <<"restart", "start">>
  BY <1>3
<1>4. CASE s = <<"record">>
  BY <1>4
<1> QED BY <1>1, <1>2, <1>3, <1>4 DEF Enrolls

(* What PlanOK says of the one handler at work.                            *)
Plan(a) == todo[a] # <<>> /\ WillMatch(todo[a]) /\ WillShut(todo[a])

(* The first step of a list. *)
LEMMA HeadIsFirst ==
  ASSUME TypeInv, NEW a \in Actors, NEW step, At(a, step)
  PROVE  todo[a] # <<>> /\ todo[a][1] = step /\ todo[a] \in Lists /\ todo[a] \in Seq(Steps)
BY DEF At, TypeInv, Lists

(* A step with nothing to put before its rest.                             *)
LEMMA TailIsEmptyThen ==
  ASSUME NEW s \in Seq(Steps), s # <<>>
  PROVE  Tail(s) = <<>> \o Tail(s)
BY ConcatEmptySeq, HeadTailProperties

(* Each step keeps the plan.  First those that neither mute nor lock nor   *)
(* ask the pipeline for anything.                                          *)
LEMMA PlanCalm ==
  ASSUME TypeInv, NEW a \in Actors, Plan(a),
         SaveSleep(a) \/ UnmuteCheck(a) \/ WakeUp(a) \/ SwitchOpens(a) \/ Applied(a) \/ Ready(a)
  PROVE  WillMatch(todo[a])' /\ WillShut(todo[a])'
<1> USE DEF Plan
<1>1. CASE SaveSleep(a)
  <2>1. todo[a][1] = "saveSleep" /\ Then(a, <<>>) /\ UNCHANGED <<hw, locked, muted, asked, enrolling>>
    BY <1>1, HeadIsFirst DEF SaveSleep, lifecycle
  <2> QED BY <2>1, EmptyPlan, CalmStep DEF CalmSteps
<1>2. CASE UnmuteCheck(a)
  <2>1. todo[a][1] = "unmute" /\ todo[a] \in Seq(Steps) /\ Len(todo[a]) \in Nat \ {0} /\ 1 \in DOMAIN todo[a]
    BY <1>2, HeadIsFirst, EmptySeq, LenProperties DEF UnmuteCheck
  <2>2. ~hw
    BY <2>1 DEF WillShut, Has
  <2>3. Then(a, <<>>)
    BY <1>2, <2>1, <2>2, TailIsEmptyThen DEF UnmuteCheck, Then
  <2>4. UNCHANGED <<hw, locked, muted, asked, enrolling>>
    BY <1>2 DEF UnmuteCheck, lifecycle, switches
  <2> QED BY <2>1, <2>3, <2>4, EmptyPlan, CalmStep DEF CalmSteps
<1>3. CASE WakeUp(a)
  <2>1. todo[a][1] = "wake" /\ UNCHANGED <<hw, locked, muted, asked, enrolling>>
    BY <1>3, HeadIsFirst DEF WakeUp, lifecycle
  <2>2. PICK p \in {<<>>, <<"saveSleep", "wakeMic", "saveSleep">>} : Then(a, p)
    BY <1>3 DEF WakeUp
  <2>3. /\ p \in Seq(Steps) /\ ~Has(p, {"sync"}) /\ CalmFrom(p, 1)
        /\ ~Has(p, {"unmute", "live", "open", "unlock"})
    <3>1. CASE p = <<>>
      BY <3>1, EmptyPlan
    <3>2. CASE p = <<"saveSleep", "wakeMic", "saveSleep">>
      BY <3>2 DEF Steps, Has, CalmFrom, CalmSteps
    <3> QED BY <2>2, <3>1, <3>2
  <2> QED BY <2>1, <2>2, <2>3, CalmStep DEF CalmSteps
<1>4. CASE SwitchOpens(a)
  <2>1. todo[a][1] = "open" /\ UNCHANGED <<hw, locked, muted, asked, enrolling>>
    BY <1>4, HeadIsFirst DEF SwitchOpens, lifecycle, switches
  <2>2. PICK p \in {<<"unlock">>, <<"wake", "unmute", "live", "unlock">>} : Then(a, p)
    BY <1>4 DEF SwitchOpens
  <2>3. p \in Seq(Steps) /\ ~Has(p, {"sync"}) /\ CalmFrom(p, 1)
    <3>1. CASE p = <<"unlock">>
      BY <3>1 DEF Steps, Has, CalmFrom, CalmSteps
    <3>2. CASE p = <<"wake", "unmute", "live", "unlock">>
      BY <3>2 DEF Steps, Has, CalmFrom, CalmSteps
    <3> QED BY <2>2, <3>1, <3>2
  <2>4. todo[a] \in Seq(Steps) /\ Len(todo[a]) \in Nat \ {0} /\ 1 \in DOMAIN todo[a]
    BY <1>4, HeadIsFirst, EmptySeq, LenProperties DEF SwitchOpens
  <2>5. ~hw
    BY <2>1, <2>4 DEF WillShut, Has
  <2> QED BY <2>1, <2>2, <2>3, <2>5, CalmStep DEF CalmSteps
<1>5. CASE Applied(a)
  <2>1. todo[a][1] = "apply" /\ Then(a, <<>>) /\ UNCHANGED <<hw, locked, muted, asked, enrolling>>
    BY <1>5, HeadIsFirst DEF Applied, lifecycle
  <2> QED BY <2>1, EmptyPlan, CalmStep DEF CalmSteps
<1>6. CASE Ready(a)
  <2>1. todo[a][1] = "ready" /\ Then(a, <<>>) /\ UNCHANGED <<hw, locked, muted, asked, enrolling>>
    BY <1>6, HeadIsFirst DEF Ready, lifecycle, switches
  <2> QED BY <2>1, EmptyPlan, CalmStep DEF CalmSteps
<1> QED BY <1>1, <1>2, <1>3, <1>4, <1>5, <1>6

(* The steps that ask the pipeline for something, or are about to.         *)
LEMMA PlanGate ==
  ASSUME TypeInv, NEW a \in Actors, Plan(a), Gate(a)
  PROVE  WillMatch(todo[a])' /\ WillShut(todo[a])'
<1> DEFINE s == todo[a]
<1>1. s # <<>> /\ s[1] = "gate" /\ s \in Seq(Steps) /\ WillMatch(s) /\ WillShut(s)
  BY HeadIsFirst DEF Gate, Plan
<1>2. /\ Len(s) >= 2 /\ s[2] = "start" /\ CalmFrom(s, 3) /\ ~muted
      /\ s \notin Enrolls
  BY <1>1 DEF WillMatch, CalmFrom, CalmSteps, Enrolls, Boot
<1>3. Len(s) \in Nat /\ DOMAIN s = 1 .. Len(s)
  BY <1>1, LenProperties
<1>4. ~ShutIn /\ ~enrolling /\ ~MicLocked
  <2>1. Has(s, {"start"})
    BY <1>2, <1>3 DEF Has
  <2> QED BY <1>1, <1>2, <2>1 DEF WillShut, ShutIn, MicLocked
<1>5. todo'[a] = <<>> \o Tail(s)
  BY <1>1, <1>4, TailIsEmptyThen DEF Gate, TypeInv
<1>6. UNCHANGED <<hw, locked, muted, asked, enrolling>>
  BY DEF Gate, lifecycle, switches
<1>7. CalmFrom(<<>> \o Tail(s), 2)
  <2>1. CalmFrom(<<>> \o Tail(s), 3 - 1)
    BY <1>1, <1>2, CalmTail
  <2> QED BY <2>1
<1>8. Len(<<>> \o Tail(s)) >= 1 /\ (<<>> \o Tail(s))[1] = "start"
  <2>1. /\ Len(<<>> \o Tail(s)) = Len(<<>>) + Len(s) - 1
        /\ \A i \in 2 .. Len(s) : (<<>> \o Tail(s))[Len(<<>>) + i - 1] = s[i]
    BY <1>1, EmptyPlan, Replaced
  <2> QED BY <1>2, <1>3, <2>1
<1>9. WillMatch(todo[a])'
  BY <1>2, <1>5, <1>6, <1>7, <1>8 DEF WillMatch
<1>10. WillShut(todo[a])'
  BY <1>1, <1>4, <1>5, <1>6, ShutKeeps, EmptyPlan DEF WillShut
<1> QED BY <1>9, <1>10

(* A start: what was asked for matches the open microphone.                *)
LEMMA PlanStart ==
  ASSUME TypeInv, NEW a \in Actors, Plan(a), StartPipeline(a)
  PROVE  WillMatch(todo[a])' /\ WillShut(todo[a])'
<1> DEFINE s == todo[a]
<1>1. s # <<>> /\ s[1] = "start" /\ s \in Seq(Steps) /\ WillMatch(s) /\ WillShut(s)
  BY HeadIsFirst DEF StartPipeline, Plan
<1>2. CalmFrom(s, 2) /\ ~muted /\ s \notin Enrolls
  <2>1. Len(s) \in Nat \ {0} /\ DOMAIN s = 1 .. Len(s)
    BY <1>1, EmptySeq, LenProperties
  <2> QED BY <1>1, <2>1 DEF WillMatch, CalmFrom, CalmSteps, Enrolls, Boot
<1>3. todo'[a] = <<>> \o Tail(s)
  BY <1>1 DEF StartPipeline, Then, TypeInv
<1>4. UNCHANGED <<hw, locked, muted, enrolling>> /\ asked' = "start"
  BY DEF StartPipeline, RequestStart, switches
<1>5. WillMatch(todo[a])'
  <2>1. CalmFrom(<<>> \o Tail(s), 1)
    BY <1>1, <1>2, EmptyPlan, CalmReplaced
  <2> QED BY <1>2, <1>3, <1>4, <2>1 DEF WillMatch, Matched
<1>6. WillShut(todo[a])'
  BY <1>1, <1>2, <1>3, <1>4, ShutKeeps, EmptyPlan DEF WillShut
<1> QED BY <1>5, <1>6

(* A stop of a mute, of a route change or of an enrollment.                *)
LEMMA PlanStop ==
  ASSUME TypeInv, NEW a \in Actors, Plan(a), StopPipeline(a)
  PROVE  WillMatch(todo[a])' /\ WillShut(todo[a])'
<1> DEFINE s == todo[a]
<1>1. s # <<>> /\ s[1] = "stop" /\ s \in Seq(Steps) /\ WillMatch(s) /\ WillShut(s)
  BY HeadIsFirst DEF StopPipeline, Plan
<1>2. /\ todo'[a] = <<>> \o Tail(s) /\ todo'[a] = Tail(s)
      /\ UNCHANGED <<hw, locked, muted, enrolling>> /\ asked' = "stop"
  BY <1>1, TailIsEmptyThen DEF StopPipeline, Then, TypeInv, RequestStop, switches
<1>3. CASE CalmFrom(s, 2) /\ muted
  <2>1. s \notin Enrolls
    BY <1>1, <1>3, EnrollShape
  <2>2. CalmFrom(<<>> \o Tail(s), 1)
    BY <1>1, <1>3, EmptyPlan, CalmReplaced
  <2>3. WillMatch(todo[a])'
    BY <1>2, <1>3, <2>2 DEF WillMatch, Matched
  <2> QED BY <1>1, <1>2, <2>1, <2>3, ShutKeeps, EmptyPlan DEF WillShut
<1>4. CASE s = <<"stop", "start">> /\ ~muted
  <2>1. todo'[a] = <<"start">>
    BY <1>2, <1>4
  <2>2. WillMatch(todo[a])'
    BY <1>2, <1>4, <2>1 DEF WillMatch, CalmFrom
  <2>3. s \notin Enrolls
    BY <1>4 DEF Enrolls
  <2> QED BY <1>1, <1>2, <2>2, <2>3, ShutKeeps, EmptyPlan DEF WillShut
<1>5. CASE s = <<"stop", "record", "restart", "start">> /\ ~muted
  <2>1. todo'[a] = <<"record", "restart", "start">>
    BY <1>2, <1>5
  <2>2. WillMatch(todo[a])'
    BY <1>2, <1>5, <2>1 DEF WillMatch, Enrolls
  <2>3. ~ShutIn /\ ~ShutIn'
    BY <1>1, <1>2, <1>5 DEF WillShut, Has, ShutIn
  <2>4. /\ ~Has(todo'[a], {"unmute", "live", "open", "unlock"}) /\ SyncLast(todo'[a])
        /\ todo'[a] \in Enrolls \ {<<"restart", "start">>}
    BY <2>1 DEF Has, SyncLast, Enrolls
  <2>5. WillShut(todo[a])'
    BY <1>1, <1>2, <2>3, <2>4 DEF WillShut
  <2> QED BY <2>2, <2>5
<1>6. Len(s) \in Nat \ {0} /\ DOMAIN s = 1 .. Len(s)
  BY <1>1, EmptySeq, LenProperties
<1> QED BY <1>1, <1>3, <1>4, <1>5, <1>6 DEF WillMatch, CalmFrom, CalmSteps, Enrolls, Boot

(* The save of a mute before its stop, or after a start.                   *)
LEMMA PlanSaveMic ==
  ASSUME TypeInv, NEW a \in Actors, Plan(a), SaveMic(a)
  PROVE  WillMatch(todo[a])' /\ WillShut(todo[a])'
<1> DEFINE s == todo[a]
<1>1. s # <<>> /\ s[1] = "saveMic" /\ s \in Seq(Steps) /\ WillMatch(s) /\ WillShut(s)
  BY HeadIsFirst DEF SaveMic, Plan
<1>2. todo'[a] = <<>> \o Tail(s) /\ UNCHANGED <<hw, locked, muted, enrolling, asked>>
  BY <1>1 DEF SaveMic, Then, TypeInv, lifecycle
<1>3. /\ s \notin Enrolls
      /\ \/ CalmFrom(s, 1) /\ Matched
         \/ Len(s) >= 2 /\ s[2] = "stop" /\ CalmFrom(s, 3) /\ muted
  <2>1. s \notin Enrolls /\ s # <<"stop", "start">> /\ s # Boot /\ s # <<"record">>
    BY <1>1, EnrollShape DEF Boot
  <2>2. s \notin Enrolls \ {<<"record">>}
    BY <2>1
  <2> HIDE DEF s
  <2> QED BY <1>1, <2>1, <2>2 DEF WillMatch
<1>4. WillShut(todo[a])'
  BY <1>1, <1>2, <1>3, ShutKeeps, EmptyPlan DEF WillShut
<1>5. CASE CalmFrom(s, 1) /\ Matched
  <2>1. CalmFrom(<<>> \o Tail(s), 1)
    BY <1>1, <1>5, EmptyPlan, CalmReplaced DEF CalmFrom
  <2> QED BY <1>2, <1>4, <1>5, <2>1 DEF WillMatch, Matched
<1>6. CASE Len(s) >= 2 /\ s[2] = "stop" /\ CalmFrom(s, 3) /\ muted
  <2>1. CalmFrom(<<>> \o Tail(s), 3 - 1)
    BY <1>1, <1>6, CalmTail
  <2>2. CalmFrom(<<>> \o Tail(s), 2)
    BY <2>1
  <2>3. /\ Len(<<>> \o Tail(s)) = Len(<<>>) + Len(s) - 1
        /\ \A i \in 2 .. Len(s) : (<<>> \o Tail(s))[Len(<<>>) + i - 1] = s[i]
    BY <1>1, EmptyPlan, Replaced
  <2>4. Len(<<>> \o Tail(s)) >= 1 /\ (<<>> \o Tail(s))[1] = "stop"
    BY <1>1, <1>6, <2>3, LenProperties
  <2> QED BY <1>2, <1>4, <1>6, <2>2, <2>4 DEF WillMatch
<1> QED BY <1>3, <1>5, <1>6

(* The steps that open the microphone, and those that mute it.             *)
LEMMA OpensMic ==
  ASSUME TypeInv, NEW a \in Actors, Plan(a),
         NEW p \in {<<"gate", "start">>, <<"gate", "start", "saveMic">>}, Then(a, p),
         todo[a][1] \notin {"lock", "mute"}, CalmFrom(todo[a], 2), ~ShutIn, ~enrolling,
         UNCHANGED <<hw, locked, enrolling>>, ~muted'
  PROVE  WillMatch(todo[a])' /\ WillShut(todo[a])'
<1> DEFINE s == todo[a]
<1>1. s # <<>> /\ s \in Seq(Steps) /\ WillShut(s) /\ todo'[a] = p \o Tail(s)
  BY DEF Plan, TypeInv, Then, Lists
<1>2. /\ p \in Seq(Steps) /\ Len(p) \in {2, 3} /\ p[1] = "gate" /\ p[2] = "start"
      /\ CalmFrom(p, 3) /\ ~Has(p, {"sync"}) /\ ~Has(p, {"unmute", "live", "open", "unlock"})
  <2>1. CASE p = <<"gate", "start">>
    BY <2>1 DEF Steps, Has, CalmFrom
  <2>2. CASE p = <<"gate", "start", "saveMic">>
    BY <2>2 DEF Steps, Has, CalmFrom, CalmSteps
  <2> QED BY <2>1, <2>2
<1> DEFINE u == p \o Tail(s)
<1>3. /\ u \in Seq(Steps) /\ Len(u) = Len(p) + Len(s) - 1
      /\ \A i \in 1 .. Len(p) : u[i] = p[i]
  BY <1>1, <1>2, Replaced
<1>4. CalmFrom(u, Len(p) + 1)
  <2>1. CalmFrom(u, Len(p) + 2 - 1)
    BY <1>1, <1>2, Followed
  <2>2. Len(p) + 2 - 1 = Len(p) + 1
    BY <1>2
  <2> QED BY <2>1, <2>2
<1>5. Len(s) \in Nat \ {0} /\ DOMAIN u = 1 .. Len(u) /\ DOMAIN p = 1 .. Len(p)
  BY <1>1, <1>2, <1>3, EmptySeq, LenProperties
<1>6. Len(u) >= 2 /\ u[1] = "gate" /\ u[2] = "start" /\ CalmFrom(u, 3)
  <2> HIDE DEF u, s
  <2>1. CalmFrom(u, 3)
    BY <1>2, <1>3, <1>4, <1>5 DEF CalmFrom
  <2> QED BY <1>2, <1>3, <1>5, <2>1
<1>7. WillMatch(todo[a])'
  BY <1>1, <1>6 DEF WillMatch
<1>8. WillShut(todo[a])'
  <2>1. ShutIn /\ muted => muted'
    OBVIOUS
  <2> QED BY <1>1, <1>2, <2>1, ShutKeeps DEF WillShut
<1> QED BY <1>7, <1>8

(* An unmute and a wake that undoes its own mute.                          *)
LEMMA PlanOpens ==
  ASSUME TypeInv, NEW a \in Actors, Plan(a), UnmuteLive(a) \/ WakeMic(a)
  PROVE  WillMatch(todo[a])' /\ WillShut(todo[a])'
<1> DEFINE s == todo[a]
<1>1. s # <<>> /\ s \in Lists /\ s \in Seq(Steps) /\ WillMatch(s) /\ WillShut(s)
      /\ s[1] \in {"live", "wakeMic"} /\ (UnmuteLive(a) => s[1] = "live")
  BY HeadIsFirst DEF UnmuteLive, WakeMic, Plan
<1>2. CalmFrom(s, 1) /\ CalmFrom(s, 2) /\ Matched /\ ~enrolling
  BY <1>1, CalmHead DEF CalmSteps, CalmFrom
<1>3. UNCHANGED <<hw, locked, enrolling, asked>>
  BY DEF UnmuteLive, WakeMic, lifecycle
<1>4. CASE UnmuteLive(a)
  <2>1. ~hw /\ ~muted'
    <3>1. 1 \in DOMAIN s
      BY <1>1, EmptySeq, LenProperties
    <3> QED BY <1>1, <1>4, <3>1 DEF WillShut, Has, UnmuteLive
  <2>2. CASE muted
    BY <1>1, <1>2, <1>3, <1>4, <2>1, <2>2, OpensMic DEF UnmuteLive, ShutIn
  <2>3. CASE ~muted
    <3>1. Then(a, <<>>) /\ UNCHANGED muted
      BY <1>4, <2>1, <2>3 DEF UnmuteLive, TypeInv, TypedFlags
    <3> QED BY <1>1, <1>3, <3>1, EmptyPlan, CalmStep DEF Plan, CalmSteps
  <2> QED BY <2>2, <2>3
<1>5. CASE WakeMic(a)
  <2>1. CASE auto /\ ~hw
    BY <1>1, <1>2, <1>3, <1>5, <2>1, OpensMic DEF WakeMic, ShutIn
  <2>2. CASE ~(auto /\ ~hw)
    <3>1. Then(a, <<>>) /\ UNCHANGED muted
      BY <1>5, <2>2 DEF WakeMic, TypeInv, TypedFlags
    <3> QED BY <1>1, <1>3, <3>1, EmptyPlan, CalmStep DEF Plan, CalmSteps
  <2> QED BY <2>1, <2>2
<1> QED BY <1>4, <1>5

(* A step that mutes, and then saves and stops or stops and saves.         *)
LEMMA Mutes ==
  ASSUME TypeInv, NEW a \in Actors, Plan(a),
         NEW p \in {<<"saveMic", "stop">>, <<"stop", "saveSleep">>}, Then(a, p),
         CalmFrom(todo[a], 2), muted', UNCHANGED <<hw, locked, enrolling>>, ~enrolling,
         ShutIn => locked \/ Has(p \o Tail(todo[a]), {"lock"})
  PROVE  WillMatch(todo[a])' /\ WillShut(todo[a])'
<1> DEFINE s == todo[a]
           u == p \o Tail(s)
<1>1. s # <<>> /\ s \in Seq(Steps) /\ WillShut(s) /\ todo'[a] = u
  BY DEF Plan, TypeInv, Then, Lists
<1>2. /\ p \in Seq(Steps) /\ Len(p) = 2 /\ ~Has(p, {"sync"}) /\ ~Has(p, {"start"})
      /\ ~Has(p, {"unmute", "live", "open", "unlock"})
      /\ \/ p[1] = "stop" /\ p[2] \in CalmSteps
         \/ p[1] = "saveMic" /\ p[2] = "stop"
  <2>1. CASE p = <<"saveMic", "stop">>
    BY <2>1 DEF Steps, Has
  <2>2. CASE p = <<"stop", "saveSleep">>
    BY <2>2 DEF Steps, Has, CalmSteps
  <2> QED BY <2>1, <2>2
<1>3. /\ u \in Seq(Steps) /\ Len(u) = Len(p) + Len(s) - 1
      /\ \A i \in 1 .. Len(p) : u[i] = p[i]
  BY <1>1, <1>2, Replaced
<1>4. CalmFrom(u, 3)
  <2>1. CalmFrom(u, Len(p) + 2 - 1)
    <3>1. \A k \in Nat \ {0, 1} : CalmFrom(s, k) => CalmFrom(u, Len(p) + k - 1)
      BY <1>1, <1>2, Followed
    <3> HIDE DEF u
    <3> QED BY <3>1
  <2>2. Len(p) + 2 - 1 = 3
    BY <1>2
  <2> QED BY <2>1, <2>2
<1>5. Len(s) \in Nat \ {0} /\ DOMAIN u = 1 .. Len(u)
  BY <1>1, <1>3, EmptySeq, LenProperties
<1>6. WillMatch(todo[a])'
  <2> HIDE DEF u
  <2>1. Len(u) >= 2 /\ u[1] = p[1] /\ u[2] = p[2]
    BY <1>2, <1>3, <1>5
  <2>2. p[2] \in CalmSteps => CalmFrom(u, 2)
    BY <1>4, <1>5, <2>1 DEF CalmFrom
  <2> QED BY <1>1, <1>2, <1>4, <2>1, <2>2 DEF WillMatch
<1>7. WillShut(todo[a])'
  <2>1. /\ \A X : Has(u, X) => Has(p, X) \/ Has(s, X)
        /\ SyncLast(s) /\ ~Has(p, {"sync"}) => SyncLast(u)
    BY <1>1, <1>2, Followed
  <2>5. ShutIn => locked \/ Has(u, {"lock"})
    OBVIOUS
  <2> HIDE DEF u
  <2>2. Has(u, {"unmute", "live", "open", "unlock"}) => ~hw
    BY <1>1, <1>2, <2>1 DEF WillShut
  <2>3. Has(u, {"start"}) => ~ShutIn
    BY <1>1, <1>2, <2>1 DEF WillShut
  <2>4. SyncLast(u)
    BY <1>1, <1>2, <2>1 DEF WillShut
  <2> QED BY <1>1, <2>2, <2>3, <2>4, <2>5 DEF WillShut, ShutIn
<1> QED BY <1>1, <1>6, <1>7

(* Falling asleep mutes unless a wake came first or somebody muted before. *)
LEMMA PlanDoze ==
  ASSUME TypeInv, NEW a \in Actors, Plan(a), Doze(a)
  PROVE  WillMatch(todo[a])' /\ WillShut(todo[a])'
<1> DEFINE s == todo[a]
<1>1. s # <<>> /\ s[1] = "doze" /\ s \in Lists /\ s \in Seq(Steps) /\ WillMatch(s) /\ WillShut(s)
  BY HeadIsFirst DEF Doze, Plan
<1>2. CalmFrom(s, 1) /\ CalmFrom(s, 2) /\ Matched /\ ~enrolling
  BY <1>1, CalmHead DEF CalmSteps, CalmFrom
<1>3. UNCHANGED <<hw, locked, enrolling, asked>> /\ muted \in BOOLEAN /\ sleeping \in BOOLEAN
  BY DEF Doze, lifecycle, TypeInv, TypedFlags
<1>4. CASE ~sleeping
  <2>1. Then(a, <<>>) /\ UNCHANGED muted
    BY <1>3, <1>4 DEF Doze
  <2> QED BY <1>1, <1>3, <2>1, EmptyPlan, CalmStep DEF Plan, CalmSteps
<1>5. CASE sleeping /\ muted
  <2>1. Then(a, <<"saveSleep">>) /\ UNCHANGED muted
    BY <1>3, <1>5 DEF Doze
  <2>2. /\ <<"saveSleep">> \in Seq(Steps) /\ CalmFrom(<<"saveSleep">>, 1)
        /\ ~Has(<<"saveSleep">>, {"sync"})
        /\ ~Has(<<"saveSleep">>, {"unmute", "live", "open", "unlock"})
    BY DEF Steps, CalmFrom, CalmSteps, Has
  <2> QED BY <1>1, <1>3, <2>1, <2>2, CalmStep DEF Plan, CalmSteps
<1>6. CASE sleeping /\ ~muted
  <2>1. PICK p \in {<<"stop", "saveSleep">>} : p = <<"stop", "saveSleep">>
    OBVIOUS
  <2>2. Then(a, p) /\ muted' /\ p \in Seq(Steps)
    <3>1. muted' /\ Then(a, <<"stop", "saveSleep">>)
      BY <1>6 DEF Doze
    <3>2. p \in Seq(Steps)
      BY <2>1 DEF Steps
    <3> QED BY <2>1, <3>1, <3>2
  <2>3. ShutIn => locked \/ Has(p \o Tail(s), {"lock"})
    <3>1. Has(s, {"lock"}) => Has(p \o Tail(s), {"lock"})
      BY <1>1, <2>2, Followed
    <3> QED BY <1>1, <3>1 DEF WillShut
  <2> QED BY <1>2, <1>3, <2>2, <2>3, Mutes
<1> QED BY <1>3, <1>4, <1>5, <1>6

(* The mute of the switch.                                                 *)
LEMMA PlanMute ==
  ASSUME TypeInv, NEW a \in Actors, Plan(a), SwitchMutes(a)
  PROVE  WillMatch(todo[a])' /\ WillShut(todo[a])'
<1> DEFINE s == todo[a]
<1>1. s # <<>> /\ s[1] = "mute" /\ s \in Lists /\ s \in Seq(Steps) /\ WillMatch(s) /\ WillShut(s)
  BY HeadIsFirst DEF SwitchMutes, Plan
<1>2. CalmFrom(s, 1) /\ CalmFrom(s, 2) /\ Matched /\ ~enrolling
  BY <1>1, CalmHead DEF CalmSteps, CalmFrom
<1>3. UNCHANGED <<hw, locked, enrolling, asked>> /\ muted' = TRUE
  BY DEF SwitchMutes, lifecycle
<1>4. PICK p \in {<<>>, <<"saveMic", "stop">>} :
        Then(a, p) /\ (p = <<>> <=> muted)
  BY DEF SwitchMutes
<1>5. p \in Seq(Steps)
  <2>1. CASE p = <<>>
    BY <2>1
  <2>2. CASE p = <<"saveMic", "stop">>
    BY <2>2 DEF Steps
  <2> QED BY <1>4, <2>1, <2>2
<1>6. /\ \A X : Has(p \o Tail(s), X) => Has(p, X) \/ Has(s, X)
      /\ Has(s, {"lock"}) => Has(p \o Tail(s), {"lock"})
      /\ SyncLast(s) /\ ~Has(p, {"sync"}) => SyncLast(p \o Tail(s))
  BY <1>1, <1>5, Followed
<1>7. ShutIn => locked \/ Has(p \o Tail(s), {"lock"})
  BY <1>1, <1>6 DEF WillShut
<1>8. CASE muted
  <2>1. p = <<>> /\ ~Has(p, {"sync"}) /\ ~Has(p, {"start"}) /\ CalmFrom(p, 1)
        /\ ~Has(p, {"unmute", "live", "open", "unlock"})
    BY <1>4, <1>8, EmptyPlan
  <2>2. CalmFrom(p \o Tail(s), 1)
    BY <1>1, <1>2, <1>5, <2>1, CalmReplaced
  <2>3. todo'[a] = p \o Tail(s)
    BY <1>4 DEF Then, TypeInv
  <2> HIDE DEF s
  <2>4. WillMatch(todo[a])'
    BY <1>2, <1>3, <1>8, <2>2, <2>3 DEF WillMatch, Matched
  <2>5. /\ Has(p \o Tail(s), {"unmute", "live", "open", "unlock"}) => ~hw
        /\ Has(p \o Tail(s), {"start"}) => ~ShutIn
        /\ SyncLast(p \o Tail(s))
    BY <1>1, <1>6, <2>1 DEF WillShut
  <2>6. WillShut(todo[a])'
    BY <1>1, <1>2, <1>3, <1>7, <2>3, <2>5 DEF WillShut, ShutIn
  <2> QED BY <2>4, <2>6
<1>9. CASE ~muted
  BY <1>2, <1>3, <1>4, <1>7, <1>9, Mutes
<1> QED BY <1>8, <1>9

(* The locks of the switch.                                                *)
LEMMA PlanLock ==
  ASSUME TypeInv, NEW a \in Actors, Plan(a), Lock(a)
  PROVE  WillMatch(todo[a])' /\ WillShut(todo[a])'
<1> DEFINE s == todo[a]
<1>1. s # <<>> /\ s[1] \in {"lock", "unlock"} /\ s \in Lists /\ s \in Seq(Steps)
      /\ WillMatch(s) /\ WillShut(s)
  BY HeadIsFirst DEF Lock, Plan
<1>2. CalmFrom(s, 1) /\ CalmFrom(s, 2) /\ Matched /\ ~enrolling
  BY <1>1, CalmHead DEF CalmSteps, CalmFrom
<1>3. UNCHANGED <<hw, muted, enrolling, asked>>
  BY DEF Lock, lifecycle
<1>4. PICK p \in {<<>>, <<"mute">>} :
        /\ Then(a, p)
        /\ \/ s[1] = "lock" /\ locked' = Extended /\ p = <<"mute">>
           \/ s[1] = "unlock" /\ locked' = FALSE /\ p = <<>>
  BY HeadIsFirst DEF Lock
<1>5. /\ p \in Seq(Steps) /\ CalmFrom(p, 1) /\ ~Has(p, {"sync"}) /\ ~Has(p, {"start"})
      /\ ~Has(p, {"unmute", "live", "open", "unlock"})
      /\ p = <<"mute">> => Has(p, {"lock", "mute"})
  <2>1. CASE p = <<>>
    BY <2>1, EmptyPlan
  <2>2. CASE p = <<"mute">>
    BY <2>2 DEF Steps, CalmFrom, CalmSteps, Has
  <2> QED BY <1>4, <2>1, <2>2
<1>6. /\ \A X : Has(p \o Tail(s), X) => Has(p, X) \/ Has(s, X)
      /\ \A X : Has(p, X) => Has(p \o Tail(s), X)
      /\ SyncLast(s) /\ ~Has(p, {"sync"}) => SyncLast(p \o Tail(s))
  BY <1>1, <1>5, Followed
<1>7. todo'[a] = p \o Tail(s)
  BY <1>4 DEF Then, TypeInv
<1>8. CalmFrom(p \o Tail(s), 1)
  BY <1>1, <1>2, <1>5, CalmReplaced
<1>9. 1 \in DOMAIN s
  BY <1>1, EmptySeq, LenProperties
<1> HIDE DEF s
<1>10. WillMatch(todo[a])'
  BY <1>2, <1>3, <1>7, <1>8 DEF WillMatch, Matched
<1>11. /\ Has(p \o Tail(s), {"unmute", "live", "open", "unlock"}) => ~hw
       /\ Has(p \o Tail(s), {"start"}) => ~ShutIn
       /\ SyncLast(p \o Tail(s))
  BY <1>1, <1>5, <1>6 DEF WillShut
<1>12. CASE s[1] = "lock"
  <2>1. Has(p \o Tail(s), {"lock", "mute"}) /\ locked' = Extended
    BY <1>4, <1>5, <1>6, <1>12
  <2> QED BY <1>2, <1>3, <1>7, <1>10, <1>11, <2>1 DEF WillShut, ShutIn
<1>13. CASE s[1] = "unlock"
  <2>1. ~hw /\ locked' = FALSE
    BY <1>1, <1>4, <1>9, <1>13 DEF WillShut, Has
  <2> QED BY <1>2, <1>3, <1>7, <1>10, <1>11, <2>1 DEF WillShut, ShutIn
<1> QED BY <1>1, <1>12, <1>13

(* An enrollment.                                                          *)
LEMMA PlanEnroll ==
  ASSUME TypeInv, NEW a \in Actors, Plan(a), Recorded(a) \/ EnrollRestart(a)
  PROVE  WillMatch(todo[a])' /\ WillShut(todo[a])'
<1> DEFINE s == todo[a]
<1>1. s # <<>> /\ s \in Seq(Steps) /\ WillMatch(s) /\ WillShut(s)
      /\ (Recorded(a) => s[1] = "record") /\ (EnrollRestart(a) => s[1] = "restart")
  BY HeadIsFirst DEF Recorded, EnrollRestart, Plan
<1>2. UNCHANGED <<hw, locked, muted, asked>>
  BY DEF Recorded, EnrollRestart, lifecycle, switches
<1>3. 1 \in DOMAIN s
  BY <1>1, EmptySeq, LenProperties
<1>4. CASE Recorded(a)
  <2>1. \/ s = <<"record">> /\ Matched
        \/ s = <<"record", "restart", "start">> /\ ~muted
    BY <1>1, <1>3, <1>4 DEF WillMatch, CalmFrom, CalmSteps, Enrolls, Boot
  <2>2. enrolling' = FALSE /\ todo'[a] = Tail(s)
    BY <1>1, <1>4, TailIsEmptyThen DEF Recorded, Then, TypeInv
  <2>3. CASE s = <<"record">> /\ Matched
    <3>1. todo'[a] = <<>> /\ ~Has(s, {"lock", "mute"}) /\ ~Has(s, {"lock"})
      BY <2>2, <2>3 DEF Has
    <3>2. WillMatch(todo[a])'
      BY <1>2, <2>3, <3>1, EmptyPlan DEF WillMatch, Matched
    <3>3. SyncLast(<<>>)
      BY DEF SyncLast
    <3>4. WillShut(todo[a])'
      BY <1>1, <1>2, <2>2, <3>1, <3>3, EmptyPlan DEF WillShut, ShutIn
    <3> QED BY <3>2, <3>4
  <2>4. CASE s = <<"record", "restart", "start">> /\ ~muted
    <3>1. todo'[a] = <<"restart", "start">>
      BY <2>2, <2>4
    <3>2. ~ShutIn
      BY <1>1, <2>4 DEF WillShut, Has
    <3>3. WillMatch(todo[a])'
      BY <1>2, <2>4, <3>1 DEF WillMatch, Enrolls
    <3>4. /\ ~Has(<<"restart", "start">>, {"unmute", "live", "open", "unlock"})
          /\ SyncLast(<<"restart", "start">>)
      BY DEF Has, SyncLast
    <3>5. WillShut(todo[a])'
      BY <1>1, <1>2, <2>2, <3>1, <3>2, <3>4 DEF WillShut, ShutIn
    <3> QED BY <3>3, <3>5
  <2> QED BY <2>1, <2>3, <2>4
<1>5. CASE EnrollRestart(a)
  <2>1. s = <<"restart", "start">> /\ ~muted
    BY <1>1, <1>3, <1>5 DEF WillMatch, CalmFrom, CalmSteps, Enrolls, Boot
  <2>2. ~ShutIn /\ ~enrolling
    BY <1>1, <2>1 DEF WillShut, Has, Enrolls
  <2>3. ~MicLocked
    BY <1>1, <2>2 DEF WillShut, ShutIn, MicLocked
  <2>4. todo'[a] = <<"start">> /\ enrolling' = enrolling
    BY <1>5, <2>1, <2>3 DEF EnrollRestart, TypeInv, switches
  <2>5. WillMatch(todo[a])'
    BY <1>2, <2>1, <2>4 DEF WillMatch, CalmFrom
  <2>6. /\ ~Has(<<"start">>, {"unmute", "live", "open", "unlock"})
        /\ SyncLast(<<"start">>)
    BY DEF Has, SyncLast
  <2>7. WillShut(todo[a])'
    BY <1>1, <1>2, <2>2, <2>4, <2>6 DEF WillShut, ShutIn
  <2> QED BY <2>5, <2>7
<1> QED BY <1>4, <1>5

(* The autostart of the boot.                                              *)
LEMMA PlanAutostart ==
  ASSUME TypeInv, NEW a \in Actors, Plan(a), Autostart(a)
  PROVE  WillMatch(todo[a])' /\ WillShut(todo[a])'
<1> DEFINE s == todo[a]
<1>1. s # <<>> /\ s \in Seq(Steps) /\ s[1] = "autostart" /\ WillMatch(s) /\ WillShut(s)
  BY HeadIsFirst DEF Autostart, Plan
<1>2. 1 \in DOMAIN s
  BY <1>1, EmptySeq, LenProperties
<1>3. s = <<"autostart", "sync", "ready">> /\ asked = "stop"
  BY <1>1, <1>2 DEF WillMatch, CalmFrom, CalmSteps, Enrolls, Boot
<1>4. UNCHANGED <<hw, locked, muted, asked, enrolling>>
  BY DEF Autostart, lifecycle, switches
<1>5. ~enrolling /\ (ShutIn => muted /\ locked) /\ (locked => Extended)
  BY <1>1, <1>3 DEF WillShut, Has, Enrolls
<1>6. CASE muted
  <2>1. todo'[a] = <<"sync", "ready">>
    <3>1. todo'[a] = <<>> \o Tail(s)
      BY <1>6 DEF Autostart, Then, TypeInv
    <3> QED BY <1>1, <1>3, <3>1, TailIsEmptyThen
  <2>2. /\ CalmFrom(<<"sync", "ready">>, 1) /\ SyncLast(<<"sync", "ready">>)
        /\ ~Has(<<"sync", "ready">>, {"unmute", "live", "open", "unlock"})
        /\ ~Has(<<"sync", "ready">>, {"start"})
    BY DEF CalmFrom, CalmSteps, SyncLast, Has
  <2>3. WillMatch(todo[a])'
    BY <1>3, <1>4, <1>6, <2>1, <2>2 DEF WillMatch, Matched
  <2>4. WillShut(todo[a])'
    BY <1>4, <1>5, <2>1, <2>2 DEF WillShut, ShutIn
  <2> QED BY <2>3, <2>4
<1>7. CASE ~muted
  <2>1. Then(a, <<"gate", "start">>) /\ ~ShutIn /\ ~muted'
    BY <1>4, <1>5, <1>7 DEF Autostart
  <2>2. CalmFrom(s, 2)
    BY <1>3 DEF CalmFrom, CalmSteps
  <2> QED BY <1>1, <1>4, <1>5, <2>1, <2>2, OpensMic
<1> QED BY <1>6, <1>7

(* The first read of the pin.                                              *)
LEMMA PlanSync ==
  ASSUME TypeInv, NEW a \in Actors, Plan(a), FirstSync(a)
  PROVE  WillMatch(todo[a])' /\ WillShut(todo[a])'
<1> DEFINE s == todo[a]
<1>1. s # <<>> /\ s \in Lists /\ s \in Seq(Steps) /\ s[1] = "sync" /\ WillMatch(s) /\ WillShut(s)
  BY HeadIsFirst DEF FirstSync, Plan
<1>2. CalmFrom(s, 1) /\ CalmFrom(s, 2) /\ Matched /\ ~enrolling
  BY <1>1, CalmHead DEF CalmSteps, CalmFrom
<1>3. UNCHANGED <<locked, muted, asked, enrolling>> /\ hw' = pin
  BY DEF FirstSync, lifecycle
<1>4. DOMAIN s = 1 .. Len(s) /\ Len(s) \in Nat \ {0}
  BY <1>1, EmptySeq, LenProperties
<1>5. \A j \in 2 .. Len(s) : s[j] = "ready"
  BY <1>1, <1>4 DEF WillShut, SyncLast
<1>6. PICK p \in {<<"lock">>, <<"unlock">>, <<"unlock", "unmute", "live">>} :
        Then(a, p) /\ (pin => p = <<"lock">>) /\ (p = <<"lock">> => pin)
  <2>1. CASE pin
    BY <2>1 DEF FirstSync
  <2>2. CASE ~pin
    <3>1. \E p \in {<<"unlock">>, <<"unlock", "unmute", "live">>} : Then(a, p)
      BY <2>2 DEF FirstSync
    <3>2. <<"unlock">> # <<"lock">> /\ <<"unlock", "unmute", "live">> # <<"lock">>
      OBVIOUS
    <3> QED BY <2>2, <3>1, <3>2
  <2> QED BY <2>1, <2>2
<1>7. /\ p \in Seq(Steps) /\ CalmFrom(p, 1) /\ ~Has(p, {"sync"}) /\ ~Has(p, {"start"})
      /\ pin => Has(p, {"lock", "mute"}) /\ Has(p, {"lock"})
      /\ pin => ~Has(p, {"unmute", "live", "open", "unlock"})
  <2>1. CASE p = <<"lock">>
    BY <2>1 DEF Steps, CalmFrom, CalmSteps, Has
  <2>2. CASE p = <<"unlock">>
    BY <1>6, <2>2 DEF Steps, CalmFrom, CalmSteps, Has
  <2>3. CASE p = <<"unlock", "unmute", "live">>
    BY <1>6, <2>3 DEF Steps, CalmFrom, CalmSteps, Has
  <2> QED BY <1>6, <2>1, <2>2, <2>3
<1> DEFINE u == p \o Tail(s)
<1>8. /\ u \in Seq(Steps) /\ Len(u) = Len(p) + Len(s) - 1
      /\ \A i \in 1 .. Len(p) : u[i] = p[i]
      /\ \A i \in 2 .. Len(s) : u[Len(p) + i - 1] = s[i]
  BY <1>1, <1>7, Replaced
<1>9. todo'[a] = u /\ CalmFrom(u, 1)
  <2>1. CalmFrom(u, 1)
    BY <1>1, <1>2, <1>7, CalmReplaced
  <2> QED BY <1>6, <2>1 DEF Then, TypeInv
<1>10. DOMAIN u = 1 .. Len(u) /\ DOMAIN p = 1 .. Len(p) /\ Len(p) \in Nat
  BY <1>7, <1>8, LenProperties
<1>11. \A X : Has(p, X) => Has(u, X)
  BY <1>1, <1>7, Followed
<1> HIDE DEF u, s
<1>12. \A i \in DOMAIN u : (i \in DOMAIN p /\ u[i] = p[i]) \/ u[i] = "ready"
  <2> SUFFICES ASSUME NEW i \in DOMAIN u, i \notin DOMAIN p PROVE u[i] = "ready"
    BY <1>8, <1>10
  <2>1. i - Len(p) + 1 \in 2 .. Len(s) /\ i = Len(p) + (i - Len(p) + 1) - 1
    BY <1>4, <1>8, <1>10
  <2> QED BY <1>5, <1>8, <2>1
<1>13. ~Has(u, {"sync"}) /\ ~Has(u, {"start"})
  BY <1>7, <1>12 DEF Has
<1>14. pin => ~Has(u, {"unmute", "live", "open", "unlock"})
  BY <1>7, <1>12 DEF Has
<1>15. SyncLast(u)
  BY <1>13 DEF SyncLast, Has
<1>16. WillMatch(todo[a])'
  BY <1>2, <1>3, <1>9 DEF WillMatch, Matched
<1>17. WillShut(todo[a])'
  <2>1. locked => Extended
    BY <1>1 DEF WillShut
  <2> QED BY <1>2, <1>3, <1>7, <1>9, <1>11, <1>13, <1>14, <1>15, <2>1 DEF WillShut, ShutIn
<1> QED BY <1>16, <1>17

(* All steps together.                                                     *)
LEMMA PlanStep ==
  ASSUME TypeInv, NEW a \in Actors, Plan(a), Step(a)
  PROVE  WillMatch(todo[a])' /\ WillShut(todo[a])'
BY PlanCalm, PlanGate, PlanStart, PlanStop, PlanSaveMic, PlanOpens, PlanDoze, PlanMute,
   PlanLock, PlanEnroll, PlanAutostart, PlanSync
   DEF Step, HandlerStep

(* Only the handler that is at work changes its list.                      *)
LEMMA StepIsAlone ==
  ASSUME TypeInv, NEW a \in Actors, Step(a)
  PROVE  todo[a] # <<>> /\ \A b \in Actors \ {a} : todo'[b] = todo[b]
<1>1. todo[a] # <<>>
  BY DEF Step, HandlerStep, At, Gate, StartPipeline, StopPipeline, SaveMic, SaveSleep,
     UnmuteCheck, UnmuteLive, WakeUp, WakeMic, Doze, Recorded, EnrollRestart, Lock,
     SwitchMutes, SwitchOpens, Applied, Autostart, FirstSync, Ready
<1>2. \E p : todo' = [todo EXCEPT ![a] = p]
  BY DEF Step, HandlerStep, Then, Gate, StartPipeline, StopPipeline, SaveMic, SaveSleep,
     UnmuteCheck, UnmuteLive, WakeUp, WakeMic, Doze, Recorded, EnrollRestart, Lock,
     SwitchMutes, SwitchOpens, Applied, Autostart, FirstSync, Ready
<1> QED BY <1>1, <1>2 DEF TypeInv

(* A step of a handler that overlaps no other keeps PlanOK.                *)
LEMMA StepPlanned ==
  ASSUME TypeInv, PlanOK, NEW a \in Actors, Step(a)
  PROVE  PlanOK'
<1> SUFFICES ASSUME ~tangled'
             PROVE  \E b \in Actors : (Alone(b) /\ WillMatch(todo[b]) /\ WillShut(todo[b]))'
  BY DEF PlanOK
<1>1. ~tangled
  BY DEF Step
<1>2. PICK b \in Actors : Alone(b) /\ WillMatch(todo[b]) /\ WillShut(todo[b])
  BY <1>1 DEF PlanOK
<1>3. todo[a] # <<>> /\ \A c \in Actors \ {a} : todo'[c] = todo[c]
  BY StepIsAlone
<1>4. b = a
  BY <1>2, <1>3 DEF Alone
<1>5. WillMatch(todo[a])' /\ WillShut(todo[a])'
  BY <1>2, <1>3, <1>4, PlanStep DEF Plan
<1>6. Alone(a)'
  BY <1>2, <1>3, <1>4 DEF Alone
<1> QED BY <1>5, <1>6

-----------------------------------------------------------------------------
(* What holds when every handler is done.                                  *)
LEMMA WhenQuiet ==
  ASSUME PlanOK, ~tangled, Quiet
  PROVE  Matched /\ (ShutIn => muted /\ locked) /\ (locked => Extended) /\ ~enrolling
<1>1. PICK a \in Actors : WillMatch(<<>>) /\ WillShut(<<>>)
  BY DEF PlanOK, Quiet
<1>2. ~Has(<<>>, {"lock", "mute"}) /\ ~Has(<<>>, {"lock"})
  BY DEF Has
<1>3. <<>> \notin Enrolls /\ <<>> # Boot /\ <<>> # <<"record">> /\ <<>> # <<"stop", "start">>
      /\ Len(<<>>) = 0
  BY DEF Enrolls, Boot
<1> QED BY <1>1, <1>2, <1>3 DEF WillMatch, WillShut

(* A handler that starts while all others are done.                        *)
LEMMA Begun ==
  ASSUME TypeInv, Quiet, NEW c \in Actors, NEW p, todo' = [todo EXCEPT ![c] = p],
         WillMatch(p)', WillShut(p)'
  PROVE  \E a \in Actors : (Alone(a) /\ WillMatch(todo[a]) /\ WillShut(todo[a]))'
<1>1. todo'[c] = p /\ \A b \in Actors \ {c} : todo'[b] = <<>>
  BY DEF TypeInv, Quiet
<1> QED BY <1>1 DEF Alone, WillMatch, WillShut

(* The same for a request that overlaps nothing.                           *)
LEMMA EnterPlanned ==
  ASSUME TypeInv, NEW c \in Callers, NEW p, Enter(c, p), ~tangled', WillMatch(p)', WillShut(p)'
  PROVE  \E a \in Actors : (Alone(a) /\ WillMatch(todo[a]) /\ WillShut(todo[a]))'
<1>1. c \in Actors /\ Quiet /\ todo' = [todo EXCEPT ![c] = p]
  BY DEF Enter, Actors
<1> QED BY <1>1, Begun

(* Every request begins a list whose end matches.                          *)
LEMMA RequestPlanned ==
  ASSUME TypeInv, LifecycleInv, PlanOK, NEW c \in Callers, Request(c)
  PROVE  PlanOK'
<1> SUFFICES ASSUME ~tangled'
             PROVE  \E b \in Actors : (Alone(b) /\ WillMatch(todo[b]) /\ WillShut(todo[b]))'
  BY DEF PlanOK
<1>1. ~tangled /\ Quiet
  BY DEF Request, Mute, Unmute, Sleep, Wake, Scene, Enroll, Reroute, Enter
<1>2. Matched /\ (ShutIn => muted /\ locked) /\ (locked => Extended) /\ ~enrolling
  BY <1>1, WhenQuiet
<1>3. UNCHANGED <<hw, locked, asked>> /\ muted \in BOOLEAN
  BY DEF Request, Mute, Unmute, Sleep, Wake, Scene, Enroll, Reroute, Enter, switches,
     lifecycle, TypeInv, TypedFlags
<1>4. ASSUME NEW p \in {<<>>, <<"unmute", "live">>, <<"wake", "unmute", "live">>,
                        <<"saveSleep", "doze">>, <<"wake">>},
             Enter(c, p), UNCHANGED <<muted, enrolling>>,
             p \in {<<"unmute", "live">>, <<"wake", "unmute", "live">>} => ~hw
      PROVE  \E b \in Actors : (Alone(b) /\ WillMatch(todo[b]) /\ WillShut(todo[b]))'
  <2>1. /\ CalmFrom(p, 1) /\ SyncLast(p) /\ ~Has(p, {"start"})
        /\ Has(p, {"unmute", "live", "open", "unlock"}) => ~hw
    <3>1. CASE p = <<>>
      BY <3>1 DEF CalmFrom, SyncLast, Has
    <3>2. CASE p = <<"unmute", "live">>
      BY <1>4, <3>2 DEF CalmFrom, CalmSteps, SyncLast, Has
    <3>3. CASE p = <<"wake", "unmute", "live">>
      BY <1>4, <3>3 DEF CalmFrom, CalmSteps, SyncLast, Has
    <3>4. CASE p = <<"saveSleep", "doze">>
      BY <3>4 DEF CalmFrom, CalmSteps, SyncLast, Has
    <3>5. CASE p = <<"wake">>
      BY <3>5 DEF CalmFrom, CalmSteps, SyncLast, Has
    <3> QED BY <3>1, <3>2, <3>3, <3>4, <3>5
  <2>2. WillMatch(p)'
    BY <1>2, <1>3, <1>4, <2>1 DEF WillMatch, Matched
  <2>3. WillShut(p)'
    BY <1>2, <1>3, <1>4, <2>1 DEF WillShut, ShutIn
  <2> QED BY <1>4, <2>2, <2>3, EnterPlanned
<1>5. CASE Mute(c)
  <2>1. CASE muted
    <3>1. Enter(c, <<>>) /\ UNCHANGED <<muted, enrolling>>
      BY <1>3, <1>5, <2>1 DEF Mute
    <3>2. <<>> \notin {<<"unmute", "live">>, <<"wake", "unmute", "live">>}
      OBVIOUS
    <3> QED BY <1>4, <3>1, <3>2
  <2>2. CASE ~muted
    <3> DEFINE p == <<"saveMic", "stop">>
    <3>1. Enter(c, p) /\ muted' = TRUE /\ UNCHANGED enrolling
      BY <1>5, <2>2 DEF Mute
    <3>2. /\ Len(p) >= 2 /\ p[1] = "saveMic" /\ p[2] = "stop" /\ CalmFrom(p, 3) /\ SyncLast(p)
          /\ ~Has(p, {"start"}) /\ ~Has(p, {"unmute", "live", "open", "unlock"})
      BY DEF CalmFrom, SyncLast, Has
    <3> HIDE DEF p
    <3>3. WillMatch(p)'
      BY <3>1, <3>2 DEF WillMatch
    <3>4. WillShut(p)'
      BY <1>2, <1>3, <3>1, <3>2 DEF WillShut, ShutIn
    <3> QED BY <3>1, <3>3, <3>4, EnterPlanned
  <2> QED BY <2>1, <2>2
<1>6. CASE Unmute(c)
  <2>1. UNCHANGED <<muted, enrolling>>
    BY <1>6 DEF Unmute
  <2>2. CASE hw
    <3>1. Enter(c, <<>>)
      BY <1>6, <2>2 DEF Unmute
    <3>2. <<>> \notin {<<"unmute", "live">>, <<"wake", "unmute", "live">>}
      OBVIOUS
    <3> QED BY <1>4, <2>1, <3>1, <3>2
  <2>3. CASE ~hw
    <3>1. \E p \in {<<"unmute", "live">>, <<"wake", "unmute", "live">>} : Enter(c, p)
      BY <1>6, <2>3 DEF Unmute
    <3> QED BY <1>4, <2>1, <2>3, <3>1
  <2> QED BY <2>2, <2>3
<1>7. CASE Sleep(c)
  <2>1. Enter(c, <<"saveSleep", "doze">>) /\ UNCHANGED <<muted, enrolling>>
    BY <1>7 DEF Sleep
  <2>2. <<"saveSleep", "doze">> \notin {<<"unmute", "live">>, <<"wake", "unmute", "live">>}
    OBVIOUS
  <2> QED BY <1>4, <2>1, <2>2
<1>8. CASE Wake(c)
  <2>1. Enter(c, <<"wake">>) /\ UNCHANGED <<muted, enrolling>>
    BY <1>8 DEF Wake
  <2>2. <<"wake">> \notin {<<"unmute", "live">>, <<"wake", "unmute", "live">>}
    OBVIOUS
  <2> QED BY <1>4, <2>1, <2>2
<1>9. CASE Scene(c)
  <2>1. CASE muted /\ ~MicLocked
    <3> DEFINE p == <<"gate", "start", "saveMic">>
    <3>1. Enter(c, p) /\ muted' = FALSE /\ UNCHANGED enrolling
      BY <1>9, <2>1 DEF Scene
    <3>2. /\ Len(p) >= 2 /\ p[1] = "gate" /\ p[2] = "start" /\ CalmFrom(p, 3) /\ SyncLast(p)
          /\ ~Has(p, {"unmute", "live", "open", "unlock"})
      BY DEF CalmFrom, CalmSteps, SyncLast, Has
    <3>3. ~ShutIn
      BY <1>2, <2>1 DEF MicLocked, ShutIn
    <3> HIDE DEF p
    <3>4. WillMatch(p)'
      BY <3>1, <3>2 DEF WillMatch
    <3>5. WillShut(p)'
      BY <1>2, <1>3, <3>1, <3>2, <3>3 DEF WillShut, ShutIn
    <3> QED BY <3>1, <3>4, <3>5, EnterPlanned
  <2>2. CASE ~(muted /\ ~MicLocked)
    <3>1. Enter(c, <<>>) /\ UNCHANGED <<muted, enrolling>>
      BY <1>3, <1>9, <2>2 DEF Scene
    <3>2. <<>> \notin {<<"unmute", "live">>, <<"wake", "unmute", "live">>}
      OBVIOUS
    <3> QED BY <1>4, <3>1, <3>2
  <2> QED BY <2>1, <2>2
<1>10. CASE Enroll(c)
  <2>1. enrolling' = TRUE /\ UNCHANGED muted /\ ~ShutIn
    BY <1>2, <1>10 DEF Enroll, MicLocked, ShutIn
  <2>2. CASE running
    <3> DEFINE p == <<"stop", "record", "restart", "start">>
    <3>1. Enter(c, p)
      BY <1>10, <2>2 DEF Enroll
    <3>2. ~muted
      BY <1>2, <2>2 DEF Matched, LifecycleInv, LifecycleTypeOK, LastRequestWins
    <3>3. /\ p \in Enrolls \ {<<"record">>} /\ p \in Enrolls \ {<<"restart", "start">>}
          /\ SyncLast(p) /\ ~Has(p, {"unmute", "live", "open", "unlock"})
      BY DEF Enrolls, SyncLast, Has
    <3> HIDE DEF p
    <3>4. WillMatch(p)'
      BY <2>1, <3>2, <3>3 DEF WillMatch
    <3>5. WillShut(p)'
      BY <1>2, <1>3, <2>1, <3>3 DEF WillShut, ShutIn
    <3> QED BY <3>1, <3>4, <3>5, EnterPlanned
  <2>3. CASE ~running
    <3> DEFINE p == <<"record">>
    <3>1. Enter(c, p)
      BY <1>10, <2>3 DEF Enroll
    <3>2. /\ p \in Enrolls \ {<<"restart", "start">>} /\ SyncLast(p)
          /\ ~Has(p, {"unmute", "live", "open", "unlock"})
      BY DEF Enrolls, SyncLast, Has
    <3>3. WillMatch(p)'
      BY <1>2, <1>3, <2>1 DEF WillMatch, Matched
    <3> HIDE DEF p
    <3>4. WillShut(p)'
      BY <1>2, <1>3, <2>1, <3>2 DEF WillShut, ShutIn
    <3> QED BY <3>1, <3>3, <3>4, EnterPlanned
  <2> QED BY <2>2, <2>3
<1>11. CASE Reroute(c)
  <2> DEFINE p == <<"stop", "start">>
  <2>1. todo' = [todo EXCEPT ![c] = p] /\ ~muted /\ UNCHANGED <<muted, enrolling>> /\ c \in Actors
    BY <1>11 DEF Reroute, switches, Actors
  <2>2. SyncLast(p) /\ ~Has(p, {"unmute", "live", "open", "unlock"})
    BY DEF SyncLast, Has
  <2>3. WillMatch(p)'
    BY <2>1 DEF WillMatch
  <2> HIDE DEF p
  <2>4. WillShut(p)'
    BY <1>2, <1>3, <2>1, <2>2 DEF WillShut, ShutIn
  <2> QED BY <1>1, <2>1, <2>3, <2>4, Begun
<1> QED BY <1>5, <1>6, <1>7, <1>8, <1>9, <1>10, <1>11 DEF Request

(* A process that starts, from nothing or from the saved mutes.            *)
Booting ==
  /\ todo = [a \in Actors |-> IF a = Switch THEN Boot ELSE <<>>]
  /\ asked = "stop"
  /\ hw = Extended /\ locked = Extended /\ (Extended => muted) /\ ~enrolling

(* The boot has a plan.                                                    *)
LEMMA PlanInit == Booting => PlanOK
<1> SUFFICES ASSUME Booting PROVE PlanOK
  OBVIOUS
<1> USE DEF Booting
<1>1. Switch \in Actors /\ Alone(Switch) /\ todo[Switch] = Boot
  BY DEF Actors, Alone
<1>2. WillMatch(Boot)
  BY DEF WillMatch
<1>3. SyncLast(Boot) /\ ~Has(Boot, {"start"}) /\ ~Has(Boot, {"unmute", "live", "open", "unlock"})
  BY DEF SyncLast, Has, Boot
<1>4. WillShut(Boot)
  BY <1>3 DEF WillShut, ShutIn
<1> QED BY <1>1, <1>2, <1>4 DEF PlanOK

(* What does not touch the plan keeps it.                                  *)
LEMMA Replanned ==
  ASSUME PlanOK, UNCHANGED <<hw, locked, muted, enrolling, asked, todo, tangled>>
  PROVE  PlanOK'
BY DEF PlanOK, Alone, WillMatch, WillShut, Matched, ShutIn

(* Every step of the system keeps PlanOK.                                  *)
LEMMA PlanOKStep == LifecycleInv /\ TypeInv /\ PlanOK /\ [Next]_vars => PlanOK'
<1> SUFFICES ASSUME LifecycleInv, TypeInv, PlanOK, [Next]_vars PROVE PlanOK'
  OBVIOUS
<1>1. CASE Flip
  BY <1>1, Replanned DEF Flip, lifecycle
<1>2. CASE Reconcile
  <2> SUFFICES ASSUME ~tangled'
               PROVE  \E b \in Actors : (Alone(b) /\ WillMatch(todo[b]) /\ WillShut(todo[b]))'
    BY DEF PlanOK
  <2>1. ~tangled /\ Quiet /\ Switch \in Actors
    BY <1>2 DEF Reconcile, Actors
  <2>2. Matched /\ (ShutIn => muted /\ locked) /\ (locked => Extended) /\ ~enrolling
    BY <2>1, WhenQuiet
  <2>3. PICK p \in {<<"lock", "apply">>, <<"open", "apply">>} :
          todo' = [todo EXCEPT ![Switch] = p] /\ (pin <=> p = <<"lock", "apply">>)
    <3>1. CASE pin
      BY <1>2, <3>1 DEF Reconcile
    <3>2. CASE ~pin
      <4>1. <<"open", "apply">> # <<"lock", "apply">>
        OBVIOUS
      <4> QED BY <1>2, <3>2, <4>1 DEF Reconcile
    <3> QED BY <3>1, <3>2
  <2>4. hw' = pin /\ UNCHANGED <<locked, muted, enrolling, asked>>
    BY <1>2 DEF Reconcile, lifecycle
  <2>5. /\ CalmFrom(p, 1) /\ SyncLast(p) /\ ~Has(p, {"start"})
        /\ pin => Has(p, {"lock", "mute"}) /\ Has(p, {"lock"})
        /\ pin => ~Has(p, {"unmute", "live", "open", "unlock"})
    <3>1. CASE p = <<"lock", "apply">>
      BY <3>1 DEF CalmFrom, CalmSteps, SyncLast, Has
    <3>2. CASE p = <<"open", "apply">>
      <4>1. ~pin
        BY <2>3, <3>2
      <4> QED BY <3>2, <4>1 DEF CalmFrom, CalmSteps, SyncLast, Has
    <3> QED BY <2>3, <3>1, <3>2
  <2>6. WillMatch(p)'
    BY <2>2, <2>4, <2>5 DEF WillMatch, Matched
  <2>7. WillShut(p)'
    BY <2>2, <2>4, <2>5 DEF WillShut, ShutIn
  <2> QED BY <2>1, <2>3, <2>6, <2>7, Begun
<1>3. CASE Restart
  <2>1. /\ todo' = [a \in Actors |-> IF a = Switch THEN Boot ELSE <<>>] /\ asked' = "stop"
        /\ hw' = Extended /\ locked' = Extended /\ ~enrolling'
    BY <1>3 DEF Restart, LifecycleRestart
  <2>2. Extended => muted'
    BY <1>3 DEF Restart
  <2>3. Booting'
    BY <2>1, <2>2 DEF Booting
  <2> QED BY <2>3, PlanInit, PTL
<1>4. CASE Worker
  <2>1. UNCHANGED <<hw, locked, muted, enrolling, asked, todo, tangled>>
    BY <1>4 DEF Worker, switches, LifecycleWorker, TeardownEnds, LoopExits,
       RealtimeStopped, Resume
  <2> QED BY <2>1, Replanned
<1>5. CASE UNCHANGED vars
  BY <1>5, Replanned DEF vars, lifecycle, switches
<1> QED BY <1>1, <1>2, <1>3, <1>4, <1>5, StepPlanned, RequestPlanned DEF Next

-----------------------------------------------------------------------------
(* A start that was asked for last is up or has a worker that will bring   *)
(* it up.                                                                  *)
StartKept == asked = "start" => running \/ revision \in resumes

(* A worker that goes without starting the pipeline was not of the last    *)
(* start.                                                                  *)
LEMMA StartKeptStep == LifecycleInv /\ StartKept /\ LifecycleNext => StartKept'
<1> SUFFICES ASSUME LifecycleInv, StartKept, LifecycleNext PROVE StartKept'
  OBVIOUS
<1> USE DEF StartKept
<1>1. CASE RequestStart
  BY <1>1 DEF RequestStart, StartLocked
<1>2. CASE RequestStop \/ LifecycleRestart
  BY <1>2 DEF RequestStop, LifecycleRestart
<1>3. CASE TeardownEnds \/ LoopExits \/ RealtimeStopped \/ UNCHANGED lifecycle
  BY <1>3 DEF TeardownEnds, LoopExits, RealtimeStopped, lifecycle
<1>4. ASSUME NEW r \in resumes, Resume(r) PROVE StartKept'
  BY <1>4 DEF Resume, Current
<1> QED BY <1>1, <1>2, <1>3, <1>4 DEF LifecycleNext, LifecycleWorker

(* When all handlers are done and none overlapped another, the pipeline    *)
(* runs exactly if the microphone is not muted, and on a device whose      *)
(* switch locks its peripherals a closed switch is a mute: through every   *)
(* sequence of mutes, sleeps, wakes, scenes, enrollments, flips of the     *)
(* switch and restarts (routes/voice.py, routes/emotion.py,                *)
(* privacy_button.py).                                                     *)
THEOREM PipelineMatchesMuteAlways == Spec => []PipelineMatchesMute
<1> DEFINE Inv == LifecycleInv /\ TypeInv /\ PlanOK /\ StartKept
<1>1. Init => Inv
  <2> SUFFICES ASSUME Init PROVE Inv
    OBVIOUS
  <2>1. LifecycleInv /\ TypeInv
    BY FreshLifecycle, TypeInvInit DEF Init
  <2>2. PlanOK
    BY PlanInit DEF Booting, Init, LifecycleInit
  <2>3. StartKept
    BY DEF Init, LifecycleInit, StartKept
  <2> QED BY <2>1, <2>2, <2>3
<1>2. Inv /\ [Next]_vars => Inv'
  BY HandlersOnlyRequest, LifecycleStep, TypeInvStep, PlanOKStep, StartKeptStep
<1>3. Inv => PipelineMatchesMute
  <2> SUFFICES ASSUME Inv, Settled, ~tangled
               PROVE  (running <=> ~muted) /\ (Extended /\ hw => muted)
    BY DEF PipelineMatchesMute
  <2>1. Matched /\ (ShutIn => muted)
    BY WhenQuiet DEF Settled
  <2>2. running <=> asked = "start"
    BY DEF Settled, StartKept, LifecycleInv, LifecycleTypeOK, LastRequestWins
  <2> QED BY <2>1, <2>2 DEF Matched, ShutIn
<1> QED BY <1>1, <1>2, <1>3, PTL DEF Spec
=============================================================================
