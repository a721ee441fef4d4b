--------------------------- MODULE VoiceLifecycle ---------------------------
(***************************************************************************)
(* The start and stop of the voice pipeline: VoiceService of               *)
(* hal/drivers/voice/voice_service.py.  A capture loop runs in a thread of *)
(* its own while `running` is set.  stop() takes the lifecycle lock,       *)
(* clears `running` and hands the lock to a teardown thread, which waits a *)
(* bounded time for the loop and for the teardown of the realtime session; *)
(* either may outlive the wait.  start() during such a teardown leaves a   *)
(* worker behind that starts the pipeline once both are gone, unless a     *)
(* later start() or stop() has superseded it.                              *)
(***************************************************************************)
EXTENDS Naturals, FiniteSets

CONSTANT MaxRevision    \* bound: lifecycle requests of one process

ASSUME RevisionBound == MaxRevision \in Nat

VARIABLES
  running,    \* _running: the loop may go on
  loops,      \* the capture loops that are alive
  thread,     \* _thread: "none", or the "live" or "dead" loop it refers to
  realtime,   \* _realtime_stop_thread is alive
  teardown,   \* the lifecycle lock is held by a teardown
  revision,   \* _lifecycle_revision
  resumes,    \* the revisions of the workers in _resume_after_teardown
  asked       \* what the last request asked for; no code reads it

lifecycle == <<running, loops, thread, realtime, teardown, revision, resumes, asked>>

LifecycleTypeOK ==
  /\ running \in BOOLEAN /\ realtime \in BOOLEAN /\ teardown \in BOOLEAN
  /\ loops \in Nat
  /\ thread \in {"none", "live", "dead"}
  /\ revision \in 0 .. MaxRevision
  /\ resumes \subseteq 0 .. MaxRevision
  /\ asked \in {"start", "stop"}

LifecycleInit ==
  /\ running = FALSE /\ loops = 0 /\ thread = "none" /\ realtime = FALSE
  /\ teardown = FALSE /\ revision = 0 /\ resumes = {} /\ asked = "stop"

(* A new process.                                                          *)
LifecycleRestart ==
  /\ running' = FALSE /\ loops' = 0 /\ thread' = "none" /\ realtime' = FALSE
  /\ teardown' = FALSE /\ revision' = 0 /\ resumes' = {} /\ asked' = "stop"

-----------------------------------------------------------------------------
(* Mutant: a start does not look at the workers of the last stop. *)
StillStoppingNot == FALSE

(* A pipeline that is down but whose workers have not all gone.            *)
StillStopping == ~running /\ (thread = "live" \/ realtime)

(* Mutant: a start that meets a teardown is given up. *)
StartLockedOrNot(r) ==
  /\ IF StillStopping \/ running
     THEN UNCHANGED <<running, loops, thread>>
     ELSE running' = TRUE /\ loops' = loops + 1 /\ thread' = "live"
  /\ UNCHANGED resumes

(* _start_locked for the request of revision r.                            *)
StartLocked(r) ==
  IF StillStopping
  THEN resumes' = resumes \cup {r} /\ UNCHANGED <<running, loops, thread>>
  ELSE /\ running' = TRUE
       /\ IF running THEN UNCHANGED <<loops, thread>>
                     ELSE loops' = loops + 1 /\ thread' = "live"
       /\ UNCHANGED resumes

CanRequest == ~teardown /\ revision < MaxRevision

RequestStart ==
  /\ CanRequest
  /\ revision' = revision + 1
  /\ asked' = "start"
  /\ StartLocked(revision')
  /\ UNCHANGED <<realtime, teardown>>

(* stop(): the teardown owns the lock when the call returns.               *)
RequestStop ==
  /\ CanRequest
  /\ revision' = revision + 1
  /\ asked' = "stop"
  /\ running' = FALSE
  /\ realtime' = TRUE
  /\ teardown' = TRUE
  /\ UNCHANGED <<loops, thread, resumes>>

(* The waits of the teardown ended or timed out; a loop that is still      *)
(* alive stays owned by the service.                                       *)
TeardownEnds ==
  /\ teardown
  /\ teardown' = FALSE
  /\ thread' = IF thread = "live" THEN "live" ELSE "none"
  /\ UNCHANGED <<running, loops, realtime, revision, resumes, asked>>

(* Mutant: the end of a loop is counted while none is alive. *)
LoopExitsAgain ==
  /\ ~running
  /\ loops' = loops - 1
  /\ thread' = "dead"
  /\ UNCHANGED <<running, realtime, teardown, revision, resumes, asked>>

LoopExits ==
  /\ ~running /\ loops > 0
  /\ loops' = loops - 1
  /\ thread' = "dead"
  /\ UNCHANGED <<running, realtime, teardown, revision, resumes, asked>>

RealtimeStopped ==
  /\ realtime
  /\ realtime' = FALSE
  /\ UNCHANGED <<running, loops, thread, teardown, revision, resumes, asked>>

(* Mutant: a worker starts the pipeline for a request that was superseded. *)
CurrentAny(r) == TRUE

Current(r) == r = revision

(* _resume_after_teardown once the workers it waited for are gone.         *)
Resume(r) ==
  /\ r \in resumes
  /\ thread # "live" /\ ~realtime
  /\ ~teardown
  /\ IF Current(r)
     THEN running' = TRUE /\ loops' = loops + 1 /\ thread' = "live"
     ELSE UNCHANGED <<running, loops, thread>>
  /\ resumes' = resumes \ {r}
  /\ UNCHANGED <<realtime, teardown, revision, asked>>

LifecycleWorker ==
  \/ TeardownEnds
  \/ LoopExits
  \/ RealtimeStopped
  \/ \E r \in resumes : Resume(r)

-----------------------------------------------------------------------------
(* At most one capture loop is alive, however the waits of teardowns time  *)
(* out and restarts are put off (_start_locked): two loops on one exclusive *)
(* capture device fail each other.                                         *)
OneCapture == loops <= 1

(* The last request wins: a pipeline whose last request was a stop is down *)
(* and no worker of an older start brings it back (_lifecycle_revision).   *)
LastRequestWins == asked = "stop" => ~running
=============================================================================
