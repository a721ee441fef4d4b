--------------------------- MODULE HarnessDelivery ---------------------------
(***************************************************************************)
(* How OS server carries a task to the paired computer and its result back *)
(* to the turn that asked: the HTTP request handler and its routes         *)
(* (server/harness.go), the hooks around a request and the result worker   *)
(* (server/harness_results.go), and the run marks of the agent handler     *)
(* (handler_harness.go, handler_harness_result.go).  The ledger is the one *)
(* of ResultLedger; ResultStore.tla shows why a write can be taken as one  *)
(* step that either happens or fails.                                      *)
(*                                                                         *)
(* Request handlers run concurrently with each other and with the single   *)
(* worker, which serves one result at a time.  The steps of each follow    *)
(* the places where the code takes and releases a lock.  The computer is   *)
(* outside the repository: it accepts an input once per key, answers every *)
(* key with one result and replays its events after a reconnect.           *)
(***************************************************************************)
EXTENDS ResultLedger

CONSTANTS
  RunOf,          \* the local run that each key's dispatch names
  WebRuns,        \* the runs of web chats; the others are voice turns
  DeliveryOf,     \* the delivery id the computer assigns to each key
  Outcome,        \* the frame of each result the computer produces
  Agent,          \* the one agent
  Slow,           \* keys whose answer may take more than 15 minutes
  MaxGeneration,  \* bound on changes of the voice listener
  MaxFaults,      \* bound on failed writes
  MaxCrashes      \* bound on restarts

ASSUME DispatchAssumption ==
  /\ RunOf \in [Keys -> Runs] /\ WebRuns \subseteq Runs /\ Slow \subseteq Keys
  /\ DeliveryOf \in [Keys -> Deliveries]
  /\ Outcome \in [ResultIds -> Frames] /\ Agent \in Agents
  /\ Destinations = 0 .. MaxGeneration /\ Web = 0
  /\ \A s \in ResultIds : \A k \in Members(Outcome[s]) :
       Outcome[s].members[k] = DeliveryOf[k]

ASSUME BoundsAssumption ==
  MaxGeneration \in Nat \ {0} /\ MaxFaults \in Nat /\ MaxCrashes \in Nat

VARIABLES
  ledger,     \* the ResultStore
  routes,     \* Server.harnessReplies: run -> route
  marks,      \* AgentHandler.harnessReplies: run -> mark
  calls,      \* what the request handler of each key is doing
  worker,     \* the delivery processHarnessResults is in the middle of
  published,  \* Server.harnessResultsPublished
  listener,   \* VoiceController generation: who is at the microphone
  late,       \* keys whose ExpiresAt has passed
  received,   \* keys the computer has accepted
  emitted,    \* results the computer has produced
  captured,   \* results behind the replay cursor of this process
  dispatched, \* runs dispatched since this process started
  shown,      \* displays of each result since this process started
  spoken,     \* submissions of each result to the speaker, ever
  faults,     \* failed writes so far
  crashes     \* restarts so far

storeV == <<ledger, late>>
routeV == <<routes, marks, dispatched>>
workV  == <<worker, published, shown, spoken>>
compV  == <<received, emitted, captured>>
boundV == <<faults, crashes>>
vars   == <<storeV, routeV, calls, workV, listener, compV, boundV>>

Route  == [key : Keys, restored : BOOLEAN, completed : BOOLEAN]
ASSUME RouteAssumption == None \notin Route

Mark   == [delivered : BOOLEAN, restored : BOOLEAN, old : BOOLEAN]
NewMark == [delivered |-> FALSE, restored |-> FALSE, old |-> FALSE]
Worker == [step : {"idle", "inspect", "claim", "show", "submit", "finish"},
           s : ResultIds \cup {None}, since : 1 .. MaxGeneration,
           live : BOOLEAN, speaker : BOOLEAN, claimed : BOOLEAN, state : SpeechDone]
Idle   == [step |-> "idle", s |-> None, since |-> 1, live |-> FALSE,
           speaker |-> FALSE, claimed |-> FALSE, state |-> "suppressed"]

Init ==
  /\ ledger = EmptyLedger
  /\ routes = [r \in Runs |-> None] /\ marks = [r \in Runs |-> None]
  /\ calls = [k \in Keys |-> "idle"]
  /\ worker = Idle /\ published = {}
  /\ listener = 1 /\ late = {}
  /\ received = {} /\ emitted = {} /\ captured = {}
  /\ dispatched = {}
  /\ shown = [s \in ResultIds |-> 0] /\ spoken = [s \in ResultIds |-> 0]
  /\ faults = 0 /\ crashes = 0

Fault == faults < MaxFaults /\ faults' = faults + 1 /\ UNCHANGED crashes

(* MarkHarnessResponseRun drops marks past 15 minutes, then keeps or adds r. *)
Purged(m) == [r \in Runs |-> IF m[r] # None /\ m[r].old THEN None ELSE m[r]]
Marked(m, r) == [Purged(m) EXCEPT ![r] = IF @ = None THEN NewMark ELSE @]

(* restoreHarnessResultRoute for the runs in R, which have no route; m are *)
(* the marks before.  A run has at most one reservation.                   *)
InputOf(r) == CHOOSE k \in Keys : ledger.inputs[k] # None /\ ledger.inputs[k].run = r
RestoredRoute(r) == [key |-> InputOf(r), restored |-> TRUE,
                     completed |-> ledger.inputs[InputOf(r)].result # None]
RestoredMarks(m, R) ==
  [r \in Runs |-> IF r \notin R THEN (IF R = {} THEN m[r] ELSE Purged(m)[r])
                  ELSE [(IF Purged(m)[r] = None THEN NewMark ELSE m[r]) EXCEPT !.restored = TRUE]]

-----------------------------------------------------------------------------
(* The request handler of key k: POST /api/harness/request.                *)

(* registerHarnessDispatch, before the request: the route of the run is    *)
(* replaced under one lock, its mark added or kept under another.          *)
Register(k) ==
  /\ calls[k] \in {"idle", "unknown"}
  /\ routes' = [routes EXCEPT ![RunOf[k]] =
                  [key |-> k, restored |-> FALSE, completed |-> FALSE]]
  /\ dispatched' = dispatched \cup {RunOf[k]}
  /\ calls' = [calls EXCEPT ![k] = "registering"]
  /\ UNCHANGED <<storeV, marks, workV, listener, compV, boundV>>

MarkRun(k) ==
  /\ calls[k] = "registering"
  /\ marks' = Marked(marks, RunOf[k])
  /\ calls' = [calls EXCEPT ![k] = "registered"]
  /\ UNCHANGED <<storeV, routes, dispatched, workV, listener, compV, boundV>>

(* A definite error: forgetHarnessReply takes the route of the run.        *)
Forget(k) ==
  /\ routes' = [routes EXCEPT ![RunOf[k]] = None]
  /\ calls' = [calls EXCEPT ![k] = "idle"]
  /\ UNCHANGED <<marks, dispatched, workV, listener, compV>>

(* Not connected, unsupported, too many requests, or cancelled before the  *)
(* frame is sent.                                                          *)
Refuse(k) ==
  /\ calls[k] \in {"registered", "reserved", "sending"}
  /\ Forget(k)
  /\ UNCHANGED <<storeV, boundV>>

RouteOf(k) == routes[RunOf[k]]

Tracked(k) == RouteOf(k) # None /\ RouteOf(k).key = k /\ ~RouteOf(k).completed
DestOf(k) == IF RunOf[k] \in WebRuns THEN Web ELSE listener

Known(k) ==
  /\ ledger.inputs[k] # None
  /\ ledger.inputs[k].run = RunOf[k] /\ ledger.inputs[k].dest = DestOf(k)

(* Mutant: a reservation that was not saved does not stop the request. *)
StorageFailsOpen(k) ==
  /\ Fault /\ calls' = [calls EXCEPT ![k] = "reserved"]
  /\ UNCHANGED <<ledger, routeV, workV, listener, compV>>

StorageFails(k) == Fault /\ Forget(k) /\ UNCHANGED ledger

(* reserveHarnessResult (BeforeRequest).  Without a route for its key the  *)
(* frame is sent unreserved; a retry must match its first reservation.     *)
ReserveInput(k) ==
  /\ calls[k] = "registered"
  /\ \/ /\ ~Tracked(k)
        /\ calls' = [calls EXCEPT ![k] = "sending"]
        /\ UNCHANGED <<ledger, routeV, workV, listener, compV, boundV>>
     \/ /\ Tracked(k) /\ Known(k)
        /\ calls' = [calls EXCEPT ![k] = "reserved"]
        /\ UNCHANGED <<ledger, routeV, workV, listener, compV, boundV>>
     \/ /\ Tracked(k) /\ ReserveFresh(ledger, k, Agent, RunOf[k])
        /\ ledger' = Reserved(ledger, k, Agent, RunOf[k], DestOf(k))
        /\ calls' = [calls EXCEPT ![k] = "reserved"]
        /\ UNCHANGED <<routeV, workV, listener, compV, boundV>>
     \/ /\ Tracked(k) /\ ReserveFresh(ledger, k, Agent, RunOf[k])
        /\ StorageFails(k)
     \/ /\ Tracked(k) /\ ~Known(k) /\ ~ReserveFresh(ledger, k, Agent, RunOf[k])
        /\ Forget(k) /\ UNCHANGED <<ledger, boundV>>
  /\ UNCHANGED late

(* The route must still be the one that was reserved for.                  *)
CheckRoute(k) ==
  /\ calls[k] = "reserved"
  /\ IF RouteOf(k) # None /\ RouteOf(k).key = k
     THEN calls' = [calls EXCEPT ![k] = "sending"]
          /\ UNCHANGED <<routeV, workV, listener, compV>>
     ELSE Forget(k)
  /\ UNCHANGED <<storeV, boundV>>

(* SendEncrypted.  The computer accepts the frame, or gets it and refuses  *)
(* it, or never gets it.  An error of the write leaves the delivery        *)
(* unknown and the route in place.                                         *)
Send(k) ==
  /\ calls[k] = "sending"
  /\ received' \in {received, received \cup {k}}
  /\ \E at \in {"sent", "unknown"} : calls' = [calls EXCEPT ![k] = at]
  /\ UNCHANGED <<storeV, routeV, workV, listener, emitted, captured, boundV>>

(* bindHarnessResultReceipt: a receipt for a known key binds its delivery. *)
Unbound(k) == ReceiptFresh(ledger, Agent, k, DeliveryOf[k])
BindKey(k) ==
  /\ Unbound(k)
  /\ \/ ledger' = ReceiptBound(ledger, k, DeliveryOf[k]) /\ UNCHANGED boundV
     \/ Fault /\ UNCHANGED ledger

(* The answer of the computer with its receipt (OnReceipt); or an answer   *)
(* that is an error, or none in time, which bind nothing, leave the route  *)
(* in place and let the caller try again.                                  *)
Return(k) ==
  /\ calls[k] = "sent"
  /\ \/ /\ k \in received
        /\ calls' = [calls EXCEPT ![k] = "done"]
        /\ BindKey(k) \/ (~Unbound(k) /\ UNCHANGED <<ledger, boundV>>)
     \/ calls' = [calls EXCEPT ![k] = "unknown"] /\ UNCHANGED <<ledger, boundV>>
  /\ UNCHANGED <<late, routeV, workV, listener, compV>>

-----------------------------------------------------------------------------
(* Results on their way in.  The computer answers what it has accepted.    *)

Emit(s) ==
  /\ Members(Outcome[s]) \subseteq received \ UNION {Members(Outcome[t]) : t \in emitted}
  /\ emitted' = emitted \cup {s}
  /\ UNCHANGED <<storeV, routeV, calls, workV, listener, received, captured, boundV>>

(* captureHarnessResult: an event is behind the cursor once it is staged,  *)
(* or known with the same content; after an error it is replayed.          *)
Captured(s) ==
  \/ ledger.staged[s] # None /\ SameContent(ledger.staged[s], Outcome[s])
  \/ ledger.results[s] # None /\ SameContent(ledger.results[s].frame, Outcome[s])

(* Mutant: the cursor advances although the inbox was not written. *)
CaptureAnyway(s) ==
  /\ s \in emitted \ captured
  /\ \/ Captured(s) /\ UNCHANGED <<ledger, boundV>>
     \/ /\ StageFresh(ledger, s, Outcome[s])
        /\ ledger' = Staged(ledger, s, Outcome[s]) /\ UNCHANGED boundV
     \/ StageFresh(ledger, s, Outcome[s]) /\ Fault /\ UNCHANGED ledger
  /\ captured' = captured \cup {s}
  /\ UNCHANGED <<late, routeV, calls, workV, listener, received, emitted>>

Capture(s) ==
  /\ s \in emitted \ captured
  /\ \/ Captured(s) /\ captured' = captured \cup {s} /\ UNCHANGED <<ledger, boundV>>
     \/ /\ StageFresh(ledger, s, Outcome[s])
        /\ ledger' = Staged(ledger, s, Outcome[s])
        /\ captured' = captured \cup {s} /\ UNCHANGED boundV
     \/ StageFresh(ledger, s, Outcome[s]) /\ Fault /\ UNCHANGED <<ledger, captured>>
  /\ UNCHANGED <<late, routeV, calls, workV, listener, received, emitted>>

(* A receipt.updated event, or the answer to a receipt.get.                *)
Receipt(k) ==
  /\ k \in received
  /\ BindKey(k)
  /\ UNCHANGED <<late, routeV, calls, workV, listener, compV>>

(* Mutant: only requests that were left without an answer are asked for. *)
ReconcileUnanswered(k) ==
  /\ calls[k] = "unknown"
  /\ \E s \in ResultIds : ledger.staged[s] # None /\ k \in Members(ledger.staged[s])
  /\ Receipt(k)

(* reconcileHarnessResultReceipts asks for the receipts that a staged      *)
(* result waits for.                                                       *)
Reconcile(k) ==
  /\ \E s \in ResultIds : ledger.staged[s] # None /\ k \in Members(ledger.staged[s])
  /\ Receipt(k)

-----------------------------------------------------------------------------
(* The worker: processHarnessResults, under harnessResultsMu.              *)

Apply(s) ==
  /\ worker.step = "idle"
  /\ ledger.staged[s] # None /\ ApplyFresh(ledger, s, ledger.staged[s])
  /\ \/ ledger' = Applied(ledger, s, ledger.staged[s], late) /\ UNCHANGED boundV
     \/ Fault /\ UNCHANGED ledger
  /\ UNCHANGED <<late, routeV, calls, workV, listener, compV>>

MembersOf(s) == Members(ledger.results[s].frame)
RunsOf(s) == {ledger.inputs[k].run : k \in MembersOf(s)}
Matches(k) == LET r == routes[ledger.inputs[k].run] IN r # None /\ r.key = k

(* deliverStoredHarnessResult, for a result not yet published: give the    *)
(* members without a route a restored one.                                 *)
Pick(s) ==
  /\ worker.step = "idle"
  /\ ledger.results[s] # None /\ s \notin published
  /\ LET lost == {r \in RunsOf(s) : routes[r] = None} IN
       /\ routes' = [r \in Runs |-> IF r \in lost THEN RestoredRoute(r) ELSE routes[r]]
       /\ marks' = RestoredMarks(marks, lost)
  /\ worker' = [Idle EXCEPT !.step = "inspect", !.s = s, !.since = listener]
  /\ UNCHANGED <<storeV, dispatched, calls, published, shown, spoken, listener, compV, boundV>>

(* Read the routes, then write the history; a failed write ends this turn. *)
Inspect ==
  /\ worker.step = "inspect"
  /\ LET members == MembersOf(worker.s) IN
     \/ /\ worker' = [worker EXCEPT !.step = "claim",
              !.live = \A k \in members : Matches(k),
              !.speaker = \A r \in RunsOf(worker.s) : routes[r] # None => ~routes[r].restored]
        /\ UNCHANGED boundV
     \/ Fault /\ worker' = Idle
  /\ UNCHANGED <<storeV, routeV, calls, published, shown, spoken, listener, compV>>

(* The claim is in the file before anything is shown or said.              *)
ClaimSpeech ==
  /\ worker.step = "claim"
  /\ \/ /\ ClaimFresh(ledger, worker.s)
        /\ ledger' = Claimed(ledger, worker.s, late)
        /\ worker' = [worker EXCEPT !.step = "show",
                                    !.claimed = ClaimGrants(ledger, worker.s, late)]
        /\ UNCHANGED boundV
     \/ /\ ClaimFresh(ledger, worker.s)
        /\ Fault /\ worker' = Idle /\ UNCHANGED ledger
     \/ /\ ~ClaimFresh(ledger, worker.s)
        /\ worker' = [worker EXCEPT !.step = "show"] /\ UNCHANGED <<ledger, boundV>>
  /\ UNCHANGED <<late, routeV, calls, published, shown, spoken, listener, compV>>

(* DeliverHarnessGroupedResult closes all the marks or none; then the      *)
(* destination is compared with the current listener.  The peer may be     *)
(* gone by then.                                                           *)
Showable(s) == \A r \in RunsOf(s) : marks[r] # None /\ ~marks[r].delivered

(* Mutant: the listener of the question is not compared with the current. *)
AudibleToAnyone(s, live) == worker.claimed /\ live /\ worker.speaker

Audible(s, live) ==
  /\ worker.claimed /\ live /\ worker.speaker
  /\ \A k \in MembersOf(s) : ledger.inputs[k].dest = listener

RouteOfMember(s, r) == \E k \in MembersOf(s) : ledger.inputs[k].run = r /\ Matches(k)

Show ==
  /\ worker.step = "show"
  /\ LET s    == worker.s
         live == worker.live /\ Showable(s)
     IN
     /\ routes' = [r \in Runs |-> IF RouteOfMember(s, r)
                                  THEN [routes[r] EXCEPT !.completed = TRUE] ELSE routes[r]]
     /\ marks' = [r \in Runs |-> IF live /\ r \in RunsOf(s)
                                 THEN [marks[r] EXCEPT !.delivered = TRUE] ELSE marks[r]]
     /\ shown' = [shown EXCEPT ![s] = IF live THEN @ + 1 ELSE @]
     /\ \/ Audible(s, live) /\ worker' = [worker EXCEPT !.step = "submit", !.live = live]
        \/ worker' = [worker EXCEPT !.step = "finish", !.live = live]
  /\ UNCHANGED <<storeV, dispatched, calls, published, spoken, listener, compV, boundV>>

(* SpeakHarnessGroupedResult: one request to HAL, accepted, refused, or    *)
(* with its answer lost.                                                   *)
Eligible(s) == \A r \in RunsOf(s) : marks[r] # None /\ ~marks[r].restored /\ ~marks[r].old

Submit ==
  /\ worker.step = "submit"
  /\ \/ /\ Eligible(worker.s)
        /\ spoken' = [spoken EXCEPT ![worker.s] = @ + 1]
        /\ \E st \in {"accepted", "uncertain"} :
             worker' = [worker EXCEPT !.step = "finish", !.state = st]
     \/ /\ Eligible(worker.s)
        /\ worker' = [worker EXCEPT !.step = "finish", !.state = "uncertain"]
        /\ UNCHANGED spoken
     \/ worker' = [worker EXCEPT !.step = "finish"] /\ UNCHANGED spoken
  /\ UNCHANGED <<storeV, routeV, calls, published, shown, listener, compV, boundV>>

(* Mutant: the routes are gone but the result is not marked published. *)
CloseUnpublished(s) ==
  /\ published' = published
  /\ routes' = [r \in Runs |-> IF RouteOfMember(s, r) THEN None ELSE routes[r]]

Close(s) ==
  /\ published' = published \cup {s}
  /\ routes' = [r \in Runs |-> IF RouteOfMember(s, r) THEN None ELSE routes[r]]

(* A failed Finish is only logged: recovery will call the claim uncertain. *)
FinishSpeech ==
  /\ worker.step = "finish"
  /\ \/ /\ worker.claimed
        /\ ledger' = Finished(ledger, worker.s, worker.state) /\ UNCHANGED boundV
     \/ worker.claimed /\ Fault /\ UNCHANGED ledger
     \/ ~worker.claimed /\ UNCHANGED <<ledger, boundV>>
  /\ Close(worker.s)
  /\ worker' = Idle
  /\ UNCHANGED <<late, marks, dispatched, calls, shown, spoken, listener, compV>>

-----------------------------------------------------------------------------
(* The world around.                                                       *)

ChangeListener ==
  /\ listener < MaxGeneration /\ listener' = listener + 1
  /\ UNCHANGED <<storeV, routeV, calls, workV, compV, boundV>>

(* Fifteen minutes after the first reservation of a key, and after the     *)
(* first mark of a run, which an earlier refused dispatch may have left.   *)
Expire(k) ==
  /\ ledger.inputs[k] # None /\ k \in Slow \ late
  /\ late' = late \cup {k}
  /\ UNCHANGED <<ledger, routeV, calls, workV, listener, compV, boundV>>

Age(r) ==
  /\ marks[r] # None /\ ~marks[r].old /\ \E k \in Slow : RunOf[k] = r
  /\ marks' = [marks EXCEPT ![r].old = TRUE]
  /\ UNCHANGED <<storeV, routes, dispatched, calls, workV, listener, compV, boundV>>

(* The process stops and starts again: OpenResultStore, then               *)
(* restoreHarnessHistoryReplies for the runs whose history still waits.    *)
(* nextVoiceGeneration never returns a generation of an earlier process.   *)
Restart ==
  /\ crashes < MaxCrashes /\ crashes' = crashes + 1
  /\ listener < MaxGeneration /\ listener' = listener + 1
  /\ ledger' = Recovered(ledger)
  /\ \E R \in SUBSET {ledger.inputs[k].run : k \in {j \in Keys : ledger.inputs[j] # None}} :
       /\ routes' = [r \in Runs |-> IF r \in R THEN RestoredRoute(r) ELSE None]
       /\ marks' = RestoredMarks([r \in Runs |-> None], R)
  /\ calls' = [k \in Keys |-> CASE calls[k] \in {"registering", "registered", "reserved"} -> "idle"
                                [] calls[k] \in {"sending", "sent"} -> "unknown"
                                [] OTHER -> calls[k]]
  /\ worker' = Idle /\ published' = {} /\ captured' = {} /\ dispatched' = {}
  /\ shown' = [s \in ResultIds |-> 0]
  /\ UNCHANGED <<late, spoken, received, emitted, faults>>

-----------------------------------------------------------------------------

Requester == \E k \in Keys :
  \/ Register(k) \/ MarkRun(k) \/ Refuse(k) \/ ReserveInput(k)
  \/ CheckRoute(k) \/ Send(k) \/ Return(k)

Inbox ==
  \/ \E s \in ResultIds : Emit(s) \/ Capture(s) \/ Apply(s)
  \/ \E k \in Keys : Receipt(k)

Deliver ==
  \/ \E s \in ResultIds : Pick(s)
  \/ Inspect \/ ClaimSpeech \/ Show \/ Submit \/ FinishSpeech

World ==
  \/ ChangeListener \/ Restart
  \/ \E k \in Keys : Expire(k)
  \/ \E r \in Runs : Age(r)

Next == Requester \/ Inbox \/ Deliver \/ World

Spec == Init /\ [][Next]_vars

(* The watcher goroutine runs every 30 seconds, the worker's calls return, *)
(* and a computer that stays paired answers receipt.get and replays its    *)
(* events.  Nothing is assumed of the requests or of the world.            *)
Fairness ==
  /\ \A s \in ResultIds : WF_vars(Capture(s)) /\ WF_vars(Apply(s)) /\ WF_vars(Pick(s))
  /\ \A k \in Keys : WF_vars(Reconcile(k))
  /\ WF_vars(Inspect) /\ WF_vars(ClaimSpeech) /\ WF_vars(Show)
  /\ WF_vars(Submit) /\ WF_vars(FinishSpeech)

FairSpec == Spec /\ Fairness

-----------------------------------------------------------------------------

(* Every variable has its type; the ledger is the typed ledger.            *)
TypeOK ==
  /\ ledger \in Ledgers /\ late \subseteq Keys
  /\ routes \in [Runs -> Route \cup {None}] /\ marks \in [Runs -> Mark \cup {None}]
  /\ calls \in [Keys -> {"idle", "registering", "registered", "reserved", "sending",
                         "sent", "unknown", "done"}]
  /\ worker \in Worker /\ published \subseteq ResultIds
  /\ listener \in 1 .. MaxGeneration
  /\ received \subseteq Keys /\ emitted \subseteq ResultIds /\ captured \subseteq emitted
  /\ dispatched \subseteq Runs
  /\ shown \in [ResultIds -> Nat] /\ spoken \in [ResultIds -> Nat]
  /\ faults \in 0 .. MaxFaults /\ crashes \in 0 .. MaxCrashes

(***************************************************************************)
(* Speech (docs/harness.md, "Grouped-result storage and delivery").  A     *)
(* result is submitted to the speaker at most once, restarts included, and *)
(* only with its claim in the file, after its display, for runs that were  *)
(* all dispatched by this process, and to a listener that was still at the *)
(* microphone when the worker took the result up.                          *)
(***************************************************************************)
SpeechIsLive ==
  [][\A s \in ResultIds : spoken'[s] # spoken[s] =>
       /\ spoken'[s] = 1
       /\ ledger.results[s].speech = "claimed" /\ shown[s] = 1
       /\ RunsOf(s) \subseteq dispatched
       /\ \A k \in MembersOf(s) : ledger.inputs[k].dest \in worker.since .. listener]_spoken

(* DeliverHarnessGroupedResult shows a result at most once per process,    *)
(* however marks age, are purged and are restored.                         *)
ShownOnce == \A s \in ResultIds : shown[s] <= 1

(***************************************************************************)
(* The file comes first.  The original request identity is reserved before *)
(* dispatch: what the computer has accepted for a tracked turn is in the   *)
(* ledger, while no two dispatches name the same run.  And the durable     *)
(* inbox retains a result before the replay cursor passes it, so an event  *)
(* is never lost between the two.                                          *)
(***************************************************************************)
WrittenFirst ==
  /\ \A k \in received : ledger.inputs[k] # None
  /\ \A s \in captured : ledger.staged[s] # None \/ ledger.results[s] # None

(***************************************************************************)
(* Every result whose inputs are all reserved is published in the end,     *)
(* whatever receipts were lost, writes failed or restarts intervened.      *)
(***************************************************************************)
Expected(s) == s \in emitted /\ \A k \in Members(Outcome[s]) : ledger.inputs[k] # None

ResultPublished == \A s \in ResultIds : Expected(s) ~> s \in published

=============================================================================
