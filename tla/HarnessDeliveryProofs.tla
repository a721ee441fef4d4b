----------------------- MODULE HarnessDeliveryProofs -----------------------
(***************************************************************************)
(* Proofs about HarnessDelivery for every value of its constants.          *)
(***************************************************************************)
EXTENDS HarnessDelivery, ResultLedgerProofs

(* A result is there only with the tasks it answers.                       *)
Whole == \A s \in ResultIds : ledger.results[s] # None =>
           \A k \in MembersOf(s) : ledger.inputs[k] # None

(* What the worker has in hand is a result of the ledger, and a grant it   *)
(* holds is in the file.                                                   *)
Working ==
  /\ worker.step # "idle" => worker.s \in ResultIds /\ ledger.results[worker.s] # None
  /\ worker.step \in {"idle", "inspect", "claim"} => ~worker.claimed
  /\ worker.claimed => ledger.results[worker.s].speech = "claimed"

DeliveryInv == TypeOK /\ Whole /\ Working

-----------------------------------------------------------------------------
(* The ledger.                                                             *)

LEMMA RecordOf ==
  ASSUME TypeOK, NEW s \in ResultIds, ledger.results[s] # None
  PROVE  /\ ledger.results[s] \in Record
         /\ ledger.results[s].frame \in Frames
         /\ MembersOf(s) \subseteq Keys
<1>1. ledger.results[s] \in Record
  BY DEF TypeOK, Ledgers
<1>2. ledger.results[s].frame \in Frames
  BY <1>1 DEF Record
<1> QED BY <1>1, <1>2, FramesAssumption DEF MembersOf, FrameOK

LEMMA DestTyped ==
  ASSUME TypeOK, NEW k \in Keys
  PROVE  DestOf(k) \in Destinations /\ RunOf[k] \in Runs
BY DispatchAssumption, BoundsAssumption DEF DestOf, TypeOK

LEMMA LedgerStep ==
  ASSUME DeliveryInv, [Next]_vars
  PROVE  ledger' \in Ledgers /\ Keeps(ledger, ledger')
<1> USE DEF DeliveryInv
<1>0. ledger \in Ledgers
  BY DEF TypeOK
<1>1. CASE ledger' = ledger
  BY <1>0, <1>1 DEF Keeps
<1>2. ASSUME NEW k \in Keys, BindKey(k) PROVE ledger' \in Ledgers /\ Keeps(ledger, ledger')
  BY <1>0, <1>1, <1>2, ReceiptBoundTyped, ReceiptBoundKeeps, DispatchAssumption
     DEF BindKey, Unbound, ReceiptFresh
<1>3. ASSUME NEW k \in Keys, ReserveInput(k)
      PROVE  ledger' \in Ledgers /\ Keeps(ledger, ledger')
  BY <1>0, <1>1, <1>3, DestTyped, ReservedTyped, ReservedKeeps, DispatchAssumption
     DEF ReserveInput, ReserveFresh, StorageFails
<1>4. ASSUME NEW s \in ResultIds, Capture(s)
      PROVE  ledger' \in Ledgers /\ Keeps(ledger, ledger')
  BY <1>0, <1>1, <1>4, StagedTyped, StagedKeeps, DispatchAssumption DEF Capture
<1>5. ASSUME NEW s \in ResultIds, Apply(s)
      PROVE  ledger' \in Ledgers /\ Keeps(ledger, ledger')
  <2>1. ledger.staged[s] \in Frames
    BY <1>0, <1>5 DEF Apply, Ledgers
  <2> QED BY <1>0, <1>1, <1>5, <2>1, AppliedTyped, AppliedKeeps DEF Apply
<1>6. CASE ClaimSpeech
  BY <1>0, <1>1, <1>6, ClaimedTyped, ClaimedKeeps DEF ClaimSpeech, Working
<1>7. CASE FinishSpeech
  <2>1. worker.state \in SpeechDone
    BY DEF TypeOK, Worker
  <2>2. CASE worker.claimed /\ ledger' = Finished(ledger, worker.s, worker.state)
    <3>1. worker.s \in ResultIds /\ FinishFresh(ledger, worker.s)
      BY <1>7, <2>2 DEF FinishSpeech, Working, FinishFresh
    <3> QED BY <1>0, <2>1, <2>2, <3>1, FinishedTyped, FinishedKeeps
  <2> QED BY <1>1, <1>7, <2>2 DEF FinishSpeech
<1>8. CASE Restart
  BY <1>0, <1>8, RecoveredTyped, RecoveredKeeps DEF Restart
<1>9. CASE Requester
  BY <1>1, <1>2, <1>3, <1>9
     DEF Requester, Register, MarkRun, Refuse, CheckRoute, Send, Return, storeV
<1>10. CASE Inbox
  BY <1>1, <1>2, <1>4, <1>5, <1>10 DEF Inbox, Emit, Receipt, storeV
<1>11. CASE Deliver
  BY <1>1, <1>6, <1>7, <1>11 DEF Deliver, Pick, Inspect, Show, Submit, storeV
<1>12. CASE World
  BY <1>1, <1>8, <1>12 DEF World, ChangeListener, Expire, Age, storeV
<1> QED BY <1>1, <1>9, <1>10, <1>11, <1>12 DEF Next, vars, storeV

-----------------------------------------------------------------------------
(* Routes and marks.                                                       *)

RoutesTyped == routes \in [Runs -> Route \cup {None}]
MarksTyped  == marks \in [Runs -> Mark \cup {None}]

(* A route that is restored for a run leads to the task that was sent for  *)
(* the run.                                                                *)
LEMMA RestoredTyped ==
  ASSUME TypeOK, NEW r, NEW j \in Keys, ledger.inputs[j] # None, ledger.inputs[j].run = r
  PROVE  /\ InputOf(r) \in Keys /\ ledger.inputs[InputOf(r)] # None
         /\ ledger.inputs[InputOf(r)].run = r
         /\ RestoredRoute(r) \in Route
<1>1. InputOf(r) \in Keys /\ ledger.inputs[InputOf(r)] # None
        /\ ledger.inputs[InputOf(r)].run = r
  BY DEF InputOf
<1> QED BY <1>1 DEF RestoredRoute, Route

LEMMA RestoredMarksTyped ==
  ASSUME NEW m \in [Runs -> Mark \cup {None}], NEW R
  PROVE  RestoredMarks(m, R) \in [Runs -> Mark \cup {None}]
<1>1. \A r \in Runs : Purged(m)[r] \in {m[r], None}
  BY DEF Purged
<1>2. NewMark \in Mark
  BY DEF NewMark, Mark
<1>3. \A r \in Runs : Purged(m)[r] # None => m[r] \in Mark
  BY <1>1
<1>4. \A r \in Runs :
        [(IF Purged(m)[r] = None THEN NewMark ELSE m[r]) EXCEPT !.restored = TRUE] \in Mark
  BY <1>2, <1>3 DEF Mark
<1> QED BY <1>1, <1>4 DEF RestoredMarks

LEMMA MarkedTyped ==
  ASSUME NEW m \in [Runs -> Mark \cup {None}], NEW r \in Runs
  PROVE  Marked(m, r) \in [Runs -> Mark \cup {None}]
BY DEF Marked, Purged, NewMark, Mark

(* The runs of a result that is there are runs of tasks.                   *)
LEMMA RunsOfTyped ==
  ASSUME DeliveryInv, NEW s \in ResultIds, ledger.results[s] # None
  PROVE  /\ RunsOf(s) \subseteq Runs
         /\ \A r \in RunsOf(s) : \E k \in MembersOf(s) \cap Keys :
              ledger.inputs[k] # None /\ ledger.inputs[k].run = r
<1>1. \A k \in MembersOf(s) : k \in Keys /\ ledger.inputs[k] # None
  BY RecordOf DEF DeliveryInv, Whole
<1>2. \A k \in MembersOf(s) : ledger.inputs[k].run \in Runs
  BY <1>1 DEF DeliveryInv, TypeOK, Ledgers, Input
<1> QED BY <1>1, <1>2 DEF RunsOf

LEMMA ForgetTyped ==
  ASSUME TypeOK, NEW k \in Keys, Forget(k)
  PROVE  RoutesTyped' /\ MarksTyped'
BY DispatchAssumption DEF TypeOK, Forget, RoutesTyped, MarksTyped

LEMMA RouteStep == DeliveryInv /\ [Next]_vars => RoutesTyped' /\ MarksTyped'
<1> SUFFICES ASSUME DeliveryInv, [Next]_vars PROVE RoutesTyped' /\ MarksTyped'
  OBVIOUS
<1>0. TypeOK /\ RoutesTyped /\ MarksTyped
  BY DEF DeliveryInv, TypeOK, RoutesTyped, MarksTyped
<1>1. CASE UNCHANGED routeV
  BY <1>0, <1>1 DEF routeV, RoutesTyped, MarksTyped
<1>2. ASSUME NEW k \in Keys, Register(k) PROVE RoutesTyped' /\ MarksTyped'
  BY <1>0, <1>2 DEF Register, RoutesTyped, MarksTyped, Route
<1>3. ASSUME NEW k \in Keys, MarkRun(k) PROVE RoutesTyped' /\ MarksTyped'
  BY <1>0, <1>3, MarkedTyped, DispatchAssumption DEF MarkRun, RoutesTyped, MarksTyped
<1>4. ASSUME NEW k \in Keys, Refuse(k) \/ ReserveInput(k) \/ CheckRoute(k)
      PROVE  RoutesTyped' /\ MarksTyped'
  <2>1. UNCHANGED routeV \/ Forget(k)
    BY <1>4 DEF Refuse, ReserveInput, StorageFails, CheckRoute, routeV
  <2> QED BY <1>0, <1>1, <2>1, ForgetTyped
<1>5. ASSUME NEW s \in ResultIds, Pick(s) PROVE RoutesTyped' /\ MarksTyped'
  <2> DEFINE lost == {r \in RunsOf(s) : routes[r] = None}
  <2>1. ledger.results[s] # None
    BY <1>5 DEF Pick
  <2>2. \A r \in lost : RestoredRoute(r) \in Route
    BY <1>0, <2>1, RunsOfTyped, RestoredTyped
  <2>3. RoutesTyped'
    BY <1>0, <1>5, <2>2 DEF Pick, RoutesTyped
  <2>4. MarksTyped'
    BY <1>0, <1>5, RestoredMarksTyped DEF Pick, MarksTyped
  <2> QED BY <2>3, <2>4
<1>6. CASE Show
  <2> DEFINE s == worker.s
             live == worker.live /\ Showable(s)
  <2>1. s \in ResultIds /\ ledger.results[s] # None
    BY <1>6 DEF Show, DeliveryInv, Working
  <2>2. \A r \in Runs : RouteOfMember(s, r) => routes[r] \in Route
    BY <1>0 DEF RouteOfMember, Matches, RoutesTyped
  <2>3. \A r \in Runs : RouteOfMember(s, r) => [routes[r] EXCEPT !.completed = TRUE] \in Route
    BY <2>2 DEF Route
  <2>4. RoutesTyped'
    BY <1>0, <1>6, <2>3 DEF Show, RoutesTyped
  <2>5. \A r \in Runs : live /\ r \in RunsOf(s) => marks[r] \in Mark
    BY <1>0 DEF Showable, MarksTyped
  <2>6. \A r \in Runs : live /\ r \in RunsOf(s) => [marks[r] EXCEPT !.delivered = TRUE] \in Mark
    BY <2>5 DEF Mark
  <2>7. MarksTyped'
    BY <1>0, <1>6, <2>6 DEF Show, MarksTyped
  <2> QED BY <2>4, <2>7
<1>7. CASE FinishSpeech
  BY <1>0, <1>7 DEF FinishSpeech, Close, RoutesTyped, MarksTyped
<1>8. ASSUME NEW r \in Runs, Age(r) PROVE RoutesTyped' /\ MarksTyped'
  BY <1>0, <1>8 DEF Age, RoutesTyped, MarksTyped, Mark
<1>9. CASE Restart
  <2> DEFINE Asked == {ledger.inputs[k].run : k \in {j \in Keys : ledger.inputs[j] # None}}
  <2>1. \A r \in Asked : RestoredRoute(r) \in Route
    BY <1>0, RestoredTyped
  <2>2. PICK R \in SUBSET Asked :
          /\ routes' = [r \in Runs |-> IF r \in R THEN RestoredRoute(r) ELSE None]
          /\ marks' = RestoredMarks([r \in Runs |-> None], R)
    BY <1>9 DEF Restart
  <2> QED BY <2>1, <2>2, RestoredMarksTyped DEF RoutesTyped, MarksTyped
<1>10. CASE Requester
  BY <1>1, <1>2, <1>3, <1>4, <1>10 DEF Requester, Send, Return, routeV
<1>11. CASE Inbox
  BY <1>1, <1>11 DEF Inbox, Emit, Capture, Apply, Receipt, routeV
<1>12. CASE Deliver
  BY <1>1, <1>5, <1>6, <1>7, <1>12 DEF Deliver, Inspect, ClaimSpeech, Submit, routeV
<1>13. CASE World
  BY <1>1, <1>8, <1>9, <1>13 DEF World, ChangeListener, Expire, routeV
<1> QED BY <1>1, <1>10, <1>11, <1>12, <1>13 DEF Next, vars, routeV

-----------------------------------------------------------------------------
(* The requests, the computer and the worker.                              *)

Calls == [Keys -> {"idle", "registering", "registered", "reserved", "sending", "sent",
                   "unknown", "done"}]

CallsTyped ==
  /\ calls \in Calls /\ dispatched \subseteq Runs /\ late \subseteq Keys
  /\ received \subseteq Keys /\ emitted \subseteq ResultIds /\ captured \subseteq emitted

WorkTyped ==
  /\ worker \in Worker /\ published \subseteq ResultIds
  /\ listener \in 1 .. MaxGeneration
  /\ shown \in [ResultIds -> Nat] /\ spoken \in [ResultIds -> Nat]
  /\ faults \in 0 .. MaxFaults /\ crashes \in 0 .. MaxCrashes

LEMMA TypeOKParts ==
  TypeOK <=> ledger \in Ledgers /\ RoutesTyped /\ MarksTyped /\ CallsTyped /\ WorkTyped
BY DEF TypeOK, RoutesTyped, MarksTyped, CallsTyped, Calls, WorkTyped

LEMMA CallsStep == DeliveryInv /\ [Next]_vars => CallsTyped'
<1> SUFFICES ASSUME DeliveryInv, [Next]_vars PROVE CallsTyped'
  OBVIOUS
<1>0. CallsTyped
  BY TypeOKParts DEF DeliveryInv
<1> USE <1>0 DEF CallsTyped, Calls
<1>1. CASE UNCHANGED <<calls, compV, dispatched, late>>
  BY <1>1 DEF compV
<1>2. CASE Requester
  BY <1>2, DispatchAssumption
     DEF Requester, Register, MarkRun, Refuse, ReserveInput, StorageFails, CheckRoute, Forget,
         Send, Return, storeV, routeV, compV
<1>3. CASE Inbox
  BY <1>3 DEF Inbox, Emit, Capture, Apply, Receipt, routeV, storeV, compV
<1>4. CASE Deliver
  BY <1>4 DEF Deliver, Pick, Inspect, ClaimSpeech, Show, Submit, FinishSpeech, routeV, storeV,
              compV
<1>5. CASE World
  BY <1>5 DEF World, ChangeListener, Expire, Age, Restart, routeV, storeV, compV
<1> QED BY <1>1, <1>2, <1>3, <1>4, <1>5 DEF Next, vars, storeV, routeV, compV

LEMMA IdleTyped == Idle \in Worker /\ Idle.step = "idle" /\ ~Idle.claimed
BY BoundsAssumption DEF Idle, Worker, SpeechDone

LEMMA WorkStep == DeliveryInv /\ [Next]_vars => WorkTyped'
<1> SUFFICES ASSUME DeliveryInv, [Next]_vars PROVE WorkTyped'
  OBVIOUS
<1>0. WorkTyped
  BY TypeOKParts DEF DeliveryInv
<1> USE <1>0, BoundsAssumption DEF WorkTyped
<1>1. CASE UNCHANGED <<workV, listener, boundV>>
  BY <1>1 DEF workV, boundV
<1>2. CASE UNCHANGED <<workV, listener>> /\ Fault
  BY <1>2 DEF workV, Fault
<1>3. ASSUME NEW s \in ResultIds, Pick(s) PROVE WorkTyped'
  BY <1>3 DEF Pick, boundV, Idle, Worker, SpeechDone
<1>4. CASE Inspect
  <2>1. worker' \in Worker
    BY <1>4, IdleTyped DEF Inspect, Worker
  <2> QED BY <1>4, <2>1 DEF Inspect, boundV, Fault
<1>5. CASE ClaimSpeech
  <2>1. worker' \in Worker
    BY <1>5, IdleTyped DEF ClaimSpeech, Worker, ClaimGrants
  <2> QED BY <1>5, <2>1 DEF ClaimSpeech, boundV, Fault
<1>6. CASE Show
  <2>1. worker' \in Worker
    BY <1>6 DEF Show, Worker, Showable
  <2>2. shown' \in [ResultIds -> Nat]
    <3>1. shown' \in {shown, [shown EXCEPT ![worker.s] = @ + 1]}
      BY <1>6 DEF Show
    <3> QED BY <3>1
  <2>3. UNCHANGED <<published, spoken, listener, boundV>>
    BY <1>6 DEF Show
  <2> QED BY <2>1, <2>2, <2>3 DEF boundV
<1>7. CASE Submit
  <2>1. worker' \in Worker
    BY <1>7 DEF Submit, Worker, SpeechDone
  <2>2. spoken' \in [ResultIds -> Nat]
    BY <1>7 DEF Submit
  <2> QED BY <1>7, <2>1, <2>2 DEF Submit, boundV
<1>8. CASE FinishSpeech
  <2>1. worker.s \in ResultIds
    BY <1>8 DEF FinishSpeech, DeliveryInv, Working
  <2> QED BY <1>8, <2>1, IdleTyped DEF FinishSpeech, Close, boundV, Fault
<1>9. CASE Restart
  BY <1>9, IdleTyped DEF Restart
<1>10. CASE ChangeListener
  BY <1>10 DEF ChangeListener, workV, boundV
<1>11. CASE Requester
  BY <1>1, <1>2, <1>11
     DEF Requester, Register, MarkRun, Refuse, ReserveInput, StorageFails, CheckRoute, Forget,
         Send, Return, BindKey
<1>12. CASE Inbox
  BY <1>1, <1>2, <1>12 DEF Inbox, Emit, Capture, Apply, Receipt, BindKey, workV
<1>13. CASE Deliver
  BY <1>3, <1>4, <1>5, <1>6, <1>7, <1>8, <1>13 DEF Deliver
<1>14. CASE World
  BY <1>1, <1>9, <1>10, <1>14 DEF World, Expire, Age
<1> QED BY <1>1, <1>11, <1>12, <1>13, <1>14 DEF Next, vars

-----------------------------------------------------------------------------
(* Results and the worker's hands.                                         *)

LEMMA MembersKept ==
  ASSUME DeliveryInv, Keeps(ledger, ledger'), NEW s \in ResultIds, ledger.results[s] # None
  PROVE  /\ ledger'.results[s] # None
         /\ MembersOf(s)' = MembersOf(s) /\ RunsOf(s)' = RunsOf(s)
         /\ \A k \in MembersOf(s) :
              /\ ledger.inputs[k] # None /\ ledger'.inputs[k] # None
              /\ ledger'.inputs[k].run = ledger.inputs[k].run
              /\ ledger'.inputs[k].dest = ledger.inputs[k].dest
<1>1. ledger'.results[s] # None /\ MembersOf(s)' = MembersOf(s)
  BY DEF Keeps, MembersOf
<1>2. \A k \in MembersOf(s) :
        /\ ledger.inputs[k] # None /\ ledger'.inputs[k] # None
        /\ ledger'.inputs[k].run = ledger.inputs[k].run
        /\ ledger'.inputs[k].dest = ledger.inputs[k].dest
  BY RecordOf DEF DeliveryInv, Whole, Keeps
<1> QED BY <1>1, <1>2 DEF RunsOf

(* Only the worker and a restart touch the results.                        *)
LEMMA ResultsAlone ==
  ASSUME DeliveryInv, [Next]_vars,
         ~\E s \in ResultIds : Apply(s), ~ClaimSpeech, ~FinishSpeech, ~Restart
  PROVE  ledger'.results = ledger.results
<1> USE DEF DeliveryInv
<1>0. ledger \in Ledgers
  BY DEF TypeOK
<1>1. CASE Requester
  BY <1>0, <1>1
     DEF Requester, Register, MarkRun, Refuse, ReserveInput, StorageFails, CheckRoute, Forget,
         Send, Return, BindKey, storeV, Reserved, ReceiptBound, Ledgers
<1>2. CASE Inbox
  BY <1>0, <1>2 DEF Inbox, Emit, Capture, Receipt, BindKey, storeV, Staged, ReceiptBound, Ledgers
<1>3. CASE Deliver
  BY <1>3 DEF Deliver, Pick, Inspect, Show, Submit, storeV
<1>4. CASE World
  BY <1>4 DEF World, ChangeListener, Expire, Age, storeV
<1> QED BY <1>1, <1>2, <1>3, <1>4 DEF Next, vars, storeV

LEMMA WholeStep == DeliveryInv /\ [Next]_vars => Whole'
<1> SUFFICES ASSUME DeliveryInv, [Next]_vars, NEW s \in ResultIds, ledger'.results[s] # None,
                    NEW k \in MembersOf(s)'
             PROVE  ledger'.inputs[k] # None
  BY DEF Whole
<1>0. ledger \in Ledgers
  BY DEF DeliveryInv, TypeOK
<1>1. CASE ledger.results[s] # None
  BY <1>1, LedgerStep, MembersKept
<1>2. CASE ledger.results[s] = None
  <2>1. ASSUME NEW t \in ResultIds, Apply(t) PROVE ledger'.inputs[k] # None
    <3> DEFINE f == ledger.staged[t]
    <3>1. f \in Frames /\ ApplyFresh(ledger, t, f) /\ Members(f) \subseteq Keys
      BY <1>0, <2>1, FramesAssumption DEF Apply, Ledgers, FrameOK
    <3>2. CASE ledger' = ledger
      BY <1>2, <3>2
    <3>3. CASE ledger' = Applied(ledger, t, f, late)
      <4>1. t = s /\ ledger'.results[s].frame = f
        BY <1>0, <1>2, <3>3 DEF Applied, Ledgers
      <4>2. k \in Members(f) /\ ledger.inputs[k] # None
        BY <3>1, <4>1 DEF MembersOf, ApplyFresh, MemberReady
      <4> QED BY <3>1, <4>2, LedgerStep DEF Keeps
    <3> QED BY <2>1, <3>2, <3>3 DEF Apply
  <2>2. CASE ClaimSpeech
    BY <1>0, <1>2, <2>2 DEF ClaimSpeech, Claimed, ClaimFresh, Ledgers
  <2>3. CASE FinishSpeech
    <3>1. worker.s \in ResultIds /\ ledger.results[worker.s] # None
      BY <2>3 DEF FinishSpeech, DeliveryInv, Working
    <3> QED BY <1>0, <1>2, <2>3, <3>1 DEF FinishSpeech, Finished, Ledgers
  <2>4. CASE Restart
    BY <1>0, <1>2, <2>4 DEF Restart, Recovered, Ledgers
  <2> QED BY <1>2, <2>1, <2>2, <2>3, <2>4, ResultsAlone
<1> QED BY <1>1, <1>2

LEMMA WorkingStep == DeliveryInv /\ [Next]_vars => Working'
<1> SUFFICES ASSUME DeliveryInv, [Next]_vars PROVE Working'
  OBVIOUS
<1>0. Working /\ ledger \in Ledgers /\ worker \in Worker
  BY DEF DeliveryInv, TypeOK
<1>1. CASE worker' = Idle
  BY <1>1, IdleTyped DEF Working
<1>2. CASE worker' = worker /\ (ledger'.results = ledger.results \/ worker.step = "idle")
  BY <1>0, <1>2 DEF Working
<1>3. ASSUME NEW s \in ResultIds, Pick(s) PROVE Working'
  BY <1>3 DEF Pick, Idle, Working, storeV
<1>4. CASE Inspect
  BY <1>0, <1>1, <1>4 DEF Inspect, Working, Worker, storeV
<1>5. CASE ClaimSpeech
  <2>1. worker.s \in ResultIds /\ ledger.results[worker.s] # None /\ ~worker.claimed
    BY <1>0, <1>5 DEF ClaimSpeech, Working
  <2>2. CASE ledger' = Claimed(ledger, worker.s, late)
    <3>1. ledger'.results[worker.s].speech =
            IF ClaimGrants(ledger, worker.s, late) THEN "claimed" ELSE "suppressed"
      BY <1>0, <2>1, <2>2 DEF Claimed, Ledgers, Record
    <3>2. ledger'.results[worker.s] # None
      BY <2>1, LedgerStep DEF Keeps
    <3> QED BY <1>0, <1>1, <1>5, <2>1, <3>1, <3>2 DEF ClaimSpeech, Working, Worker
  <2>3. CASE ledger' = ledger /\ worker' = [worker EXCEPT !.step = "show"]
    BY <1>0, <2>1, <2>3 DEF Working, Worker
  <2> QED BY <1>1, <1>5, <2>2, <2>3 DEF ClaimSpeech
<1>6. CASE Show
  <2>1. worker'.step \in {"submit", "finish"} /\ worker'.s = worker.s
          /\ worker'.claimed = worker.claimed
    BY <1>0, <1>6 DEF Show, Worker
  <2> QED BY <1>0, <1>6, <2>1 DEF Show, Working, storeV
<1>7. CASE Submit
  BY <1>0, <1>7 DEF Submit, Working, Worker, storeV
<1>8. CASE Requester
  <2>1. worker' = worker
    BY <1>8 DEF Requester, Register, MarkRun, Refuse, ReserveInput, StorageFails, CheckRoute,
                Forget, Send, Return, BindKey, workV
  <2>2. ledger'.results = ledger.results
    BY <1>0, <1>8
       DEF Requester, Register, MarkRun, Refuse, ReserveInput, StorageFails, CheckRoute, Forget,
           Send, Return, BindKey, storeV, Reserved, ReceiptBound, Ledgers
  <2> QED BY <1>2, <2>1, <2>2
<1>9. CASE Inbox
  BY <1>0, <1>2, <1>9 DEF Inbox, Emit, Capture, Apply, Receipt, BindKey, workV, storeV, Staged,
                          ReceiptBound, Ledgers
<1>10. CASE Deliver
  BY <1>1, <1>3, <1>4, <1>5, <1>6, <1>7, <1>10 DEF Deliver, FinishSpeech
<1>11. CASE World
  BY <1>1, <1>2, <1>11 DEF World, ChangeListener, Expire, Age, Restart, workV, storeV
<1>12. CASE UNCHANGED vars
  BY <1>2, <1>12 DEF vars, workV, storeV
<1> QED BY <1>8, <1>9, <1>10, <1>11, <1>12 DEF Next

LEMMA DeliveryInit == Init => DeliveryInv
<1> SUFFICES ASSUME Init PROVE DeliveryInv
  OBVIOUS
<1>1. ledger \in Ledgers /\ \A s \in ResultIds : ledger.results[s] = None
  BY EmptyIsLedger DEF Init, EmptyLedger
<1>2. RoutesTyped /\ MarksTyped /\ CallsTyped
  BY DEF Init, RoutesTyped, MarksTyped, CallsTyped, Calls
<1>3. WorkTyped
  BY IdleTyped, BoundsAssumption DEF Init, WorkTyped
<1>4. TypeOK
  BY <1>1, <1>2, <1>3, TypeOKParts
<1> QED BY <1>1, <1>4, IdleTyped DEF Init, DeliveryInv, Whole, Working

(* The types, with what they rest on: a result is there with its tasks,    *)
(* and the worker holds a result and a grant that the file knows of.       *)
THEOREM DeliveryKept == Spec => []DeliveryInv
<1>1. Init => DeliveryInv
  BY DeliveryInit
<1>2. DeliveryInv /\ [Next]_vars => DeliveryInv'
  <2> SUFFICES ASSUME DeliveryInv, [Next]_vars PROVE DeliveryInv'
    OBVIOUS
  <2>1. ledger' \in Ledgers
    BY LedgerStep
  <2>2. RoutesTyped' /\ MarksTyped' /\ CallsTyped' /\ WorkTyped'
    BY RouteStep, CallsStep, WorkStep
  <2>3. TypeOK'
    BY <2>1, <2>2 DEF TypeOK, RoutesTyped, MarksTyped, CallsTyped, Calls, WorkTyped
  <2> QED BY <2>3, WholeStep, WorkingStep DEF DeliveryInv
<1> QED BY <1>1, <1>2, PTL DEF Spec

(* Every variable keeps its type; the ledger is the typed ledger.          *)
THEOREM TypeOKKept == Spec => []TypeOK
<1>1. DeliveryInv => TypeOK
  BY DEF DeliveryInv
<1> QED BY <1>1, DeliveryKept, PTL

-----------------------------------------------------------------------------
(* What is shown and said.                                                 *)

(* A result that was shown is published, or its worker will publish it.    *)
Displayed ==
  /\ \A s \in ResultIds :
       /\ shown[s] <= 1
       /\ shown[s] = 1 =>
            s \in published \/ (worker.s = s /\ worker.step \in {"submit", "finish"})
  /\ worker.step # "idle" => worker.s \notin published

(* Nothing was said of a result before its claim, nor by its worker yet.   *)
Unspoken ==
  /\ \A s \in ResultIds :
       (ledger.results[s] = None \/ ledger.results[s].speech = "pending") => spoken[s] = 0
  /\ \A s \in ResultIds :
       worker.s = s /\ worker.claimed /\ worker.step \in {"show", "submit"} => spoken[s] = 0

(* A route that was not restored is one of a dispatch of this process.     *)
Registered ==
  \A r \in Runs : routes[r] # None /\ ~routes[r].restored => r \in dispatched

(* A worker that may speak has a result of turns of this process; once it  *)
(* submits, the result is shown and its listener has been there since the  *)
(* worker took it up.                                                      *)
Addressed ==
  /\ IF worker.step = "idle" THEN ~worker.live ELSE worker.since <= listener
  /\ \A s \in ResultIds :
       worker.s = s /\ worker.live /\ worker.speaker => RunsOf(s) \subseteq dispatched
  /\ \A s \in ResultIds : worker.s = s /\ worker.step = "submit" =>
       /\ worker.claimed /\ worker.live /\ worker.speaker /\ shown[s] = 1
       /\ \A k \in MembersOf(s) : ledger.inputs[k].dest \in worker.since .. listener

SpeechInv == Displayed /\ Unspoken /\ Registered /\ Addressed

LEMMA RegisteredStep == DeliveryInv /\ Registered /\ [Next]_vars => Registered'
<1> SUFFICES ASSUME DeliveryInv, Registered, [Next]_vars PROVE Registered'
  OBVIOUS
<1>0. routes \in [Runs -> Route \cup {None}]
  BY DEF DeliveryInv, TypeOK
<1>1. CASE UNCHANGED <<routes, dispatched>>
  BY <1>1 DEF Registered
<1>2. ASSUME NEW k \in Keys, Register(k) PROVE Registered'
  BY <1>0, <1>2 DEF Register, Registered
<1>3. ASSUME NEW k \in Keys, Forget(k) PROVE Registered'
  BY <1>0, <1>3 DEF Forget, Registered
<1>4. ASSUME NEW s \in ResultIds, Pick(s) PROVE Registered'
  BY <1>0, <1>4 DEF Pick, RestoredRoute, Registered
<1>5. CASE Show
  <2> SUFFICES ASSUME NEW r \in Runs, routes'[r] # None, ~routes'[r].restored
      PROVE  r \in dispatched'
    BY DEF Registered
  <2>1. routes'[r] = routes[r] \/ (/\ RouteOfMember(worker.s, r)
                                   /\ routes'[r] = [routes[r] EXCEPT !.completed = TRUE])
    BY <1>5 DEF Show
  <2>2. RouteOfMember(worker.s, r) => routes[r] \in Route
    BY <1>0 DEF RouteOfMember, Matches
  <2>3. routes[r] # None /\ ~routes[r].restored
    BY <1>0, <2>1, <2>2, RouteAssumption DEF Route
  <2> QED BY <1>5, <2>3 DEF Show, Registered
<1>6. CASE FinishSpeech
  BY <1>0, <1>6 DEF FinishSpeech, Close, Registered
<1>7. CASE Restart
  BY <1>7 DEF Restart, RestoredRoute, Registered
<1>8. CASE Requester
  BY <1>1, <1>2, <1>3, <1>8
     DEF Requester, MarkRun, Refuse, ReserveInput, StorageFails, CheckRoute, Send, Return, routeV
<1>9. CASE Inbox
  BY <1>1, <1>9 DEF Inbox, Emit, Capture, Apply, Receipt, routeV
<1>10. CASE Deliver
  BY <1>1, <1>4, <1>5, <1>6, <1>10 DEF Deliver, Inspect, ClaimSpeech, Submit, routeV
<1>11. CASE World
  BY <1>1, <1>7, <1>11 DEF World, ChangeListener, Expire, Age, routeV
<1> QED BY <1>1, <1>8, <1>9, <1>10, <1>11 DEF Next, vars, routeV

(* A step that leaves worker, displays and speech alone.                   *)
LEMMA SpeechQuiet ==
  ASSUME DeliveryInv, SpeechInv, [Next]_vars, UNCHANGED workV,
         dispatched \subseteq dispatched', listener <= listener', listener' \in Nat,
         ledger'.results = ledger.results \/ \E t \in ResultIds : Apply(t)
  PROVE  SpeechInv'
<1>0. ledger \in Ledgers /\ worker \in Worker /\ listener \in Nat /\ worker.since \in Nat
  BY DEF DeliveryInv, TypeOK, Worker
<1>1. Displayed'
  BY DEF SpeechInv, Displayed, workV
<1>2. ASSUME NEW s \in ResultIds,
             ledger'.results[s] = None \/ ledger'.results[s].speech = "pending"
      PROVE  ledger.results[s] = None \/ ledger.results[s].speech = "pending"
  <2>1. ASSUME NEW t \in ResultIds, Apply(t)
        PROVE  ledger.results[s] = None \/ ledger.results[s].speech = "pending"
    <3>1. ledger.results[t] = None
      BY <2>1 DEF Apply, ApplyFresh
    <3>2. CASE ledger' = Applied(ledger, t, ledger.staged[t], late)
      <4>1. \A u \in ResultIds \ {t} : ledger'.results[u] = ledger.results[u]
        BY <1>0, <3>2 DEF Applied, Ledgers
      <4> QED BY <1>2, <3>1, <4>1
    <3> QED BY <1>2, <2>1, <3>2 DEF Apply
  <2> QED BY <1>2, <2>1
<1>3. Unspoken'
  BY <1>2 DEF SpeechInv, Unspoken, workV
<1>4. \A s \in ResultIds : worker.s = s /\ worker.step # "idle" =>
        /\ MembersOf(s)' = MembersOf(s) /\ RunsOf(s)' = RunsOf(s)
        /\ \A k \in MembersOf(s) : ledger'.inputs[k].dest = ledger.inputs[k].dest
  BY LedgerStep, MembersKept DEF DeliveryInv, Working
<1>5. worker.step = "idle" => ~worker.live
  BY DEF SpeechInv, Addressed
<1>6. Addressed'
  BY <1>0, <1>4, <1>5 DEF SpeechInv, Addressed, workV
<1> QED BY <1>1, <1>3, <1>6, RegisteredStep DEF SpeechInv

LEMMA SpeechPick ==
  ASSUME DeliveryInv, SpeechInv, NEW s \in ResultIds, Pick(s)
  PROVE  Displayed' /\ Unspoken' /\ Addressed'
<1>0. listener \in Nat
  BY DEF DeliveryInv, TypeOK
<1>1. /\ worker'.step = "inspect" /\ worker'.s = s /\ worker'.since = listener
      /\ ~worker'.live /\ ~worker'.claimed /\ worker.step = "idle"
      /\ s \notin published
      /\ UNCHANGED <<ledger, published, shown, spoken, listener>>
  BY DEF Pick, Idle, storeV
<1>2. Displayed'
  BY <1>1 DEF SpeechInv, Displayed
<1>3. Unspoken'
  BY <1>1 DEF SpeechInv, Unspoken
<1>4. Addressed'
  BY <1>0, <1>1 DEF Addressed
<1> QED BY <1>2, <1>3, <1>4

LEMMA SpeechInspect ==
  ASSUME DeliveryInv, SpeechInv, Inspect
  PROVE  Displayed' /\ Unspoken' /\ Addressed'
<1>0. worker \in Worker /\ worker.step = "inspect" /\ ~worker.claimed
        /\ worker.s \in ResultIds /\ ledger.results[worker.s] # None
        /\ UNCHANGED <<ledger, dispatched, published, shown, spoken, listener>>
  BY DEF DeliveryInv, TypeOK, Inspect, Working, storeV, routeV
<1>1. CASE worker' = Idle
  BY <1>0, <1>1 DEF SpeechInv, Displayed, Unspoken, Addressed, Idle
<1>2. CASE worker' # Idle
  <2>1. worker' = [worker EXCEPT !.step = "claim",
              !.live = \A k \in MembersOf(worker.s) : Matches(k),
              !.speaker = \A r \in RunsOf(worker.s) : routes[r] # None => ~routes[r].restored]
    BY <1>2 DEF Inspect
  <2>2. Displayed' /\ Unspoken'
    BY <1>0, <2>1 DEF SpeechInv, Displayed, Unspoken, Worker
  <2>3. ASSUME NEW s \in ResultIds, worker'.s = s, worker'.live, worker'.speaker
        PROVE  (RunsOf(s) \subseteq dispatched)'
    <3>1. worker.s = s /\ (\A k \in MembersOf(s) : Matches(k))
            /\ \A r \in RunsOf(s) : routes[r] # None => ~routes[r].restored
      BY <1>0, <2>1, <2>3 DEF Worker
    <3>2. \A r \in RunsOf(s) : r \in Runs /\ routes[r] # None
      BY <1>0, <3>1, RunsOfTyped DEF RunsOf, Matches
    <3>3. RunsOf(s) \subseteq dispatched
      BY <3>1, <3>2 DEF SpeechInv, Registered
    <3> QED BY <1>0, <3>3 DEF RunsOf, MembersOf
  <2>4. Addressed'
    BY <1>0, <2>1, <2>3 DEF SpeechInv, Addressed, Worker
  <2> QED BY <2>2, <2>4
<1> QED BY <1>1, <1>2

LEMMA SpeechClaim ==
  ASSUME DeliveryInv, SpeechInv, ClaimSpeech, [Next]_vars
  PROVE  Displayed' /\ Unspoken' /\ Addressed'
<1>0. /\ worker \in Worker /\ worker.step = "claim" /\ ~worker.claimed /\ ledger \in Ledgers
      /\ worker.s \in ResultIds /\ ledger.results[worker.s] # None
      /\ UNCHANGED <<dispatched, published, shown, spoken, listener>>
  BY DEF DeliveryInv, TypeOK, ClaimSpeech, Working, routeV
<1>1. \A s \in ResultIds : worker.s = s => RunsOf(s)' = RunsOf(s)
  BY <1>0, LedgerStep, MembersKept
<1>2. CASE worker' = Idle /\ UNCHANGED ledger
  BY <1>0, <1>2 DEF SpeechInv, Displayed, Unspoken, Addressed, Idle
<1>3. CASE worker' = [worker EXCEPT !.step = "show"] /\ UNCHANGED ledger
  BY <1>0, <1>1, <1>3 DEF SpeechInv, Displayed, Unspoken, Addressed, Worker
<1>4. CASE /\ ClaimFresh(ledger, worker.s)
           /\ ledger' = Claimed(ledger, worker.s, late)
           /\ worker' = [worker EXCEPT !.step = "show",
                                       !.claimed = ClaimGrants(ledger, worker.s, late)]
  <2>1. Displayed' /\ Addressed'
    BY <1>0, <1>1, <1>4 DEF SpeechInv, Displayed, Addressed, Worker
  <2>2. /\ ledger'.results[worker.s].speech \in {"claimed", "suppressed"}
        /\ \A u \in ResultIds \ {worker.s} : ledger'.results[u] = ledger.results[u]
        /\ ledger'.results[worker.s] # None
    <3>1. ledger'.results[worker.s] # None
      BY <1>0, LedgerStep DEF Keeps
    <3> QED BY <1>0, <1>4, <3>1 DEF Claimed, Ledgers, Record
  <2>3. spoken[worker.s] = 0
    BY <1>0, <1>4 DEF SpeechInv, Unspoken, ClaimFresh
  <2>4. Unspoken'
    BY <1>0, <1>4, <2>2, <2>3 DEF SpeechInv, Unspoken, Worker
  <2> QED BY <2>1, <2>4
<1> QED BY <1>2, <1>3, <1>4 DEF ClaimSpeech

LEMMA SpeechShow ==
  ASSUME DeliveryInv, SpeechInv, Show
  PROVE  Displayed' /\ Unspoken' /\ Addressed'
<1> DEFINE live == worker.live /\ Showable(worker.s)
<1>0. /\ worker \in Worker /\ worker.step = "show" /\ shown \in [ResultIds -> Nat]
      /\ worker.s \in ResultIds /\ ledger.results[worker.s] # None
      /\ listener \in Nat /\ worker.since <= listener /\ worker.since \in Nat
      /\ UNCHANGED <<ledger, dispatched, published, spoken, listener>>
  BY DEF DeliveryInv, TypeOK, Show, Working, SpeechInv, Addressed, Worker, storeV
<1>1. /\ worker'.s = worker.s /\ worker'.since = worker.since
      /\ worker'.claimed = worker.claimed /\ worker'.speaker = worker.speaker
      /\ worker'.live = live /\ worker'.step \in {"submit", "finish"}
      /\ worker'.step = "submit" => Audible(worker.s, live)
  BY <1>0 DEF Show, Worker
<1>2. shown' = [shown EXCEPT ![worker.s] = IF live THEN @ + 1 ELSE @]
  BY DEF Show
<1>3. shown[worker.s] = 0
  BY <1>0 DEF SpeechInv, Displayed
<1> HIDE DEF live
<1>4. shown'[worker.s] = (IF live THEN 1 ELSE 0)
  BY <1>0, <1>2, <1>3
<1>5. Displayed'
  BY <1>0, <1>1, <1>2, <1>4 DEF SpeechInv, Displayed
<1>6. Unspoken'
  BY <1>0, <1>1 DEF SpeechInv, Unspoken
<1>7. live => worker.live
  BY DEF live
<1>8. ASSUME NEW s \in ResultIds, worker'.s = s
      PROVE  /\ MembersOf(s)' = MembersOf(s) /\ RunsOf(s)' = RunsOf(s)
             /\ \A k \in MembersOf(s) : ledger'.inputs[k].dest = ledger.inputs[k].dest
  BY <1>0 DEF MembersOf, RunsOf
<1>9. ASSUME NEW s \in ResultIds, worker'.s = s, worker'.step = "submit"
      PROVE  (/\ worker.claimed /\ worker.live /\ worker.speaker /\ shown[s] = 1
              /\ \A k \in MembersOf(s) : ledger.inputs[k].dest \in worker.since .. listener)'
  BY <1>0, <1>1, <1>4, <1>8, <1>9 DEF Audible
<1>10. Addressed'
  BY <1>0, <1>1, <1>7, <1>8, <1>9 DEF SpeechInv, Addressed
<1> QED BY <1>5, <1>6, <1>10

LEMMA SpeechSubmit ==
  ASSUME DeliveryInv, SpeechInv, Submit
  PROVE  Displayed' /\ Unspoken' /\ Addressed'
<1>0. /\ worker \in Worker /\ worker.step = "submit" /\ spoken \in [ResultIds -> Nat]
      /\ worker.s \in ResultIds /\ ledger.results[worker.s] # None
      /\ UNCHANGED <<ledger, dispatched, published, shown, listener>>
  BY DEF DeliveryInv, TypeOK, Submit, Working, storeV, routeV
<1>1. /\ worker'.step = "finish" /\ worker'.s = worker.s /\ worker'.since = worker.since
      /\ worker'.live = worker.live /\ worker'.speaker = worker.speaker
      /\ worker'.claimed = worker.claimed
  BY <1>0 DEF Submit, Worker
<1>2. ledger.results[worker.s].speech = "claimed"
  BY <1>0 DEF DeliveryInv, Working, SpeechInv, Addressed
<1>3. \A s \in ResultIds \ {worker.s} : spoken'[s] = spoken[s]
  BY <1>0 DEF Submit
<1>4. Displayed'
  BY <1>0, <1>1 DEF SpeechInv, Displayed
<1>5. Unspoken'
  BY <1>0, <1>1, <1>2, <1>3 DEF SpeechInv, Unspoken
<1>6. \A s \in ResultIds : RunsOf(s)' = RunsOf(s)
  BY <1>0 DEF MembersOf, RunsOf
<1>7. Addressed'
  BY <1>0, <1>1, <1>6 DEF SpeechInv, Addressed
<1> QED BY <1>4, <1>5, <1>7

LEMMA SpeechFinish ==
  ASSUME DeliveryInv, SpeechInv, FinishSpeech
  PROVE  Displayed' /\ Unspoken' /\ Addressed'
<1>0. /\ worker \in Worker /\ ledger \in Ledgers
      /\ worker.s \in ResultIds /\ ledger.results[worker.s] # None
      /\ worker' = Idle /\ published' = published \cup {worker.s}
      /\ UNCHANGED <<dispatched, shown, spoken, listener>>
  BY DEF DeliveryInv, TypeOK, FinishSpeech, Close, Working
<1>1. Displayed' /\ Addressed'
  BY <1>0 DEF SpeechInv, Displayed, Addressed, Idle
<1>2. CASE worker.claimed /\ ledger' = Finished(ledger, worker.s, worker.state)
  <2>1. worker.state \in SpeechDone
    BY <1>0 DEF Worker
  <2>2. /\ ledger'.results[worker.s].speech = worker.state
        /\ \A u \in ResultIds \ {worker.s} : ledger'.results[u] = ledger.results[u]
    BY <1>0, <1>2 DEF Finished, Ledgers, Record
  <2>3. ledger'.results[worker.s] # None
    BY <1>0, <1>2, <2>1, FinishedKeeps DEF DeliveryInv, Working, FinishFresh, Keeps
  <2> QED BY <1>0, <1>1, <2>1, <2>2, <2>3 DEF SpeechInv, Unspoken, Idle, SpeechDone
<1>3. CASE UNCHANGED ledger
  BY <1>0, <1>1, <1>3 DEF SpeechInv, Unspoken, Idle
<1> QED BY <1>2, <1>3 DEF FinishSpeech

LEMMA SpeechRestart ==
  ASSUME DeliveryInv, SpeechInv, Restart
  PROVE  Displayed' /\ Unspoken' /\ Addressed'
<1>0. /\ ledger \in Ledgers /\ worker' = Idle /\ published' = {} /\ UNCHANGED spoken
      /\ shown' = [s \in ResultIds |-> 0] /\ ledger' = Recovered(ledger)
  BY DEF DeliveryInv, TypeOK, Restart
<1>1. Displayed' /\ Addressed'
  BY <1>0 DEF Displayed, Addressed, Idle
<1>2. ASSUME NEW s \in ResultIds,
             ledger'.results[s] = None \/ ledger'.results[s].speech = "pending"
      PROVE  ledger.results[s] = None \/ ledger.results[s].speech = "pending"
  <2>1. CASE ledger.results[s] # None /\ ledger.results[s].speech = "claimed"
    <3>1. ledger'.results[s] = [ledger.results[s] EXCEPT !.speech = "uncertain"]
      BY <1>0, <2>1 DEF Recovered, Ledgers
    <3>2. Keeps(ledger, ledger')
      BY <1>0, RecoveredKeeps
    <3>3. ledger.results[s] \in Record /\ ledger'.results[s] # None
      BY <1>0, <2>1, <3>2 DEF Ledgers, Keeps
    <3> QED BY <1>2, <3>1, <3>3 DEF Record
  <2>2. CASE ledger'.results[s] = ledger.results[s]
    BY <1>2, <2>2
  <2> QED BY <1>0, <2>1, <2>2 DEF Recovered, Ledgers
<1>3. Unspoken'
  BY <1>0, <1>2 DEF SpeechInv, Unspoken, Idle
<1> QED BY <1>1, <1>3

LEMMA SpeechStep == DeliveryInv /\ SpeechInv /\ [Next]_vars => SpeechInv'
<1> SUFFICES ASSUME DeliveryInv, SpeechInv, [Next]_vars PROVE SpeechInv'
  OBVIOUS
<1>0. Registered' /\ listener \in Nat
  BY RegisteredStep DEF SpeechInv, DeliveryInv, TypeOK
<1>1. CASE Deliver
  <2>1. Displayed' /\ Unspoken' /\ Addressed'
    BY <1>1, SpeechPick, SpeechInspect, SpeechClaim, SpeechShow, SpeechSubmit, SpeechFinish
       DEF Deliver
  <2> QED BY <1>0, <2>1 DEF SpeechInv
<1>2. CASE Restart
  BY <1>0, <1>2, SpeechRestart DEF SpeechInv
<1>3. CASE ~Deliver /\ ~Restart
  <2> DEFINE Quiet == /\ UNCHANGED workV /\ dispatched \subseteq dispatched'
                      /\ listener' \in {listener, listener + 1}
  <2>1. Quiet
    <3>1. CASE Requester
      BY <3>1 DEF Requester, Register, MarkRun, Refuse, ReserveInput, StorageFails, CheckRoute,
                  Forget, Send, Return, routeV
    <3>2. CASE Inbox
      BY <3>2 DEF Inbox, Emit, Capture, Apply, Receipt, routeV
    <3>3. CASE World
      BY <1>3, <3>3 DEF World, ChangeListener, Expire, Age, routeV
    <3> QED BY <1>3, <3>1, <3>2, <3>3 DEF Next, vars, routeV
  <2>2. ledger'.results = ledger.results \/ \E t \in ResultIds : Apply(t)
    BY <1>3, ResultsAlone DEF Deliver
  <2> QED BY <1>0, <2>1, <2>2, SpeechQuiet
<1> QED BY <1>1, <1>2, <1>3

LEMMA SpeechInit == Init => SpeechInv
BY DEF Init, SpeechInv, Displayed, Unspoken, Registered, Addressed, Idle

THEOREM SpeechKept == Spec => [](DeliveryInv /\ SpeechInv)
<1>1. Init => SpeechInv
  BY SpeechInit
<1>2. DeliveryInv /\ SpeechInv /\ [Next]_vars => SpeechInv'
  BY SpeechStep
<1> QED BY <1>1, <1>2, DeliveryKept, PTL DEF Spec

(* DeliverHarnessGroupedResult shows a result at most once per process,    *)
(* however marks age, are purged and are restored.                         *)
THEOREM ShownOnceAlways == Spec => []ShownOnce
<1>1. SpeechInv => ShownOnce
  BY DEF SpeechInv, Displayed, ShownOnce
<1> QED BY <1>1, SpeechKept, PTL

(***************************************************************************)
(* A result is submitted to the speaker at most once, restarts included,   *)
(* with its claim in the file, after its display, for runs of this process *)
(* and to a listener that was there when the worker took the result up.    *)
(***************************************************************************)
THEOREM SpeechIsLiveAlways == Spec => SpeechIsLive
<1> DEFINE Says(s) ==
      /\ spoken'[s] = 1
      /\ ledger.results[s].speech = "claimed" /\ shown[s] = 1
      /\ RunsOf(s) \subseteq dispatched
      /\ \A k \in MembersOf(s) : ledger.inputs[k].dest \in worker.since .. listener
<1>1. DeliveryInv /\ SpeechInv /\ [Next]_vars =>
        [\A s \in ResultIds : spoken'[s] # spoken[s] => Says(s)]_spoken
  <2> SUFFICES ASSUME DeliveryInv, SpeechInv, [Next]_vars, spoken' # spoken,
                      NEW s \in ResultIds, spoken'[s] # spoken[s]
               PROVE  Says(s)
    OBVIOUS
  <2>1. Submit
    <3>1. CASE Requester
      BY <3>1 DEF Requester, Register, MarkRun, Refuse, ReserveInput, StorageFails, CheckRoute,
                  Forget, Send, Return, workV
    <3>2. CASE Inbox
      BY <3>2 DEF Inbox, Emit, Capture, Apply, Receipt, workV
    <3>3. CASE World
      BY <3>3 DEF World, ChangeListener, Expire, Age, Restart, workV
    <3>4. CASE Deliver
      BY <3>4 DEF Deliver, Pick, Inspect, ClaimSpeech, Show, FinishSpeech
    <3> QED BY <3>1, <3>2, <3>3, <3>4 DEF Next, vars, workV
  <2>2. worker.s = s /\ worker.step = "submit" /\ spoken'[s] = spoken[s] + 1
    BY <2>1 DEF Submit, DeliveryInv, TypeOK
  <2>3. worker.claimed /\ spoken[s] = 0
    BY <2>2 DEF SpeechInv, Addressed, Unspoken
  <2>4. ledger.results[s].speech = "claimed"
    BY <2>2, <2>3 DEF DeliveryInv, Working
  <2> QED BY <2>2, <2>3, <2>4 DEF SpeechInv, Addressed
<1> QED BY <1>1, SpeechKept, PTL DEF Spec, SpeechIsLive

-----------------------------------------------------------------------------
(* The file comes first.                                                   *)

(* No two dispatches name the same run.                                    *)
OneRunEach == \A j, k \in Keys : RunOf[j] = RunOf[k] => j = k

Named == \A k \in Keys : ledger.inputs[k] # None => ledger.inputs[k].run = RunOf[k]

(* A route leads to the key that its run was dispatched for; one that was  *)
(* restored or completed, to a key in the ledger.                          *)
Routed == \A r \in Runs : routes[r] # None =>
  /\ RunOf[routes[r].key] = r
  /\ routes[r].restored \/ routes[r].completed => ledger.inputs[routes[r].key] # None

(* A request has its route until it has its reservation, and is past its   *)
(* reservation only with it.                                               *)
Reserving == \A k \in Keys :
  /\ calls[k] \in {"registering", "registered"} =>
       ledger.inputs[k] # None \/ routes[RunOf[k]] # None
  /\ calls[k] \in {"reserved", "sending", "sent"} => ledger.inputs[k] # None

WrittenInv == Named /\ Routed /\ Reserving /\ WrittenFirst

LEMMA NamedStep == DeliveryInv /\ Named /\ [Next]_vars => Named'
<1> SUFFICES ASSUME DeliveryInv, Named, [Next]_vars PROVE Named'
  OBVIOUS
<1>0. ledger \in Ledgers /\ Keeps(ledger, ledger')
  BY LedgerStep DEF DeliveryInv, TypeOK
<1>1. CASE \A k \in Keys : ledger'.inputs[k] # None => ledger.inputs[k] # None
  BY <1>0, <1>1 DEF Named, Keeps
<1>2. ASSUME NEW k \in Keys, BindKey(k) PROVE Named'
  <2>1. \A j \in Keys \ {k} : ledger'.inputs[j] = ledger.inputs[j]
    BY <1>0, <1>2 DEF BindKey, ReceiptBound, Ledgers
  <2> QED BY <1>1, <1>2, <2>1 DEF BindKey, Unbound, ReceiptFresh
<1>3. ASSUME NEW k \in Keys, ReserveInput(k) PROVE Named'
  <2>1. CASE ledger' = Reserved(ledger, k, Agent, RunOf[k], DestOf(k))
    <3>1. ledger'.inputs[k].run = RunOf[k]
            /\ \A j \in Keys \ {k} : ledger'.inputs[j] = ledger.inputs[j]
      BY <1>0, <2>1 DEF Reserved, Ledgers
    <3> QED BY <3>1 DEF Named
  <2> QED BY <1>1, <1>3, <2>1 DEF ReserveInput, StorageFails
<1>4. ASSUME NEW s \in ResultIds, Capture(s) PROVE Named'
  BY <1>0, <1>1, <1>4 DEF Capture, Staged, Ledgers
<1>5. ASSUME NEW s \in ResultIds, Apply(s) PROVE Named'
  <2>1. CASE ledger' = Applied(ledger, s, ledger.staged[s], late)
    <3>1. \A k \in Keys \ Members(ledger.staged[s]) : ledger'.inputs[k] = ledger.inputs[k]
      BY <1>0, <2>1 DEF Applied, Ledgers
    <3> QED BY <1>1, <1>5, <3>1 DEF Apply, ApplyFresh, MemberReady
  <2> QED BY <1>1, <1>5, <2>1 DEF Apply
<1>6. CASE ClaimSpeech \/ FinishSpeech \/ Restart
  BY <1>0, <1>1, <1>6
     DEF ClaimSpeech, FinishSpeech, Restart, Claimed, Finished, Recovered, Ledgers
<1>7. CASE UNCHANGED ledger
  BY <1>1, <1>7
<1>8. CASE Requester
  BY <1>2, <1>3, <1>7, <1>8
     DEF Requester, Register, MarkRun, Refuse, CheckRoute, Send, Return, storeV
<1>9. CASE Inbox
  BY <1>2, <1>4, <1>5, <1>7, <1>9 DEF Inbox, Emit, Receipt, storeV
<1>10. CASE Deliver
  BY <1>6, <1>7, <1>10 DEF Deliver, Pick, Inspect, Show, Submit, storeV
<1>11. CASE World
  BY <1>6, <1>7, <1>11 DEF World, ChangeListener, Expire, Age, storeV
<1> QED BY <1>7, <1>8, <1>9, <1>10, <1>11 DEF Next, vars, storeV

LEMMA RoutedStep == DeliveryInv /\ Named /\ Routed /\ [Next]_vars => Routed'
<1> SUFFICES ASSUME DeliveryInv, Named, Routed, [Next]_vars PROVE Routed'
  OBVIOUS
<1>0. TypeOK /\ routes \in [Runs -> Route \cup {None}] /\ Keeps(ledger, ledger')
  BY LedgerStep DEF DeliveryInv, TypeOK
<1>1. ASSUME NEW r \in Runs, routes'[r] \in {routes[r], None}, routes'[r] # None
      PROVE  /\ RunOf[routes'[r].key] = r
             /\ routes'[r].restored \/ routes'[r].completed
                  => ledger'.inputs[routes'[r].key] # None
  BY <1>0, <1>1 DEF Routed, Route, Keeps
<1>2. CASE \A r \in Runs : routes'[r] \in {routes[r], None}
  BY <1>1, <1>2 DEF Routed
<1>3. ASSUME NEW r \in Runs, NEW j \in Keys, ledger.inputs[j] # None, ledger.inputs[j].run = r
      PROVE  /\ RunOf[RestoredRoute(r).key] = r
             /\ ledger'.inputs[RestoredRoute(r).key] # None
  BY <1>0, <1>3, RestoredTyped DEF RestoredRoute, Named, Keeps
<1>4. ASSUME NEW k \in Keys, Register(k) PROVE Routed'
  <2>1. \A r \in Runs \ {RunOf[k]} : routes'[r] = routes[r]
    BY <1>0, <1>4 DEF Register
  <2>2. routes'[RunOf[k]] = [key |-> k, restored |-> FALSE, completed |-> FALSE]
    BY <1>0, <1>4, DispatchAssumption DEF Register
  <2> QED BY <1>1, <2>1, <2>2 DEF Routed
<1>5. ASSUME NEW k \in Keys, Forget(k) PROVE Routed'
  BY <1>0, <1>2, <1>5 DEF Forget
<1>6. ASSUME NEW s \in ResultIds, Pick(s) PROVE Routed'
  <2>1. \A r \in Runs : routes'[r] = routes[r] \/ (r \in RunsOf(s) /\ routes'[r] = RestoredRoute(r))
    BY <1>6 DEF Pick
  <2>2. \A r \in RunsOf(s) : \E k \in Keys : ledger.inputs[k] # None /\ ledger.inputs[k].run = r
    BY <1>6, RunsOfTyped DEF Pick
  <2> QED BY <1>1, <1>3, <2>1, <2>2 DEF Routed
<1>7. CASE Show
  <2> SUFFICES ASSUME NEW r \in Runs, routes'[r] # None
      PROVE  /\ RunOf[routes'[r].key] = r
             /\ routes'[r].restored \/ routes'[r].completed
                  => ledger'.inputs[routes'[r].key] # None
    BY DEF Routed
  <2>1. CASE RouteOfMember(worker.s, r)
    <3>1. PICK k \in MembersOf(worker.s) : ledger.inputs[k].run = r /\ Matches(k)
      BY <2>1 DEF RouteOfMember
    <3>2. routes[r] # None /\ routes[r].key = k
      BY <3>1 DEF Matches
    <3>3. worker.s \in ResultIds /\ ledger.results[worker.s] # None
      BY <1>7 DEF Show, DeliveryInv, Working
    <3>4. k \in Keys /\ ledger.inputs[k] # None
      BY <1>0, <3>3, RecordOf DEF DeliveryInv, Whole
    <3>5. routes'[r] = [routes[r] EXCEPT !.completed = TRUE]
      BY <1>7, <2>1 DEF Show
    <3>6. routes[r] \in Route /\ routes'[r].key = k
      BY <1>0, <3>2, <3>5 DEF Route
    <3> QED BY <1>0, <3>2, <3>4, <3>6 DEF Routed, Keeps
  <2>2. CASE ~RouteOfMember(worker.s, r)
    BY <1>1, <1>7, <2>2 DEF Show
  <2> QED BY <2>1, <2>2
<1>8. CASE FinishSpeech
  BY <1>2, <1>8 DEF FinishSpeech, Close
<1>9. CASE Restart
  <2>1. \A r \in Runs : routes'[r] # None =>
          /\ routes'[r] = RestoredRoute(r)
          /\ \E k \in Keys : ledger.inputs[k] # None /\ ledger.inputs[k].run = r
    BY <1>9 DEF Restart
  <2> QED BY <1>3, <2>1 DEF Routed
<1>10. CASE UNCHANGED routes
  BY <1>2, <1>10
<1>11. CASE Requester
  BY <1>4, <1>5, <1>10, <1>11
     DEF Requester, MarkRun, Refuse, ReserveInput, StorageFails, CheckRoute, Send, Return, routeV
<1>12. CASE Inbox
  BY <1>10, <1>12 DEF Inbox, Emit, Capture, Apply, Receipt, routeV
<1>13. CASE Deliver
  BY <1>6, <1>7, <1>8, <1>10, <1>13 DEF Deliver, Inspect, ClaimSpeech, Submit, routeV
<1>14. CASE World
  BY <1>9, <1>10, <1>14 DEF World, ChangeListener, Expire, Age, routeV
<1> QED BY <1>10, <1>11, <1>12, <1>13, <1>14 DEF Next, vars, routeV

(* A request that is neither starting nor being reserved.                  *)
LEMMA ReservingQuiet ==
  ASSUME DeliveryInv, Reserving, [Next]_vars, NEW k \in Keys, calls'[k] = calls[k],
         routes'[RunOf[k]] # None \/ routes[RunOf[k]] = None \/ ledger.inputs[k] # None
  PROVE  /\ calls'[k] \in {"registering", "registered"} =>
              ledger'.inputs[k] # None \/ routes'[RunOf[k]] # None
         /\ calls'[k] \in {"reserved", "sending", "sent"} => ledger'.inputs[k] # None
BY LedgerStep DEF Reserving, Keeps

LEMMA ReservingStep ==
  DeliveryInv /\ WrittenInv /\ OneRunEach /\ [Next]_vars => Reserving'
<1> SUFFICES ASSUME DeliveryInv, WrittenInv, OneRunEach, [Next]_vars, NEW k \in Keys
             PROVE  /\ calls'[k] \in {"registering", "registered"} =>
                         ledger'.inputs[k] # None \/ routes'[RunOf[k]] # None
                    /\ calls'[k] \in {"reserved", "sending", "sent"} => ledger'.inputs[k] # None
  BY DEF Reserving
<1>0. /\ routes \in [Runs -> Route \cup {None}] /\ calls \in Calls /\ RunOf[k] \in Runs
      /\ Reserving /\ Routed /\ Named /\ Keeps(ledger, ledger')
  BY LedgerStep, DispatchAssumption DEF DeliveryInv, TypeOK, Calls, WrittenInv
<1>1. CASE calls'[k] = calls[k] /\ routes'[RunOf[k]] = routes[RunOf[k]]
  BY <1>0, <1>1, ReservingQuiet
<1>2. CASE calls'[k] \in {"idle", "unknown", "done"}
  BY <1>2
<1>3. ASSUME NEW j \in Keys, Register(j) \/ MarkRun(j)
      PROVE  /\ calls'[k] \in {"registering", "registered"} =>
                  ledger'.inputs[k] # None \/ routes'[RunOf[k]] # None
             /\ calls'[k] \in {"reserved", "sending", "sent"} => ledger'.inputs[k] # None
  <2>1. CASE Register(j)
    <3>1. routes'[RunOf[j]] = [key |-> j, restored |-> FALSE, completed |-> FALSE]
      BY <1>0, <2>1, DispatchAssumption DEF Register
    <3>2. routes'[RunOf[j]] # None
      <4>1. [key |-> j, restored |-> FALSE, completed |-> FALSE] \in Route
        BY DEF Route
      <4> QED BY <3>1, <4>1, RouteAssumption
    <3>3. CASE j = k
      BY <1>0, <2>1, <3>2, <3>3 DEF Register, Calls
    <3>4. CASE j # k
      BY <1>0, <1>1, <2>1, <3>4, DispatchAssumption DEF Register, Calls, OneRunEach
    <3> QED BY <3>3, <3>4
  <2>2. CASE MarkRun(j)
    <3>1. CASE j = k
      BY <1>0, <2>2, <3>1 DEF MarkRun, Calls, Reserving, Keeps
    <3>2. CASE j # k
      BY <1>0, <1>1, <2>2, <3>2 DEF MarkRun, Calls
    <3> QED BY <3>1, <3>2
  <2> QED BY <1>3, <2>1, <2>2
<1>4. ASSUME NEW j \in Keys, Forget(j)
      PROVE  /\ calls'[k] \in {"registering", "registered"} =>
                  ledger'.inputs[k] # None \/ routes'[RunOf[k]] # None
             /\ calls'[k] \in {"reserved", "sending", "sent"} => ledger'.inputs[k] # None
  <2>1. CASE j = k
    BY <1>0, <1>2, <1>4, <2>1 DEF Forget, Calls
  <2>2. CASE j # k
    BY <1>0, <1>1, <1>4, <2>2, DispatchAssumption DEF Forget, Calls, OneRunEach
  <2> QED BY <2>1, <2>2
<1>5. ASSUME NEW j \in Keys, ReserveInput(j)
      PROVE  /\ calls'[k] \in {"registering", "registered"} =>
                  ledger'.inputs[k] # None \/ routes'[RunOf[k]] # None
             /\ calls'[k] \in {"reserved", "sending", "sent"} => ledger'.inputs[k] # None
  <2>1. CASE Forget(j)
    BY <1>4, <2>1
  <2>2. CASE j # k /\ ~Forget(j)
    BY <1>0, <1>1, <1>5, <2>2 DEF ReserveInput, StorageFails, routeV, Calls
  <2>3. CASE j = k /\ ~Forget(j)
    <3>1. CASE ~Tracked(k)
      <4>1. ledger.inputs[k] # None \/ routes[RunOf[k]] # None
        BY <1>0, <1>5, <2>3 DEF ReserveInput, Reserving
      <4>2. routes[RunOf[k]] # None =>
              routes[RunOf[k]].key = k \/ ledger.inputs[k] # None
        BY <1>0 DEF Routed, Route, OneRunEach
      <4>3. ledger.inputs[k] # None
        BY <1>0, <3>1, <4>1, <4>2 DEF Tracked, RouteOf, Routed
      <4> QED BY <1>0, <4>3 DEF Keeps
    <3>2. CASE Tracked(k) /\ Known(k)
      BY <1>0, <3>2 DEF Known, Keeps
    <3>3. CASE ledger' = Reserved(ledger, k, Agent, RunOf[k], DestOf(k))
      <4>1. ledger'.inputs[k] =
              [agent |-> Agent, run |-> RunOf[k], dest |-> DestOf(k),
               delivery |-> None, result |-> None]
        BY <3>3 DEF Reserved, DeliveryInv, TypeOK, Ledgers
      <4>2. ledger'.inputs[k] \in Input
        BY <4>1, DestTyped, DispatchAssumption DEF DeliveryInv, Input
      <4> QED BY <4>2, NoneAssumption
    <3> QED BY <1>5, <2>3, <3>1, <3>2, <3>3 DEF ReserveInput, StorageFails
  <2> QED BY <2>1, <2>2, <2>3
<1>6. ASSUME NEW j \in Keys, Refuse(j) \/ CheckRoute(j)
      PROVE  /\ calls'[k] \in {"registering", "registered"} =>
                  ledger'.inputs[k] # None \/ routes'[RunOf[k]] # None
             /\ calls'[k] \in {"reserved", "sending", "sent"} => ledger'.inputs[k] # None
  <2>1. CASE Forget(j)
    BY <1>4, <2>1
  <2>2. CASE ~Forget(j) /\ j # k
    BY <1>0, <1>1, <1>6, <2>2 DEF Refuse, CheckRoute, routeV, Calls
  <2>3. CASE ~Forget(j) /\ j = k
    BY <1>0, <1>6, <2>3 DEF Refuse, CheckRoute, routeV, Calls, Reserving, Keeps
  <2> QED BY <2>1, <2>2, <2>3
<1>7. ASSUME NEW j \in Keys, Send(j) \/ Return(j)
      PROVE  /\ calls'[k] \in {"registering", "registered"} =>
                  ledger'.inputs[k] # None \/ routes'[RunOf[k]] # None
             /\ calls'[k] \in {"reserved", "sending", "sent"} => ledger'.inputs[k] # None
  <2>1. CASE j # k
    BY <1>0, <1>1, <1>7, <2>1 DEF Send, Return, routeV, Calls
  <2>2. CASE j = k
    BY <1>0, <1>7, <2>2 DEF Send, Return, routeV, Calls, Reserving, Keeps
  <2> QED BY <2>1, <2>2
<1>8. CASE Requester
  BY <1>3, <1>5, <1>6, <1>7, <1>8 DEF Requester
<1>9. CASE Inbox
  BY <1>1, <1>9 DEF Inbox, Emit, Capture, Apply, Receipt, routeV
<1>10. CASE Deliver
  <2>1. UNCHANGED calls
    BY <1>10 DEF Deliver, Pick, Inspect, ClaimSpeech, Show, Submit, FinishSpeech
  <2>2. CASE UNCHANGED routes
    BY <1>1, <2>1, <2>2
  <2>3. ASSUME NEW s \in ResultIds, Pick(s)
        PROVE  routes'[RunOf[k]] # None \/ routes[RunOf[k]] = None
    BY <1>0, <2>3 DEF Pick
  <2>4. CASE Show
    <3>1. RouteOfMember(worker.s, RunOf[k]) => routes[RunOf[k]] \in Route
      BY <1>0 DEF RouteOfMember, Matches
    <3>2. RouteOfMember(worker.s, RunOf[k]) => routes'[RunOf[k]] \in Route
      BY <1>0, <2>4, <3>1 DEF Show, Route
    <3>3. routes'[RunOf[k]] # None \/ routes[RunOf[k]] = None
      BY <1>0, <2>4, <3>2, RouteAssumption DEF Show
    <3> QED BY <1>0, <2>1, <3>3, ReservingQuiet
  <2>5. CASE FinishSpeech
    <3>1. worker.s \in ResultIds /\ ledger.results[worker.s] # None
      BY <2>5 DEF FinishSpeech, DeliveryInv, Working
    <3>2. RouteOfMember(worker.s, RunOf[k]) => ledger.inputs[k] # None
      <4> SUFFICES ASSUME NEW j \in MembersOf(worker.s), ledger.inputs[j].run = RunOf[k]
                   PROVE  ledger.inputs[k] # None
        BY DEF RouteOfMember
      <4>1. j \in Keys /\ ledger.inputs[j] # None
        BY <3>1, RecordOf DEF DeliveryInv, Whole
      <4> QED BY <1>0, <4>1 DEF Named, OneRunEach
    <3>3. ~RouteOfMember(worker.s, RunOf[k]) => routes'[RunOf[k]] = routes[RunOf[k]]
      BY <1>0, <2>5 DEF FinishSpeech, Close
    <3> QED BY <1>0, <2>1, <3>2, <3>3, ReservingQuiet
  <2> QED BY <1>0, <1>10, <2>1, <2>2, <2>3, <2>4, <2>5, ReservingQuiet
     DEF Deliver, Inspect, ClaimSpeech, Submit, routeV
<1>11. CASE World
  <2>1. CASE Restart
    BY <1>0, <1>2, <2>1 DEF Restart, Calls
  <2>2. CASE ~Restart
    BY <1>1, <1>11, <2>2 DEF World, ChangeListener, Expire, Age, routeV
  <2> QED BY <2>1, <2>2
<1> QED BY <1>1, <1>8, <1>9, <1>10, <1>11 DEF Next, vars, routeV

LEMMA WrittenFirstStep == DeliveryInv /\ WrittenInv /\ [Next]_vars => WrittenFirst'
<1> SUFFICES ASSUME DeliveryInv, WrittenInv, [Next]_vars PROVE WrittenFirst'
  OBVIOUS
<1>0. ledger \in Ledgers /\ Keeps(ledger, ledger') /\ received \subseteq Keys
        /\ captured \subseteq ResultIds
  BY LedgerStep DEF DeliveryInv, TypeOK
<1>1. \A k \in received : ledger'.inputs[k] # None
  BY <1>0 DEF WrittenInv, WrittenFirst, Keeps
<1>2. \A s \in captured : ledger'.staged[s] # None \/ ledger'.results[s] # None
  BY <1>0 DEF WrittenInv, WrittenFirst, Keeps
<1>3. ASSUME NEW k \in Keys, Send(k) PROVE WrittenFirst'
  <2>1. ledger'.inputs[k] # None
    BY <1>0, <1>3 DEF Send, WrittenInv, Reserving, Keeps
  <2> QED BY <1>1, <1>2, <1>3, <2>1 DEF Send, WrittenFirst
<1>4. ASSUME NEW s \in ResultIds, Capture(s) PROVE WrittenFirst'
  <2>1. captured' = captured \/ ledger'.staged[s] # None \/ ledger'.results[s] # None
    <3>1. CASE ledger' = Staged(ledger, s, Outcome[s])
      BY <1>0, <3>1, DispatchAssumption, NoneAssumption DEF Staged, Ledgers
    <3> QED BY <1>4, <3>1 DEF Capture, Captured
  <2>2. captured' \in {captured, captured \cup {s}} /\ received' = received
    BY <1>4 DEF Capture
  <2> QED BY <1>1, <1>2, <2>1, <2>2 DEF WrittenFirst
<1>5. CASE Restart
  BY <1>1, <1>5 DEF Restart, WrittenFirst
<1>6. CASE UNCHANGED <<received, captured>>
  BY <1>1, <1>2, <1>6 DEF WrittenFirst
<1>7. CASE Requester
  BY <1>3, <1>6, <1>7
     DEF Requester, Register, MarkRun, Refuse, ReserveInput, StorageFails, CheckRoute, Forget,
         Return, compV
<1>8. CASE Inbox
  BY <1>4, <1>6, <1>8 DEF Inbox, Emit, Apply, Receipt, compV
<1>9. CASE Deliver
  BY <1>6, <1>9 DEF Deliver, Pick, Inspect, ClaimSpeech, Show, Submit, FinishSpeech, compV
<1>10. CASE World
  BY <1>5, <1>6, <1>10 DEF World, ChangeListener, Expire, Age, compV
<1> QED BY <1>6, <1>7, <1>8, <1>9, <1>10 DEF Next, vars, compV

LEMMA WrittenInit == Init => WrittenInv
BY DEF Init, EmptyLedger, WrittenInv, Named, Routed, Reserving, WrittenFirst

(***************************************************************************)
(* What the computer has accepted for a tracked turn is in the ledger,     *)
(* while no two dispatches name the same run (BeforeRequest); and the      *)
(* inbox has a result before the replay cursor passes it.                  *)
(***************************************************************************)
THEOREM WrittenFirstAlways ==
  ASSUME OneRunEach
  PROVE  Spec => []WrittenFirst
<1>1. Init => WrittenInv
  BY WrittenInit
<1>2. DeliveryInv /\ WrittenInv /\ [Next]_vars => WrittenInv'
  BY NamedStep, RoutedStep, ReservingStep, WrittenFirstStep DEF WrittenInv
<1>3. WrittenInv => WrittenFirst
  BY DEF WrittenInv
<1> QED BY <1>1, <1>2, <1>3, DeliveryKept, PTL DEF Spec

=============================================================================
