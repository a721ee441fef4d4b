---------------------------- MODULE ResultLedger ----------------------------
(***************************************************************************)
(* The ledger that system/harness/result_store.go keeps in one JSON file:  *)
(* the inputs sent to a paired computer, the results that answer them, the *)
(* results staged until their receipts arrive, and the questions and       *)
(* answers exchanged on the way.  This module has no variables.  It says   *)
(* which update of a ledger each method of ResultStore admits and what     *)
(* ledger the update produces; ResultStore.tla adds the process, the disk  *)
(* and the crashes.                                                        *)
(*                                                                         *)
(* One (owner, serverInstanceId) pair is modelled: every map key and every *)
(* uniqueness scan of the code is scoped to that pair.  A maximal text is  *)
(* abstracted to the flag `long`, and the text of an input to its agent:   *)
(* both are only ever compared for equality with the earlier reservation.  *)
(***************************************************************************)
EXTENDS Naturals, FiniteSets

CONSTANTS
  Keys,         \* idempotency keys
  Runs,         \* local run ids
  Agents,       \* agents of the paired computer
  Destinations, \* local response addresses an input can carry
  Web,          \* the destination of a web chat; the others are voice
  Deliveries,   \* delivery ids assigned by the paired computer
  ResultIds,    \* result ids assigned by the paired computer
  Questions,    \* question ids assigned by the paired computer
  Frames,       \* the turn.summary frames that ParseSummaryResult accepts
  RecordLimit,  \* resultRecordLimit: the records each map may hold
  None          \* an absent record, an empty string

(***************************************************************************)
(* ParseSummaryResult: a frame names its agent, a nonempty set of distinct *)
(* input keys each with its own delivery, whether its text exceeds 2000    *)
(* runes, and possibly the local run of a single input (the alias).        *)
(***************************************************************************)
Members(f) == DOMAIN f.members

FrameOK(f) ==
  /\ f.agent \in Agents
  /\ Members(f) # {} /\ Members(f) \subseteq Keys
  /\ f.members \in [Members(f) -> Deliveries]
  /\ \A j, k \in Members(f) : f.members[j] = f.members[k] => j = k
  /\ f.long \in BOOLEAN
  /\ f.alias \in Runs \cup {None}
  /\ f.alias # None => \E k \in Keys : Members(f) = {k}

ASSUME FramesAssumption == \A f \in Frames : FrameOK(f)
ASSUME LimitAssumption == RecordLimit \in Nat
ASSUME WebAssumption == Web \in Destinations
SpeechStates == {"pending", "claimed", "accepted", "uncertain", "suppressed"}
SpeechDone   == {"accepted", "uncertain", "suppressed"}

(* rank of BindAnswerReceipt; None is the state before any receipt. *)
ReceiptStates == {"unknown", "queued", "delivered", "started", "completed", "rejected"}
Rank == [st \in ReceiptStates \cup {None} |->
           CASE st \in {None, "unknown"} -> 0
             [] st = "queued"          -> 1
             [] st = "delivered"       -> 2
             [] st = "started"         -> 3
             [] OTHER                  -> 4]

Input == [agent : Agents, run : Runs, dest : Destinations,
          delivery : Deliveries \cup {None}, result : ResultIds \cup {None}]
Record == [frame : Frames, speech : SpeechStates]
Answer == [agent : Agents, run : Runs, dest : Destinations, question : Questions,
           parent : Keys \cup {None}, delivery : Deliveries \cup {None},
           receipt : ReceiptStates \cup {None}]

Ledgers == [inputs    : [Keys -> Input \cup {None}],
            results   : [ResultIds -> Record \cup {None}],
            staged    : [ResultIds -> Frames \cup {None}],
            questions : [Agents \X Questions -> Keys \cup {None}],
            answers   : [Keys -> Answer \cup {None}]]

ASSUME NoneAssumption ==
  /\ None \notin Keys \cup Runs \cup Deliveries \cup ResultIds \cup Frames
  /\ None \notin Input \cup Record \cup Answer \cup ReceiptStates

EmptyLedger == [inputs    |-> [k \in Keys |-> None],
                results   |-> [s \in ResultIds |-> None],
                staged    |-> [s \in ResultIds |-> None],
                questions |-> [q \in Agents \X Questions |-> None],
                answers   |-> [k \in Keys |-> None]]

HasRoom(map) == Cardinality({x \in DOMAIN map : map[x] # None}) < RecordLimit

(***************************************************************************)
(* The uniqueness scans shared by the methods.                             *)
(***************************************************************************)
RunFree(d, run) ==
  /\ \A k \in Keys : d.inputs[k] # None => d.inputs[k].run # run
  /\ \A k \in Keys : d.answers[k] # None => d.answers[k].run # run

DeliveryFree(d, dl, others) ==
  /\ \A j \in Keys : d.inputs[j] # None => d.inputs[j].delivery # dl
  /\ \A j \in others : d.answers[j] # None => d.answers[j].delivery # dl

(***************************************************************************)
(* Reserve.  A retry must equal the stored reservation except for the      *)
(* delivery and result it has gathered since.                              *)
(***************************************************************************)
ReserveFresh(d, k, a, run) ==
  /\ d.inputs[k] = None
  /\ d.answers[k] = None
  /\ RunFree(d, run)
  /\ HasRoom(d.inputs)

Reserved(d, k, a, run, dest) ==
  [d EXCEPT !.inputs[k] = [agent |-> a, run |-> run, dest |-> dest,
                           delivery |-> None, result |-> None]]

(* BindReceipt: a receipt gives an input its delivery id, once. *)
ReceiptFresh(d, a, k, dl) ==
  /\ d.inputs[k] # None
  /\ d.inputs[k].agent = a
  /\ d.inputs[k].delivery = None
  /\ DeliveryFree(d, dl, Keys)

(* Mutant: the receipt's key is stored where its delivery id belongs. *)
ReceiptBoundSwapped(d, k, dl) == [d EXCEPT !.inputs[k].delivery = k]

ReceiptBound(d, k, dl) == [d EXCEPT !.inputs[k].delivery = dl]

(***************************************************************************)
(* Stage keeps a frame before the replay cursor passes it.  The identity   *)
(* of a result is its payload and agent; the alias is not part of it.      *)
(***************************************************************************)
SameContent(f, g) == f.agent = g.agent /\ f.members = g.members /\ f.long = g.long

AliasAgrees(d, f) ==
  \A k \in Members(f) :
    (f.alias # None /\ d.inputs[k] # None) => d.inputs[k].run = f.alias

StageFresh(d, s, f) ==
  /\ AliasAgrees(d, f)
  /\ d.results[s] = None /\ d.staged[s] = None
  /\ HasRoom(d.staged)

Staged(d, s, f) == [d EXCEPT !.staged[s] = f]

(***************************************************************************)
(* Apply resolves every member of a frame at once, or none.  `late` is the *)
(* set of keys whose ExpiresAt has passed.                                 *)
(***************************************************************************)
MemberReady(d, f, k) ==
  /\ d.inputs[k] # None
  /\ d.inputs[k].agent = f.agent
  /\ d.inputs[k].delivery = f.members[k]
  /\ d.inputs[k].result = None

(* Mutant: a member is matched by key and agent, not by delivery. *)
ApplyFreshByKey(d, s, f) ==
  /\ d.results[s] = None
  /\ HasRoom(d.results)
  /\ \A k \in Members(f) : d.inputs[k] # None /\ d.inputs[k].agent = f.agent
                                               /\ d.inputs[k].result = None
  /\ AliasAgrees(d, f)

ApplyFresh(d, s, f) ==
  /\ d.results[s] = None
  /\ HasRoom(d.results)
  /\ \A k \in Members(f) : MemberReady(d, f, k)
  /\ AliasAgrees(d, f)

(* One voice destination shared by all the members, none of them late. *)
Speakable(d, f, late) ==
  /\ ~f.long
  /\ Members(f) \cap late = {}
  /\ \A j, k \in Members(f) :
       d.inputs[j].dest # Web /\ d.inputs[j].dest = d.inputs[k].dest

Applied(d, s, f, late) ==
  [d EXCEPT
     !.results[s] = [frame |-> f,
                     speech |-> IF Speakable(d, f, late) THEN "pending" ELSE "suppressed"],
     !.staged[s]  = None,
     !.inputs     = [k \in Keys |-> IF k \in Members(f)
                                    THEN [d.inputs[k] EXCEPT !.result = s]
                                    ELSE d.inputs[k]]]

(* Claim moves a pending result to claimed, or to suppressed when late. *)
ClaimFresh(d, s) == d.results[s] # None /\ d.results[s].speech = "pending"

ClaimGrants(d, s, late) == Members(d.results[s].frame) \cap late = {}

Claimed(d, s, late) ==
  [d EXCEPT !.results[s].speech = IF ClaimGrants(d, s, late) THEN "claimed" ELSE "suppressed"]

FinishFresh(d, s) == d.results[s] # None /\ d.results[s].speech = "claimed"

Finished(d, s, st) == [d EXCEPT !.results[s].speech = st]

(***************************************************************************)
(* BindQuestion ties a question to the one task it interrupts.             *)
(***************************************************************************)
ParentOpen(d, a, k) ==
  d.inputs[k] # None /\ d.inputs[k].agent = a /\ d.inputs[k].result = None

QuestionFresh(d, a, q, k) ==
  /\ ParentOpen(d, a, k)
  /\ d.questions[<<a, q>>] = None
  /\ HasRoom(d.questions)

QuestionBound(d, a, q, k) == [d EXCEPT !.questions[<<a, q>>] = k]

(***************************************************************************)
(* reserveAnswer.  ReserveAnswer links the answer to the unresolved task   *)
(* its question interrupts.  ReserveUnlinkedAnswer records one without a   *)
(* task, and only while that question id is unknown under every agent; in  *)
(* both cases the parent is what the question map says.                    *)
(***************************************************************************)
QuestionUnheard(d, q) == \A a \in Agents : d.questions[<<a, q>>] = None

(* Mutant: the scan for a reused run is left to Reserve. *)
AnswerFreshAnyRun(d, k, a, run, q) ==
  /\ d.answers[k] = None
  /\ d.inputs[k] = None
  /\ IF d.questions[<<a, q>>] = None
     THEN QuestionUnheard(d, q)
     ELSE ParentOpen(d, a, d.questions[<<a, q>>])
  /\ HasRoom(d.answers)

AnswerFresh(d, k, a, run, q) ==
  /\ d.answers[k] = None
  /\ d.inputs[k] = None
  /\ IF d.questions[<<a, q>>] = None
     THEN QuestionUnheard(d, q)
     ELSE ParentOpen(d, a, d.questions[<<a, q>>])
  /\ RunFree(d, run)
  /\ HasRoom(d.answers)

Answered(d, k, a, run, dest, q) ==
  [d EXCEPT !.answers[k] =
     [agent |-> a, run |-> run, dest |-> dest, question |-> q,
      parent |-> d.questions[<<a, q>>], delivery |-> None, receipt |-> None]]

(* Mutant: a late receipt overwrites a newer one. *)
AnswerReceiptFreshAnyOrder(d, a, k, dl, st) ==
  /\ d.answers[k] # None
  /\ d.answers[k].agent = a
  /\ d.answers[k].delivery \in {None, dl}
  /\ DeliveryFree(d, dl, Keys \ {k})
  /\ d.answers[k].receipt # st

(* BindAnswerReceipt: the receipt state only moves up its rank. *)
AnswerReceiptFresh(d, a, k, dl, st) ==
  /\ d.answers[k] # None
  /\ d.answers[k].agent = a
  /\ d.answers[k].delivery \in {None, dl}
  /\ DeliveryFree(d, dl, Keys \ {k})
  /\ ~(Rank[d.answers[k].receipt] = 4 /\ Rank[st] = 4 /\ d.answers[k].receipt # st)
  /\ \/ d.answers[k].delivery = None
     \/ d.answers[k].receipt = None
     \/ Rank[d.answers[k].receipt] < Rank[st]

AnswerReceiptBound(d, k, dl, st) ==
  [d EXCEPT !.answers[k].delivery = dl, !.answers[k].receipt = st]

(* Mutant: recovery puts a lost claim back in the queue. *)
RecoveredForRetry(d) ==
  [d EXCEPT !.results = [s \in ResultIds |->
     IF d.results[s] # None /\ d.results[s].speech = "claimed"
     THEN [d.results[s] EXCEPT !.speech = "pending"]
     ELSE d.results[s]]]

(* OpenResultStore: a claim whose outcome was lost is uncertain for good. *)
Recovered(d) ==
  [d EXCEPT !.results = [s \in ResultIds |->
     IF d.results[s] # None /\ d.results[s].speech = "claimed"
     THEN [d.results[s] EXCEPT !.speech = "uncertain"]
     ELSE d.results[s]]]

=============================================================================
