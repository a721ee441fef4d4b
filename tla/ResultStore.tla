----------------------------- MODULE ResultStore -----------------------------
(***************************************************************************)
(* ResultStore of system/harness/result_store.go: a ledger in memory, its  *)
(* copy on disk, and the methods that update both under one mutex.  Every  *)
(* update is computed on a clone, written to disk, and only then installed *)
(* in memory.  A write can fail before the rename, leaving both copies as  *)
(* they were, or after it (opening or syncing the directory), leaving the  *)
(* new ledger on disk and the old one in memory.  The process can stop at  *)
(* any point and reopen the file.                                          *)
(*                                                                         *)
(* `granted` counts, over the whole history, how often Claim handed out    *)
(* permission to speak a result; nothing in the code reads it.             *)
(***************************************************************************)
EXTENDS ResultLedger

VARIABLES
  mem,      \* the ledger in memory (ResultStore.data)
  disk,     \* the ledger in the file
  open,     \* the process runs and OpenResultStore succeeded
  late,     \* the keys whose ExpiresAt has passed
  granted   \* how often speech of a result was granted

storeVars == <<mem, disk, open, late, granted>>

Init ==
  /\ mem = EmptyLedger
  /\ disk = EmptyLedger
  /\ open = TRUE
  /\ late = {}
  /\ granted = [s \in ResultIds |-> 0]

(* commit: save, then install. *)
Commit(d) ==
  /\ disk' = d
  /\ mem' = d

(* Mutant: memory is installed before the file is safe. *)
CommitFailsLate(d) ==
  /\ disk' \in {disk, d}
  /\ mem' = d

CommitFails(d) ==
  /\ disk' \in {disk, d}
  /\ mem' = mem

Write(d) ==
  /\ Commit(d) \/ CommitFails(d)
  /\ UNCHANGED <<open, late, granted>>

-----------------------------------------------------------------------------

Reserve(k, a, run, dest) ==
  /\ open
  /\ ReserveFresh(mem, k, a, run)
  /\ Write(Reserved(mem, k, a, run, dest))

BindReceipt(k, a, dl) ==
  /\ open
  /\ ReceiptFresh(mem, a, k, dl)
  /\ Write(ReceiptBound(mem, k, dl))

Stage(s, f) ==
  /\ open
  /\ StageFresh(mem, s, f)
  /\ Write(Staged(mem, s, f))

(* processHarnessResults applies the frames it finds staged. *)
Apply(s) ==
  /\ open
  /\ mem.staged[s] # None
  /\ ApplyFresh(mem, s, mem.staged[s])
  /\ Write(Applied(mem, s, mem.staged[s], late))

(* The caller learns of the grant only after the claim is on disk. *)
Claim(s) ==
  /\ open
  /\ ClaimFresh(mem, s)
  /\ LET d == Claimed(mem, s, late) IN
       \/ /\ Commit(d)
          /\ granted' = [granted EXCEPT ![s] = IF ClaimGrants(mem, s, late) THEN @ + 1 ELSE @]
       \/ CommitFails(d) /\ UNCHANGED granted
  /\ UNCHANGED <<open, late>>

Finish(s, st) ==
  /\ open
  /\ FinishFresh(mem, s)
  /\ Write(Finished(mem, s, st))

BindQuestion(a, q, k) ==
  /\ open
  /\ QuestionFresh(mem, a, q, k)
  /\ Write(QuestionBound(mem, a, q, k))

(* ReserveAnswer and ReserveUnlinkedAnswer. *)
ReserveAnswer(k, a, run, dest, q) ==
  /\ open
  /\ AnswerFresh(mem, k, a, run, q)
  /\ Write(Answered(mem, k, a, run, dest, q))

BindAnswerReceipt(k, a, dl, st) ==
  /\ open
  /\ AnswerReceiptFresh(mem, a, k, dl, st)
  /\ Write(AnswerReceiptBound(mem, k, dl, st))

-----------------------------------------------------------------------------

(* Deadlines pass; no code path moves one later. *)
Expire(k) ==
  /\ k \notin late
  /\ late' = late \cup {k}
  /\ UNCHANGED <<mem, disk, open, granted>>

Crash ==
  /\ open
  /\ open' = FALSE
  /\ UNCHANGED <<mem, disk, late, granted>>

(* OpenResultStore.  Recovery saves only when it changed a claim; when that *)
(* save fails the store stays closed, whether or not the rename happened.   *)
Open ==
  /\ ~open
  /\ LET d == Recovered(disk) IN
       \/ mem' = d /\ disk' = d /\ open' = TRUE
       \/ d # disk /\ CommitFails(d) /\ open' = FALSE
  /\ UNCHANGED <<late, granted>>

StoreStep ==
  \/ \E k \in Keys, a \in Agents, run \in Runs, dest \in Destinations :
       Reserve(k, a, run, dest)
  \/ \E k \in Keys, a \in Agents, dl \in Deliveries : BindReceipt(k, a, dl)
  \/ \E s \in ResultIds, f \in Frames : Stage(s, f)
  \/ \E s \in ResultIds : Apply(s)
  \/ \E s \in ResultIds : Claim(s)
  \/ \E s \in ResultIds, st \in SpeechDone : Finish(s, st)

AnswerStep ==
  \/ \E a \in Agents, q \in Questions, k \in Keys : BindQuestion(a, q, k)
  \/ \E k \in Keys, a \in Agents, run \in Runs, dest \in Destinations,
        q \in Questions :
       ReserveAnswer(k, a, run, dest, q)
  \/ \E k \in Keys, a \in Agents, dl \in Deliveries, st \in ReceiptStates :
       BindAnswerReceipt(k, a, dl, st)

Next ==
  \/ StoreStep
  \/ AnswerStep
  \/ \E k \in Keys : Expire(k)
  \/ Crash
  \/ Open

Spec == Init /\ [][Next]_storeVars

-----------------------------------------------------------------------------

(* Every variable has its type. *)
TypeOK ==
  /\ mem \in Ledgers
  /\ disk \in Ledgers
  /\ open \in BOOLEAN
  /\ late \in SUBSET Keys
  /\ granted \in [ResultIds -> Nat]

(***************************************************************************)
(* Identity.  A local run or a delivery id belongs to at most one command, *)
(* task or answer; a receipt or a frame can then never be credited twice.  *)
(***************************************************************************)
RunsUnique(d) ==
  /\ \A j, k \in Keys : (d.inputs[j] # None /\ d.inputs[k] # None
                         /\ d.inputs[j].run = d.inputs[k].run) => j = k
  /\ \A j, k \in Keys : (d.answers[j] # None /\ d.answers[k] # None
                         /\ d.answers[j].run = d.answers[k].run) => j = k
  /\ \A j, k \in Keys : (d.inputs[j] # None /\ d.answers[k] # None)
                          => j # k /\ d.inputs[j].run # d.answers[k].run

DeliveriesUnique(d) ==
  /\ \A j, k \in Keys : (d.inputs[j] # None /\ d.inputs[k] # None
                         /\ d.inputs[j].delivery = d.inputs[k].delivery
                         /\ d.inputs[j].delivery # None) => j = k
  /\ \A j, k \in Keys : (d.answers[j] # None /\ d.answers[k] # None
                         /\ d.answers[j].delivery = d.answers[k].delivery
                         /\ d.answers[j].delivery # None) => j = k
  /\ \A j, k \in Keys : (d.inputs[j] # None /\ d.answers[k] # None
                         /\ d.inputs[j].delivery = d.answers[k].delivery)
                          => d.inputs[j].delivery = None

(***************************************************************************)
(* Completion.  An input names a result exactly when that result is stored *)
(* and counts it as a member, under the delivery the receipt bound; so a   *)
(* group resolves all of its members or none, and no input twice.          *)
(***************************************************************************)
ResolvedBy(d, s) == {k \in Keys : d.inputs[k] # None /\ d.inputs[k].result = s}

CompletedWhole(d, s) ==
  LET f == d.results[s].frame IN
  /\ d.staged[s] = None
  /\ ResolvedBy(d, s) = Members(f)
  /\ \A k \in Members(f) :
       d.inputs[k].agent = f.agent /\ d.inputs[k].delivery = f.members[k]

CompletionAtomic(d) ==
  \A s \in ResultIds :
    IF d.results[s] = None THEN ResolvedBy(d, s) = {} ELSE CompletedWhole(d, s)

(***************************************************************************)
(* Questions.  A question belongs to one stored task of its own agent, and *)
(* a linked answer to the task its question belongs to.                    *)
(***************************************************************************)
QuestionsLinked(d) ==
  /\ \A a \in Agents, q \in Questions :
       LET k == d.questions[<<a, q>>] IN
       k # None => d.inputs[k] # None /\ d.inputs[k].agent = a
  /\ \A k \in Keys : (d.answers[k] # None /\ d.answers[k].parent # None) =>
       d.questions[<<d.answers[k].agent, d.answers[k].question>>] = d.answers[k].parent

(* Only a voice result whose members share one destination is ever spoken. *)
SpeechHasOneListener(d) ==
  \A s \in ResultIds :
    (d.results[s] # None /\ d.results[s].speech \in {"pending", "claimed", "accepted"}) =>
      /\ ~d.results[s].frame.long
      /\ \A j, k \in Members(d.results[s].frame) :
           /\ d.inputs[j] # None /\ d.inputs[k] # None
           /\ d.inputs[j].dest # Web
           /\ d.inputs[j].dest = d.inputs[k].dest

(* An answer has a receipt state exactly when a receipt named its delivery. *)
AnswersReceipted(d) ==
  \A k \in Keys : d.answers[k] # None =>
    (d.answers[k].delivery = None <=> d.answers[k].receipt = None)

Consistent(d) ==
  /\ RunsUnique(d)
  /\ DeliveriesUnique(d)
  /\ CompletionAtomic(d)
  /\ QuestionsLinked(d)
  /\ SpeechHasOneListener(d)
  /\ AnswersReceipted(d)

(* Both copies of the ledger are consistent, whatever write has failed. *)
LedgerConsistent == Consistent(mem) /\ Consistent(disk)

(***************************************************************************)
(* The speech outbox.  Permission to speak a result is granted at most     *)
(* once in the life of the ledger, restarts and failed writes included;    *)
(* and once granted the file already says so.                              *)
(***************************************************************************)
SpeechGrantedOnce ==
  \A s \in ResultIds :
    /\ granted[s] <= 1
    /\ granted[s] = 1 => disk.results[s] # None /\ disk.results[s].speech # "pending"

(***************************************************************************)
(* What a ledger records is never taken back: the later one keeps every    *)
(* reservation, delivery, resolution, result, question and answer of the   *)
(* earlier one, and speech and receipt states only move forward.           *)
(***************************************************************************)
Grows(old, new) == old = None \/ new = old

SpeechForward(old, new) ==
  \/ new = old
  \/ old = "pending"
  \/ old = "claimed" /\ new \in SpeechDone

ReceiptForward(old, new) ==
  new = old \/ old = None \/ Rank[old] < Rank[new]

Extends(new, old) ==
  /\ \A k \in Keys : old.inputs[k] # None =>
       /\ new.inputs[k] # None
       /\ new.inputs[k].agent = old.inputs[k].agent
       /\ new.inputs[k].run = old.inputs[k].run
       /\ new.inputs[k].dest = old.inputs[k].dest
       /\ Grows(old.inputs[k].delivery, new.inputs[k].delivery)
       /\ Grows(old.inputs[k].result, new.inputs[k].result)
  /\ \A s \in ResultIds : old.results[s] # None =>
       /\ new.results[s] # None
       /\ new.results[s].frame = old.results[s].frame
       /\ SpeechForward(old.results[s].speech, new.results[s].speech)
  /\ \A q \in Agents \X Questions : Grows(old.questions[q], new.questions[q])
  /\ \A k \in Keys : old.answers[k] # None =>
       /\ new.answers[k] # None
       /\ new.answers[k].run = old.answers[k].run
       /\ new.answers[k].question = old.answers[k].question
       /\ new.answers[k].parent = old.answers[k].parent
       /\ Grows(old.answers[k].delivery, new.answers[k].delivery)
       /\ ReceiptForward(old.answers[k].receipt, new.answers[k].receipt)

(***************************************************************************)
(* The ledger the process acts on never regresses, not even when a failed  *)
(* write has left the file ahead of memory and the process then restarts.  *)
(***************************************************************************)
NeverRegresses == [][Extends(mem', mem)]_mem

(***************************************************************************)
(* The store implements ResultOutbox.  The ledger that counts is the one   *)
(* in memory while the process runs and the file while it does not: a      *)
(* crash makes a write whose failure came after its rename take effect.    *)
(***************************************************************************)
Current == IF open THEN mem ELSE disk

SpeechStage(d, s) ==
  IF d.results[s] = None THEN "none"
  ELSE CASE d.results[s].speech = "pending" -> "queued"
         [] d.results[s].speech = "claimed" -> "granted"
         [] OTHER -> "settled"

TrackedIn(d) == {k \in Keys : d.inputs[k] # None}
AnswerIn(d)  == [k \in Keys |-> IF d.inputs[k] = None THEN None ELSE d.inputs[k].result]
SpeechIn(d)  == [s \in ResultIds |-> SpeechStage(d, s)]

Outbox == INSTANCE ResultOutbox WITH
  tracked <- TrackedIn(Current), answer <- AnswerIn(Current), speech <- SpeechIn(Current)

(* Every step of the store is a step of the outbox or none at all.         *)
ImplementsOutbox == Outbox!Spec

=============================================================================
