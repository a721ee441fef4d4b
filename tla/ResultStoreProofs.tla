-------------------------- MODULE ResultStoreProofs --------------------------
(***************************************************************************)
(* Proofs about ResultStore for every value of its constants.              *)
(*                                                                         *)
(* Every method computes its new ledger from mem, and a write leaves each  *)
(* of mem and disk either as it was or equal to that ledger.  What a       *)
(* method's ledger operator preserves is therefore preserved by both       *)
(* copies, and each invariant is proved operator by operator.              *)
(***************************************************************************)
EXTENDS ResultStore, ResultLedgerProofs

-----------------------------------------------------------------------------

(***************************************************************************)
(* The shape of a step.  Method(d, e) says that some method of the store,  *)
(* acting on ledger d, computes ledger e.                                  *)
(***************************************************************************)
Method(d, e) ==
  \/ \E k \in Keys, a \in Agents, run \in Runs, dest \in Destinations :
       ReserveFresh(d, k, a, run) /\ e = Reserved(d, k, a, run, dest)
  \/ \E k \in Keys, a \in Agents, dl \in Deliveries :
       ReceiptFresh(d, a, k, dl) /\ e = ReceiptBound(d, k, dl)
  \/ \E s \in ResultIds, f \in Frames :
       StageFresh(d, s, f) /\ e = Staged(d, s, f)
  \/ \E s \in ResultIds :
       d.staged[s] # None /\ ApplyFresh(d, s, d.staged[s])
                         /\ e = Applied(d, s, d.staged[s], late)
  \/ \E s \in ResultIds : ClaimFresh(d, s) /\ e = Claimed(d, s, late)
  \/ \E s \in ResultIds, st \in SpeechDone : FinishFresh(d, s) /\ e = Finished(d, s, st)
  \/ \E a \in Agents, q \in Questions, k \in Keys :
       QuestionFresh(d, a, q, k) /\ e = QuestionBound(d, a, q, k)
  \/ \E k \in Keys, a \in Agents, run \in Runs, dest \in Destinations,
        q \in Questions :
       AnswerFresh(d, k, a, run, q)
         /\ e = Answered(d, k, a, run, dest, q)
  \/ \E k \in Keys, a \in Agents, dl \in Deliveries, st \in ReceiptStates :
       AnswerReceiptFresh(d, a, k, dl, st) /\ e = AnswerReceiptBound(d, k, dl, st)

(* A write installs a method's ledger in both copies, or in the file only, *)
(* or nowhere.                                                             *)
Written(d) ==
  \/ mem' = d /\ disk' = d
  \/ mem' = mem /\ disk' \in {disk, d}

(* Every step writes the ledger of a method, or reopens the file and       *)
(* recovers it, or leaves both copies alone.                               *)
LEMMA StepShape ==
  ASSUME [Next]_storeVars
  PROVE  \/ \E e : Method(mem, e) /\ Written(e)
         \/ Written(Recovered(disk))
         \/ UNCHANGED <<mem, disk>>
<1>1. CASE StoreStep
  BY <1>1 DEF StoreStep, Reserve, BindReceipt, Stage, Apply, Claim, Finish,
              Write, Commit, CommitFails, Method, Written
<1>2. CASE AnswerStep
  BY <1>2 DEF AnswerStep, BindQuestion, ReserveAnswer, BindAnswerReceipt,
              Write, Commit, CommitFails, Method, Written
<1>3. CASE \E k \in Keys : Expire(k)
  BY <1>3 DEF Expire
<1>4. CASE Crash
  BY <1>4 DEF Crash
<1>5. CASE Open
  BY <1>5 DEF Open, CommitFails, Written
<1>6. CASE UNCHANGED storeVars
  BY <1>6 DEF storeVars
<1> QED BY <1>1, <1>2, <1>3, <1>4, <1>5, <1>6 DEF Next

LEMMA MethodTyped ==
  ASSUME NEW d \in Ledgers, NEW e, Method(d, e)
  PROVE  e \in Ledgers
<1>1. ASSUME NEW k \in Keys, NEW a \in Agents, NEW run \in Runs, NEW dest \in Destinations,
             e = Reserved(d, k, a, run, dest)
      PROVE  e \in Ledgers
  BY <1>1, ReservedTyped
<1>2. ASSUME NEW k \in Keys, NEW a \in Agents, NEW dl \in Deliveries,
             ReceiptFresh(d, a, k, dl), e = ReceiptBound(d, k, dl)
      PROVE  e \in Ledgers
  BY <1>2, ReceiptBoundTyped DEF ReceiptFresh
<1>3. ASSUME NEW s \in ResultIds, NEW f \in Frames, e = Staged(d, s, f)
      PROVE  e \in Ledgers
  BY <1>3, StagedTyped
<1>4. ASSUME NEW s \in ResultIds, d.staged[s] # None, ApplyFresh(d, s, d.staged[s]),
             e = Applied(d, s, d.staged[s], late)
      PROVE  e \in Ledgers
  <2>1. d.staged[s] \in Frames BY <1>4 DEF Ledgers
  <2> QED BY <1>4, <2>1, AppliedTyped
<1>5. ASSUME NEW s \in ResultIds, ClaimFresh(d, s), e = Claimed(d, s, late)
      PROVE  e \in Ledgers
  BY <1>5, ClaimedTyped
<1>6. ASSUME NEW s \in ResultIds, NEW st \in SpeechDone, FinishFresh(d, s),
             e = Finished(d, s, st)
      PROVE  e \in Ledgers
  BY <1>6, FinishedTyped
<1>7. ASSUME NEW a \in Agents, NEW q \in Questions, NEW k \in Keys,
             e = QuestionBound(d, a, q, k)
      PROVE  e \in Ledgers
  BY <1>7, QuestionBoundTyped
<1>8. ASSUME NEW k \in Keys, NEW a \in Agents, NEW run \in Runs, NEW dest \in Destinations,
             NEW q \in Questions,
             e = Answered(d, k, a, run, dest, q)
      PROVE  e \in Ledgers
  BY <1>8, AnsweredTyped
<1>9. ASSUME NEW k \in Keys, NEW a \in Agents, NEW dl \in Deliveries,
             NEW st \in ReceiptStates,
             AnswerReceiptFresh(d, a, k, dl, st), e = AnswerReceiptBound(d, k, dl, st)
      PROVE  e \in Ledgers
  BY <1>9, AnswerReceiptBoundTyped DEF AnswerReceiptFresh
<1> QED BY <1>1, <1>2, <1>3, <1>4, <1>5, <1>6, <1>7, <1>8, <1>9 DEF Method

(* Type correctness: the first part of what every later proof assumes.     *)
THEOREM TypeCorrect == Spec => []TypeOK
<1>1. Init => TypeOK
  BY EmptyIsLedger DEF Init, TypeOK
<1>2. TypeOK /\ [Next]_storeVars => TypeOK'
  <2> SUFFICES ASSUME TypeOK, [Next]_storeVars PROVE TypeOK'
    OBVIOUS
  <2>1. mem' \in Ledgers /\ disk' \in Ledgers
    BY StepShape, MethodTyped, RecoveredTyped DEF TypeOK, Written
  <2>2. open' \in BOOLEAN /\ late' \in SUBSET Keys /\ granted' \in [ResultIds -> Nat]
    <3>1. CASE StoreStep
      BY <3>1 DEF StoreStep, Reserve, BindReceipt, Stage, Apply, Claim, Finish, Write, TypeOK
    <3>2. CASE AnswerStep
      BY <3>2 DEF AnswerStep, BindQuestion, ReserveAnswer, BindAnswerReceipt, Write, TypeOK
    <3>3. CASE \E k \in Keys : Expire(k)
      BY <3>3 DEF Expire, TypeOK
    <3>4. CASE Crash \/ Open \/ UNCHANGED storeVars
      BY <3>4 DEF Crash, Open, storeVars, TypeOK
    <3> QED BY <3>1, <3>2, <3>3, <3>4 DEF Next
  <2> QED BY <2>1, <2>2 DEF TypeOK
<1> QED BY <1>1, <1>2, PTL DEF Spec

-----------------------------------------------------------------------------

(***************************************************************************)
(* What each operator changes, component by component.                     *)
(***************************************************************************)
LEMMA ReservedShape ==
  ASSUME NEW d \in Ledgers, NEW k \in Keys, NEW a \in Agents, NEW run \in Runs,
         NEW dest \in Destinations, NEW e, e = Reserved(d, k, a, run, dest)
  PROVE  /\ e.results = d.results /\ e.staged = d.staged
         /\ e.questions = d.questions /\ e.answers = d.answers
         /\ \A j \in Keys \ {k} : e.inputs[j] = d.inputs[j]
         /\ e.inputs[k] # None
         /\ e.inputs[k].agent = a /\ e.inputs[k].run = run
         /\ e.inputs[k].delivery = None /\ e.inputs[k].result = None
<1>1. e.inputs[k] = [agent |-> a, run |-> run, dest |-> dest,
                     delivery |-> None, result |-> None]
  BY DEF Reserved, Ledgers
<1>2. e.inputs[k] \in Input
  BY <1>1 DEF Input
<1> QED BY <1>1, <1>2, NoneAssumption DEF Reserved, Ledgers

LEMMA ReceiptBoundShape ==
  ASSUME NEW d \in Ledgers, NEW k \in Keys, NEW dl \in Deliveries, d.inputs[k] # None,
         NEW e, e = ReceiptBound(d, k, dl)
  PROVE  /\ e.results = d.results /\ e.staged = d.staged
         /\ e.questions = d.questions /\ e.answers = d.answers
         /\ \A j \in Keys \ {k} : e.inputs[j] = d.inputs[j]
         /\ e.inputs[k] # None
         /\ e.inputs[k].agent = d.inputs[k].agent
         /\ e.inputs[k].run = d.inputs[k].run
         /\ e.inputs[k].dest = d.inputs[k].dest
         /\ e.inputs[k].delivery = dl
         /\ e.inputs[k].result = d.inputs[k].result
<1>1. d.inputs[k] \in Input
  BY DEF Ledgers
<1>2. e.inputs[k] = [d.inputs[k] EXCEPT !.delivery = dl]
  BY DEF ReceiptBound, Ledgers
<1>3. e.inputs[k] \in Input
  BY <1>1, <1>2 DEF Input
<1>4. e.inputs[k] # None
  BY <1>3, NoneAssumption
<1>5. /\ e.results = d.results /\ e.staged = d.staged
      /\ e.questions = d.questions /\ e.answers = d.answers
      /\ \A j \in Keys \ {k} : e.inputs[j] = d.inputs[j]
  BY DEF ReceiptBound, Ledgers
<1> QED BY <1>1, <1>2, <1>4, <1>5 DEF Input

LEMMA StagedShape ==
  ASSUME NEW d \in Ledgers, NEW s \in ResultIds, NEW f \in Frames,
         NEW e, e = Staged(d, s, f)
  PROVE  /\ e.inputs = d.inputs /\ e.results = d.results
         /\ e.questions = d.questions /\ e.answers = d.answers
         /\ \A t \in ResultIds \ {s} : e.staged[t] = d.staged[t]
BY DEF Staged, Ledgers

LEMMA MembersAreKeys == \A f \in Frames : Members(f) \subseteq Keys
BY FramesAssumption DEF FrameOK

LEMMA AppliedShape ==
  ASSUME NEW d \in Ledgers, NEW s \in ResultIds, NEW f \in Frames, NEW l,
         ApplyFresh(d, s, f), NEW e, e = Applied(d, s, f, l)
  PROVE  /\ e.questions = d.questions /\ e.answers = d.answers
         /\ \A t \in ResultIds \ {s} : e.results[t] = d.results[t] /\ e.staged[t] = d.staged[t]
         /\ e.staged[s] = None
         /\ e.results[s] # None
         /\ e.results[s].frame = f
         /\ e.results[s].speech = IF Speakable(d, f, l) THEN "pending" ELSE "suppressed"
         /\ \A j \in Keys \ Members(f) : e.inputs[j] = d.inputs[j]
         /\ \A j \in Members(f) :
              /\ j \in Keys /\ d.inputs[j] # None /\ e.inputs[j] # None
              /\ e.inputs[j].agent = d.inputs[j].agent
              /\ e.inputs[j].run = d.inputs[j].run
              /\ e.inputs[j].dest = d.inputs[j].dest
              /\ e.inputs[j].delivery = d.inputs[j].delivery
              /\ e.inputs[j].result = s
<1>1. /\ e.questions = d.questions /\ e.answers = d.answers
      /\ \A t \in ResultIds \ {s} : e.results[t] = d.results[t] /\ e.staged[t] = d.staged[t]
      /\ e.staged[s] = None
      /\ e.inputs = [k \in Keys |-> IF k \in Members(f)
                                    THEN [d.inputs[k] EXCEPT !.result = s] ELSE d.inputs[k]]
      /\ e.results[s] = [frame |-> f,
                         speech |-> IF Speakable(d, f, l) THEN "pending" ELSE "suppressed"]
  BY DEF Applied, Ledgers
<1>2. e.results[s] \in Record
  BY <1>1 DEF Record, SpeechStates
<1>3. ASSUME NEW j \in Members(f)
      PROVE  /\ j \in Keys /\ d.inputs[j] # None /\ e.inputs[j] # None
             /\ e.inputs[j].agent = d.inputs[j].agent
             /\ e.inputs[j].run = d.inputs[j].run
             /\ e.inputs[j].dest = d.inputs[j].dest
             /\ e.inputs[j].delivery = d.inputs[j].delivery
             /\ e.inputs[j].result = s
  <2>1. j \in Keys /\ d.inputs[j] # None
    BY MembersAreKeys DEF ApplyFresh, MemberReady
  <2>2. d.inputs[j] \in Input
    BY <2>1 DEF Ledgers
  <2>3. e.inputs[j] = [d.inputs[j] EXCEPT !.result = s]
    BY <1>1, <2>1
  <2>4. e.inputs[j] \in Input
    BY <2>2, <2>3 DEF Input
  <2> QED BY <2>1, <2>2, <2>3, <2>4, NoneAssumption DEF Input
<1> QED BY <1>1, <1>2, <1>3, NoneAssumption

(* Claim, Finish and recovery touch the speech of results and nothing else. *)
SameFrames(d, e) ==
  \A s \in ResultIds :
    /\ d.results[s] = None <=> e.results[s] = None
    /\ d.results[s] # None => e.results[s].frame = d.results[s].frame

OnlySpeech(d, e) ==
  /\ e.inputs = d.inputs /\ e.staged = d.staged
  /\ e.questions = d.questions /\ e.answers = d.answers
  /\ SameFrames(d, e)

LEMMA ClaimedShape ==
  ASSUME NEW d \in Ledgers, NEW s \in ResultIds, NEW l, ClaimFresh(d, s),
         NEW e, e = Claimed(d, s, l)
  PROVE  /\ OnlySpeech(d, e)
         /\ \A t \in ResultIds \ {s} : e.results[t] = d.results[t]
         /\ e.results[s].speech = IF ClaimGrants(d, s, l) THEN "claimed" ELSE "suppressed"
<1>1. /\ e.inputs = d.inputs /\ e.staged = d.staged
      /\ e.questions = d.questions /\ e.answers = d.answers
      /\ \A t \in ResultIds \ {s} : e.results[t] = d.results[t]
      /\ e.results[s] = [d.results[s] EXCEPT
           !.speech = IF ClaimGrants(d, s, l) THEN "claimed" ELSE "suppressed"]
  BY DEF Claimed, Ledgers
<1>2. d.results[s] \in Record /\ d.results[s] # None
  BY DEF ClaimFresh, Ledgers
<1>3. e.results[s] \in Record
  BY <1>1, <1>2 DEF Record, SpeechStates
<1>4. e.results[s].frame = d.results[s].frame
      /\ e.results[s].speech = IF ClaimGrants(d, s, l) THEN "claimed" ELSE "suppressed"
  BY <1>1, <1>2 DEF Record
<1> QED BY <1>1, <1>2, <1>3, <1>4, NoneAssumption DEF OnlySpeech, SameFrames

LEMMA FinishedShape ==
  ASSUME NEW d \in Ledgers, NEW s \in ResultIds, NEW st \in SpeechDone, FinishFresh(d, s),
         NEW e, e = Finished(d, s, st)
  PROVE  /\ OnlySpeech(d, e)
         /\ \A t \in ResultIds \ {s} : e.results[t] = d.results[t]
         /\ e.results[s].speech = st
<1>1. /\ e.inputs = d.inputs /\ e.staged = d.staged
      /\ e.questions = d.questions /\ e.answers = d.answers
      /\ \A t \in ResultIds \ {s} : e.results[t] = d.results[t]
      /\ e.results[s] = [d.results[s] EXCEPT !.speech = st]
  BY DEF Finished, Ledgers
<1>2. d.results[s] \in Record /\ d.results[s] # None
  BY DEF FinishFresh, Ledgers
<1>3. e.results[s] \in Record
  BY <1>1, <1>2 DEF Record, SpeechStates, SpeechDone
<1>4. e.results[s].frame = d.results[s].frame /\ e.results[s].speech = st
  BY <1>1, <1>2 DEF Record
<1> QED BY <1>1, <1>2, <1>3, <1>4, NoneAssumption DEF OnlySpeech, SameFrames

LEMMA RecoveredShape ==
  ASSUME NEW d \in Ledgers, NEW e, e = Recovered(d)
  PROVE  /\ OnlySpeech(d, e)
         /\ \A s \in ResultIds : d.results[s] # None =>
              e.results[s].speech = IF d.results[s].speech = "claimed" THEN "uncertain"
                                    ELSE d.results[s].speech
<1>1. /\ e.inputs = d.inputs /\ e.staged = d.staged
      /\ e.questions = d.questions /\ e.answers = d.answers
      /\ \A s \in ResultIds :
           e.results[s] = IF d.results[s] # None /\ d.results[s].speech = "claimed"
                          THEN [d.results[s] EXCEPT !.speech = "uncertain"]
                          ELSE d.results[s]
  BY DEF Recovered, Ledgers
<1>2. ASSUME NEW s \in ResultIds, d.results[s] # None
      PROVE  /\ e.results[s] # None
             /\ e.results[s].frame = d.results[s].frame
             /\ e.results[s].speech = IF d.results[s].speech = "claimed" THEN "uncertain"
                                      ELSE d.results[s].speech
  <2>1. d.results[s] \in Record
    BY <1>2 DEF Ledgers
  <2>2. [d.results[s] EXCEPT !.speech = "uncertain"] \in Record
    BY <2>1 DEF Record, SpeechStates
  <2> QED BY <1>1, <1>2, <2>1, <2>2, NoneAssumption DEF Record
<1> QED BY <1>1, <1>2 DEF OnlySpeech, SameFrames

LEMMA QuestionBoundShape ==
  ASSUME NEW d \in Ledgers, NEW a \in Agents, NEW q \in Questions, NEW k \in Keys,
         NEW e, e = QuestionBound(d, a, q, k)
  PROVE  /\ e.inputs = d.inputs /\ e.results = d.results
         /\ e.staged = d.staged /\ e.answers = d.answers
         /\ \A p \in (Agents \X Questions) \ {<<a, q>>} : e.questions[p] = d.questions[p]
         /\ e.questions[<<a, q>>] = k
BY DEF QuestionBound, Ledgers

LEMMA AnsweredShape ==
  ASSUME NEW d \in Ledgers, NEW k \in Keys, NEW a \in Agents, NEW run \in Runs,
         NEW dest \in Destinations, NEW q \in Questions,
         NEW e, e = Answered(d, k, a, run, dest, q)
  PROVE  /\ e.inputs = d.inputs /\ e.results = d.results
         /\ e.staged = d.staged /\ e.questions = d.questions
         /\ \A j \in Keys \ {k} : e.answers[j] = d.answers[j]
         /\ e.answers[k] # None
         /\ e.answers[k].agent = a /\ e.answers[k].run = run /\ e.answers[k].question = q
         /\ e.answers[k].parent = d.questions[<<a, q>>]
         /\ e.answers[k].delivery = None
         /\ e.answers[k].receipt = None
<1>1. /\ e.inputs = d.inputs /\ e.results = d.results
      /\ e.staged = d.staged /\ e.questions = d.questions
      /\ \A j \in Keys \ {k} : e.answers[j] = d.answers[j]
      /\ e.answers[k] = [agent |-> a, run |-> run, dest |-> dest, question |-> q,
                         parent |-> d.questions[<<a, q>>],
                         delivery |-> None, receipt |-> None]
  BY DEF Answered, Ledgers
<1>2. d.questions[<<a, q>>] \in Keys \cup {None}
  BY DEF Ledgers
<1>3. e.answers[k] \in Answer
  BY <1>1, <1>2 DEF Answer
<1> QED BY <1>1, <1>3, NoneAssumption

LEMMA AnswerReceiptBoundShape ==
  ASSUME NEW d \in Ledgers, NEW k \in Keys, NEW dl \in Deliveries,
         NEW st \in ReceiptStates, d.answers[k] # None,
         NEW e, e = AnswerReceiptBound(d, k, dl, st)
  PROVE  /\ e.inputs = d.inputs /\ e.results = d.results
         /\ e.staged = d.staged /\ e.questions = d.questions
         /\ \A j \in Keys \ {k} : e.answers[j] = d.answers[j]
         /\ e.answers[k] # None
         /\ e.answers[k].agent = d.answers[k].agent
         /\ e.answers[k].run = d.answers[k].run
         /\ e.answers[k].question = d.answers[k].question
         /\ e.answers[k].parent = d.answers[k].parent
         /\ e.answers[k].delivery = dl
         /\ e.answers[k].receipt = st
<1>1. d.answers[k] \in Answer
  BY DEF Ledgers
<1>2. /\ e.inputs = d.inputs /\ e.results = d.results
      /\ e.staged = d.staged /\ e.questions = d.questions
      /\ \A j \in Keys \ {k} : e.answers[j] = d.answers[j]
      /\ e.answers[k] = [d.answers[k] EXCEPT !.delivery = dl, !.receipt = st]
  BY <1>1 DEF AnswerReceiptBound, Ledgers, Answer
<1>3. e.answers[k] \in Answer
  BY <1>1, <1>2 DEF Answer
<1>4. e.answers[k] # None
  BY <1>3, NoneAssumption
<1> QED BY <1>1, <1>2, <1>4 DEF Answer

(* What the type of a ledger says of its entries. *)
LEMMA LedgerFacts ==
  ASSUME NEW d \in Ledgers
  PROVE  /\ \A s \in ResultIds : d.results[s] # None =>
              /\ d.results[s].frame \in Frames
              /\ Members(d.results[s].frame) \subseteq Keys
              /\ d.results[s].speech \in SpeechStates
         /\ \A a \in Agents, q \in Questions :
              <<a, q>> \in Agents \X Questions /\ d.questions[<<a, q>>] \in Keys \cup {None}
         /\ \A k \in Keys : d.answers[k] # None =>
              /\ d.answers[k].agent \in Agents
              /\ d.answers[k].question \in Questions
              /\ d.answers[k].parent \in Keys \cup {None}
              /\ d.answers[k].receipt \in ReceiptStates \cup {None}
<1>1. \A s \in ResultIds : d.results[s] # None =>
        d.results[s].frame \in Frames /\ d.results[s].speech \in SpeechStates
  BY DEF Ledgers, Record
<1>2. \A k \in Keys : d.answers[k] # None => d.answers[k] \in Answer
  BY DEF Ledgers
<1>3. \A a \in Agents, q \in Questions : d.questions[<<a, q>>] \in Keys \cup {None}
  BY DEF Ledgers
<1> QED BY <1>1, <1>2, <1>3, MembersAreKeys DEF Answer
-----------------------------------------------------------------------------

(***************************************************************************)
(* Every method keeps every part of Consistent.  The cases are the methods *)
(* in the order of Method; those that leave alone what a part speaks of    *)
(* go together.                                                            *)
(***************************************************************************)
LEMMA MethodRunsUnique ==
  ASSUME NEW d \in Ledgers, RunsUnique(d), NEW e, Method(d, e)
  PROVE  RunsUnique(e)
<1>1. ASSUME NEW k \in Keys, NEW a \in Agents, NEW run \in Runs, NEW dest \in Destinations,
             ReserveFresh(d, k, a, run), e = Reserved(d, k, a, run, dest)
      PROVE  RunsUnique(e)
  BY <1>1, ReservedShape DEF ReserveFresh, RunFree, RunsUnique
<1>2. ASSUME NEW k \in Keys, NEW a \in Agents, NEW dl \in Deliveries,
             ReceiptFresh(d, a, k, dl), e = ReceiptBound(d, k, dl)
      PROVE  RunsUnique(e)
  BY <1>2, ReceiptBoundShape DEF ReceiptFresh, RunsUnique
<1>3. ASSUME NEW s \in ResultIds, NEW f \in Frames, e = Staged(d, s, f)
      PROVE  RunsUnique(e)
  BY <1>3, StagedShape DEF RunsUnique
<1>4. ASSUME NEW s \in ResultIds, NEW f \in Frames,
             ApplyFresh(d, s, f), e = Applied(d, s, f, late)
      PROVE  RunsUnique(e)
  BY <1>4, AppliedShape DEF RunsUnique
<1>5. ASSUME NEW s \in ResultIds, ClaimFresh(d, s), e = Claimed(d, s, late)
      PROVE  RunsUnique(e)
  BY <1>5, ClaimedShape DEF OnlySpeech, RunsUnique
<1>6. ASSUME NEW s \in ResultIds, NEW st \in SpeechDone,
             FinishFresh(d, s), e = Finished(d, s, st)
      PROVE  RunsUnique(e)
  BY <1>6, FinishedShape DEF OnlySpeech, RunsUnique
<1>7. ASSUME NEW a \in Agents, NEW q \in Questions, NEW k \in Keys,
             e = QuestionBound(d, a, q, k)
      PROVE  RunsUnique(e)
  <2>1. e.inputs = d.inputs /\ e.answers = d.answers
    BY <1>7 DEF QuestionBound, Ledgers
  <2> QED BY <2>1 DEF RunsUnique
<1>8. ASSUME NEW k \in Keys, NEW a \in Agents, NEW run \in Runs, NEW dest \in Destinations,
             NEW q \in Questions,
             AnswerFresh(d, k, a, run, q),
             e = Answered(d, k, a, run, dest, q)
      PROVE  RunsUnique(e)
  <2>1. d.inputs[k] = None /\ RunFree(d, run)
    BY <1>8 DEF AnswerFresh
  <2>2. /\ e.inputs = d.inputs /\ e.answers[k].run = run
        /\ \A j \in Keys \ {k} : e.answers[j] = d.answers[j]
    <3>1. <<a, q>> \in Agents \X Questions
      BY <1>8
    <3> QED BY <1>8, <3>1, AnsweredShape
  <2> QED BY <2>1, <2>2 DEF RunFree, RunsUnique
<1>9. ASSUME NEW k \in Keys, NEW a \in Agents, NEW dl \in Deliveries,
             NEW st \in ReceiptStates,
             AnswerReceiptFresh(d, a, k, dl, st), e = AnswerReceiptBound(d, k, dl, st)
      PROVE  RunsUnique(e)
  BY <1>9, AnswerReceiptBoundShape DEF AnswerReceiptFresh, RunsUnique
<1> QED BY <1>1, <1>2, <1>3, <1>4, <1>5, <1>6, <1>7, <1>8, <1>9 DEF Method, Ledgers

LEMMA MethodDeliveriesUnique ==
  ASSUME NEW d \in Ledgers, DeliveriesUnique(d), NEW e, Method(d, e)
  PROVE  DeliveriesUnique(e)
<1>1. ASSUME NEW k \in Keys, NEW a \in Agents, NEW run \in Runs, NEW dest \in Destinations,
             e = Reserved(d, k, a, run, dest)
      PROVE  DeliveriesUnique(e)
  BY <1>1, ReservedShape DEF DeliveriesUnique
<1>2. ASSUME NEW k \in Keys, NEW a \in Agents, NEW dl \in Deliveries,
             ReceiptFresh(d, a, k, dl), e = ReceiptBound(d, k, dl)
      PROVE  DeliveriesUnique(e)
  BY <1>2, ReceiptBoundShape, NoneAssumption DEF ReceiptFresh, DeliveryFree, DeliveriesUnique
<1>3. ASSUME NEW s \in ResultIds, NEW f \in Frames, e = Staged(d, s, f)
      PROVE  DeliveriesUnique(e)
  BY <1>3, StagedShape DEF DeliveriesUnique
<1>4. ASSUME NEW s \in ResultIds, NEW f \in Frames,
             ApplyFresh(d, s, f), e = Applied(d, s, f, late)
      PROVE  DeliveriesUnique(e)
  BY <1>4, AppliedShape DEF DeliveriesUnique
<1>5. ASSUME NEW s \in ResultIds, ClaimFresh(d, s), e = Claimed(d, s, late)
      PROVE  DeliveriesUnique(e)
  BY <1>5, ClaimedShape DEF OnlySpeech, DeliveriesUnique
<1>6. ASSUME NEW s \in ResultIds, NEW st \in SpeechDone,
             FinishFresh(d, s), e = Finished(d, s, st)
      PROVE  DeliveriesUnique(e)
  BY <1>6, FinishedShape DEF OnlySpeech, DeliveriesUnique
<1>7. ASSUME NEW a \in Agents, NEW q \in Questions, NEW k \in Keys,
             e = QuestionBound(d, a, q, k)
      PROVE  DeliveriesUnique(e)
  <2>1. e.inputs = d.inputs /\ e.answers = d.answers
    BY <1>7 DEF QuestionBound, Ledgers
  <2> QED BY <2>1 DEF DeliveriesUnique
<1>8. ASSUME NEW k \in Keys, NEW a \in Agents, NEW run \in Runs, NEW dest \in Destinations,
             NEW q \in Questions,
             e = Answered(d, k, a, run, dest, q)
      PROVE  DeliveriesUnique(e)
  <2>1. /\ e.inputs = d.inputs /\ e.answers[k].delivery = None
        /\ \A j \in Keys \ {k} : e.answers[j] = d.answers[j]
    <3>1. <<a, q>> \in Agents \X Questions
      BY <1>8
    <3> QED BY <1>8, <3>1, AnsweredShape
  <2> QED BY <2>1 DEF DeliveriesUnique
<1>9. ASSUME NEW k \in Keys, NEW a \in Agents, NEW dl \in Deliveries,
             NEW st \in ReceiptStates,
             AnswerReceiptFresh(d, a, k, dl, st), e = AnswerReceiptBound(d, k, dl, st)
      PROVE  DeliveriesUnique(e)
  <2>1. d.answers[k] # None /\ DeliveryFree(d, dl, Keys \ {k})
    BY <1>9 DEF AnswerReceiptFresh
  <2>2. /\ e.inputs = d.inputs /\ e.answers[k].delivery = dl
        /\ \A j \in Keys \ {k} : e.answers[j] = d.answers[j]
    BY <1>9, <2>1, AnswerReceiptBoundShape
  <2> QED BY <2>1, <2>2 DEF DeliveryFree, DeliveriesUnique
<1> QED BY <1>1, <1>2, <1>3, <1>4, <1>5, <1>6, <1>7, <1>8, <1>9 DEF Method, Ledgers

(* CompletionAtomic speaks of inputs, staged frames and stored frames only. *)
LEMMA CompletionKept ==
  ASSUME NEW d \in Ledgers, CompletionAtomic(d), NEW e,
         e.inputs = d.inputs, e.staged = d.staged, SameFrames(d, e)
  PROVE  CompletionAtomic(e)
<1>1. \A s \in ResultIds : ResolvedBy(e, s) = ResolvedBy(d, s)
  BY DEF ResolvedBy
<1> QED BY <1>1 DEF CompletionAtomic, CompletedWhole, SameFrames

LEMMA MethodCompletionAtomic ==
  ASSUME NEW d \in Ledgers, CompletionAtomic(d), NEW e, Method(d, e)
  PROVE  CompletionAtomic(e)
<1>1. ASSUME NEW k \in Keys, NEW a \in Agents, NEW run \in Runs, NEW dest \in Destinations,
             ReserveFresh(d, k, a, run), e = Reserved(d, k, a, run, dest)
      PROVE  CompletionAtomic(e)
  <2>1. /\ e.results = d.results /\ e.staged = d.staged
        /\ d.inputs[k] = None /\ e.inputs[k].result = None
        /\ \A j \in Keys \ {k} : e.inputs[j] = d.inputs[j]
    BY <1>1, ReservedShape DEF ReserveFresh
  <2>2. \A s \in ResultIds : ResolvedBy(e, s) = ResolvedBy(d, s) /\ k \notin ResolvedBy(d, s)
    BY <2>1, NoneAssumption DEF ResolvedBy
  <2>3. \A s \in ResultIds : d.results[s] # None => Members(d.results[s].frame) \subseteq Keys
    BY LedgerFacts
  <2> QED BY <2>1, <2>2, <2>3 DEF CompletionAtomic, CompletedWhole
<1>2. ASSUME NEW k \in Keys, NEW a \in Agents, NEW dl \in Deliveries,
             ReceiptFresh(d, a, k, dl), e = ReceiptBound(d, k, dl)
      PROVE  CompletionAtomic(e)
  <2>1. /\ e.results = d.results /\ e.staged = d.staged
        /\ d.inputs[k] # None /\ d.inputs[k].delivery = None
        /\ e.inputs[k] # None /\ e.inputs[k].agent = d.inputs[k].agent
        /\ e.inputs[k].result = d.inputs[k].result
        /\ \A j \in Keys \ {k} : e.inputs[j] = d.inputs[j]
    BY <1>2, ReceiptBoundShape DEF ReceiptFresh
  <2>2. \A s \in ResultIds : ResolvedBy(e, s) = ResolvedBy(d, s)
    BY <2>1 DEF ResolvedBy
  <2>3. ASSUME NEW s \in ResultIds, d.results[s] # None
        PROVE  k \notin Members(d.results[s].frame)
    <3>1. \A f \in Frames : \A j \in Members(f) : f.members[j] # None
      BY FramesAssumption, NoneAssumption DEF FrameOK
    <3>2. d.results[s].frame \in Frames
      BY <2>3, LedgerFacts
    <3> QED BY <2>1, <2>3, <3>1, <3>2 DEF CompletionAtomic, CompletedWhole
  <2>4. \A s \in ResultIds : d.results[s] # None => Members(d.results[s].frame) \subseteq Keys
    BY LedgerFacts
  <2> QED BY <2>1, <2>2, <2>3, <2>4 DEF CompletionAtomic, CompletedWhole
<1>3. ASSUME NEW s \in ResultIds, NEW f \in Frames, StageFresh(d, s, f), e = Staged(d, s, f)
      PROVE  CompletionAtomic(e)
  BY <1>3, StagedShape DEF StageFresh, ResolvedBy, CompletionAtomic, CompletedWhole
<1>4. ASSUME NEW s \in ResultIds, NEW f \in Frames,
             ApplyFresh(d, s, f), e = Applied(d, s, f, late)
      PROVE  CompletionAtomic(e)
  <2>1. /\ \A t \in ResultIds \ {s} : e.results[t] = d.results[t] /\ e.staged[t] = d.staged[t]
        /\ e.staged[s] = None /\ e.results[s] # None /\ e.results[s].frame = f
        /\ \A j \in Keys \ Members(f) : e.inputs[j] = d.inputs[j]
        /\ \A j \in Members(f) :
             /\ j \in Keys /\ e.inputs[j] # None
             /\ e.inputs[j].agent = d.inputs[j].agent
             /\ e.inputs[j].delivery = d.inputs[j].delivery
             /\ e.inputs[j].result = s
    BY <1>4, AppliedShape
  <2>2. /\ d.results[s] = None
        /\ \A j \in Members(f) : /\ d.inputs[j] # None /\ d.inputs[j].agent = f.agent
                                 /\ d.inputs[j].delivery = f.members[j]
                                 /\ d.inputs[j].result = None
    BY <1>4 DEF ApplyFresh, MemberReady
  <2>3. ResolvedBy(d, s) = {}
    BY <2>2 DEF CompletionAtomic
  <2>4. ResolvedBy(e, s) = Members(f)
    BY <2>1, <2>3 DEF ResolvedBy
  <2>5. CompletedWhole(e, s)
    BY <2>1, <2>2, <2>4 DEF CompletedWhole
  <2>6. ASSUME NEW t \in ResultIds \ {s}
        PROVE  ResolvedBy(e, t) = ResolvedBy(d, t) /\ Members(f) \cap ResolvedBy(d, t) = {}
    BY <2>1, <2>2, NoneAssumption DEF ResolvedBy
  <2>7. ASSUME NEW t \in ResultIds \ {s}, d.results[t] # None
        PROVE  CompletedWhole(e, t)
    <3>1. CompletedWhole(d, t)
      BY <2>7 DEF CompletionAtomic
    <3>2. Members(d.results[t].frame) \subseteq Keys \ Members(f)
      BY <2>6, <2>7, <3>1, LedgerFacts DEF CompletedWhole
    <3> QED BY <2>1, <2>6, <3>1, <3>2 DEF CompletedWhole
  <2> QED BY <2>1, <2>5, <2>6, <2>7 DEF CompletionAtomic
<1>5. ASSUME NEW s \in ResultIds, ClaimFresh(d, s), e = Claimed(d, s, late)
      PROVE  CompletionAtomic(e)
  BY <1>5, ClaimedShape, CompletionKept DEF OnlySpeech
<1>6. ASSUME NEW s \in ResultIds, NEW st \in SpeechDone,
             FinishFresh(d, s), e = Finished(d, s, st)
      PROVE  CompletionAtomic(e)
  BY <1>6, FinishedShape, CompletionKept DEF OnlySpeech
<1>7. ASSUME NEW a \in Agents, NEW q \in Questions, NEW k \in Keys,
             e = QuestionBound(d, a, q, k)
      PROVE  CompletionAtomic(e)
  <2>1. e.inputs = d.inputs /\ e.staged = d.staged /\ e.results = d.results
    BY <1>7 DEF QuestionBound, Ledgers
  <2> QED BY <2>1, CompletionKept DEF SameFrames
<1>8. ASSUME NEW k \in Keys, NEW a \in Agents, NEW run \in Runs, NEW dest \in Destinations,
             NEW q \in Questions,
             e = Answered(d, k, a, run, dest, q)
      PROVE  CompletionAtomic(e)
  <2>1. e.inputs = d.inputs /\ e.staged = d.staged /\ e.results = d.results
    BY <1>8 DEF Answered, Ledgers
  <2> QED BY <2>1, CompletionKept DEF SameFrames
<1>9. ASSUME NEW k \in Keys, NEW a \in Agents, NEW dl \in Deliveries,
             NEW st \in ReceiptStates,
             AnswerReceiptFresh(d, a, k, dl, st), e = AnswerReceiptBound(d, k, dl, st)
      PROVE  CompletionAtomic(e)
  <2>1. e.inputs = d.inputs /\ e.staged = d.staged /\ e.results = d.results
    BY <1>9, AnswerReceiptBoundShape DEF AnswerReceiptFresh
  <2> QED BY <2>1, CompletionKept DEF SameFrames
<1> QED BY <1>1, <1>2, <1>3, <1>4, <1>5, <1>6, <1>7, <1>8, <1>9 DEF Method, Ledgers

(* Questions stay linked while tasks keep their agent and answers stay. *)
LEMMA QuestionsKept ==
  ASSUME NEW d \in Ledgers, QuestionsLinked(d), NEW e,
         e.questions = d.questions, e.answers = d.answers,
         \A k \in Keys : d.inputs[k] # None =>
           e.inputs[k] # None /\ e.inputs[k].agent = d.inputs[k].agent
  PROVE  QuestionsLinked(e)
BY LedgerFacts DEF QuestionsLinked

LEMMA MethodQuestionsLinked ==
  ASSUME NEW d \in Ledgers, QuestionsLinked(d), NEW e, Method(d, e)
  PROVE  QuestionsLinked(e)
<1>1. ASSUME NEW k \in Keys, NEW a \in Agents, NEW run \in Runs, NEW dest \in Destinations,
             ReserveFresh(d, k, a, run), e = Reserved(d, k, a, run, dest)
      PROVE  QuestionsLinked(e)
  BY <1>1, ReservedShape, QuestionsKept DEF ReserveFresh
<1>2. ASSUME NEW k \in Keys, NEW a \in Agents, NEW dl \in Deliveries,
             ReceiptFresh(d, a, k, dl), e = ReceiptBound(d, k, dl)
      PROVE  QuestionsLinked(e)
  BY <1>2, ReceiptBoundShape, QuestionsKept DEF ReceiptFresh
<1>3. ASSUME NEW s \in ResultIds, NEW f \in Frames, e = Staged(d, s, f)
      PROVE  QuestionsLinked(e)
  BY <1>3, StagedShape, QuestionsKept
<1>4. ASSUME NEW s \in ResultIds, NEW f \in Frames,
             ApplyFresh(d, s, f), e = Applied(d, s, f, late)
      PROVE  QuestionsLinked(e)
  BY <1>4, AppliedShape, QuestionsKept
<1>5. ASSUME NEW s \in ResultIds, ClaimFresh(d, s), e = Claimed(d, s, late)
      PROVE  QuestionsLinked(e)
  BY <1>5, ClaimedShape, QuestionsKept DEF OnlySpeech
<1>6. ASSUME NEW s \in ResultIds, NEW st \in SpeechDone,
             FinishFresh(d, s), e = Finished(d, s, st)
      PROVE  QuestionsLinked(e)
  BY <1>6, FinishedShape, QuestionsKept DEF OnlySpeech
<1>7. ASSUME NEW a \in Agents, NEW q \in Questions, NEW k \in Keys,
             QuestionFresh(d, a, q, k), e = QuestionBound(d, a, q, k)
      PROVE  QuestionsLinked(e)
  <2>1. /\ d.inputs[k] # None /\ d.inputs[k].agent = a /\ d.questions[<<a, q>>] = None
        /\ e.inputs = d.inputs /\ e.answers = d.answers /\ e.questions[<<a, q>>] = k
        /\ \A p \in (Agents \X Questions) \ {<<a, q>>} : e.questions[p] = d.questions[p]
    BY <1>7, QuestionBoundShape DEF QuestionFresh, ParentOpen
  <2>2. ASSUME NEW b \in Agents, NEW r \in Questions, e.questions[<<b, r>>] # None
        PROVE  /\ e.inputs[e.questions[<<b, r>>]] # None
               /\ e.inputs[e.questions[<<b, r>>]].agent = b
    <3>1. CASE b = a /\ r = q
      BY <2>1, <3>1
    <3>2. CASE ~(b = a /\ r = q)
      BY <2>1, <2>2, <3>2 DEF QuestionsLinked
    <3> QED BY <3>1, <3>2
  <2>3. ASSUME NEW j \in Keys, d.answers[j] # None, d.answers[j].parent # None
        PROVE  e.questions[<<d.answers[j].agent, d.answers[j].question>>] = d.answers[j].parent
    BY <2>1, <2>3, LedgerFacts DEF QuestionsLinked
  <2> QED BY <2>1, <2>2, <2>3 DEF QuestionsLinked
<1>8. ASSUME NEW k \in Keys, NEW a \in Agents, NEW run \in Runs, NEW dest \in Destinations,
             NEW q \in Questions,
             AnswerFresh(d, k, a, run, q),
             e = Answered(d, k, a, run, dest, q)
      PROVE  QuestionsLinked(e)
  <2>1. /\ e.inputs = d.inputs /\ e.questions = d.questions
        /\ e.answers[k].agent = a /\ e.answers[k].question = q
        /\ e.answers[k].parent = d.questions[<<a, q>>]
        /\ \A j \in Keys \ {k} : e.answers[j] = d.answers[j]
    <3>1. <<a, q>> \in Agents \X Questions
      BY <1>8
    <3> QED BY <1>8, <3>1, AnsweredShape
  <2> QED BY <2>1 DEF QuestionsLinked
<1>9. ASSUME NEW k \in Keys, NEW a \in Agents, NEW dl \in Deliveries,
             NEW st \in ReceiptStates,
             AnswerReceiptFresh(d, a, k, dl, st), e = AnswerReceiptBound(d, k, dl, st)
      PROVE  QuestionsLinked(e)
  <2>1. /\ e.inputs = d.inputs /\ e.questions = d.questions /\ d.answers[k] # None
        /\ e.answers[k].agent = d.answers[k].agent
        /\ e.answers[k].question = d.answers[k].question
        /\ e.answers[k].parent = d.answers[k].parent
        /\ \A j \in Keys \ {k} : e.answers[j] = d.answers[j]
    BY <1>9, AnswerReceiptBoundShape DEF AnswerReceiptFresh
  <2> QED BY <2>1 DEF QuestionsLinked
<1> QED BY <1>1, <1>2, <1>3, <1>4, <1>5, <1>6, <1>7, <1>8, <1>9 DEF Method, Ledgers
(* A result keeps its one listener while tasks stay, with their destination, *)
(* and no speech becomes pending, claimed or accepted that was none of them. *)
Unfinished == {"pending", "claimed", "accepted"}

LEMMA ListenerKept ==
  ASSUME NEW d \in Ledgers, SpeechHasOneListener(d), NEW e, SameFrames(d, e),
         \A k \in Keys : d.inputs[k] # None =>
           e.inputs[k] # None /\ e.inputs[k].dest = d.inputs[k].dest,
         \A s \in ResultIds : (d.results[s] # None /\ e.results[s].speech \in Unfinished) =>
           d.results[s].speech \in Unfinished
  PROVE  SpeechHasOneListener(e)
BY LedgerFacts DEF SpeechHasOneListener, SameFrames, Unfinished

LEMMA MethodSpeechHasOneListener ==
  ASSUME NEW d \in Ledgers, SpeechHasOneListener(d), NEW e, Method(d, e)
  PROVE  SpeechHasOneListener(e)
<1>1. ASSUME NEW k \in Keys, NEW a \in Agents, NEW run \in Runs, NEW dest \in Destinations,
             ReserveFresh(d, k, a, run), e = Reserved(d, k, a, run, dest)
      PROVE  SpeechHasOneListener(e)
  BY <1>1, ReservedShape, ListenerKept DEF ReserveFresh, SameFrames
<1>2. ASSUME NEW k \in Keys, NEW a \in Agents, NEW dl \in Deliveries,
             ReceiptFresh(d, a, k, dl), e = ReceiptBound(d, k, dl)
      PROVE  SpeechHasOneListener(e)
  BY <1>2, ReceiptBoundShape, ListenerKept DEF ReceiptFresh, SameFrames
<1>3. ASSUME NEW s \in ResultIds, NEW f \in Frames, e = Staged(d, s, f)
      PROVE  SpeechHasOneListener(e)
  BY <1>3, StagedShape, ListenerKept DEF SameFrames
<1>4. ASSUME NEW s \in ResultIds, NEW f \in Frames,
             ApplyFresh(d, s, f), e = Applied(d, s, f, late)
      PROVE  SpeechHasOneListener(e)
  <2>1. /\ \A t \in ResultIds \ {s} : e.results[t] = d.results[t]
        /\ e.results[s].frame = f
        /\ e.results[s].speech = IF Speakable(d, f, late) THEN "pending" ELSE "suppressed"
        /\ \A j \in Keys \ Members(f) : e.inputs[j] = d.inputs[j]
        /\ \A j \in Members(f) : /\ j \in Keys /\ d.inputs[j] # None /\ e.inputs[j] # None
                                 /\ e.inputs[j].dest = d.inputs[j].dest
    BY <1>4, AppliedShape
  <2>2. e.results[s].speech \in Unfinished => Speakable(d, f, late)
    BY <2>1 DEF Unfinished
  <2>3. ASSUME NEW t \in ResultIds \ {s}, e.results[t] # None,
               e.results[t].speech \in Unfinished
        PROVE  /\ ~e.results[t].frame.long
               /\ \A i, j \in Members(e.results[t].frame) :
                    /\ e.inputs[i] # None /\ e.inputs[j] # None
                    /\ e.inputs[i].dest # Web /\ e.inputs[i].dest = e.inputs[j].dest
    BY <2>1, <2>3, LedgerFacts DEF SpeechHasOneListener, Unfinished
  <2>4. Speakable(d, f, late) =>
          /\ ~e.results[s].frame.long
          /\ \A i, j \in Members(e.results[s].frame) :
               /\ e.inputs[i] # None /\ e.inputs[j] # None
               /\ e.inputs[i].dest # Web /\ e.inputs[i].dest = e.inputs[j].dest
    BY <2>1 DEF Speakable
  <2> QED BY <2>2, <2>3, <2>4 DEF SpeechHasOneListener, Unfinished
<1>5. ASSUME NEW s \in ResultIds, ClaimFresh(d, s), e = Claimed(d, s, late)
      PROVE  SpeechHasOneListener(e)
  <2>1. /\ OnlySpeech(d, e) /\ d.results[s].speech = "pending"
        /\ \A t \in ResultIds \ {s} : e.results[t] = d.results[t]
    BY <1>5, ClaimedShape DEF ClaimFresh
  <2> QED BY <2>1, ListenerKept DEF OnlySpeech, Unfinished
<1>6. ASSUME NEW s \in ResultIds, NEW st \in SpeechDone,
             FinishFresh(d, s), e = Finished(d, s, st)
      PROVE  SpeechHasOneListener(e)
  <2>1. /\ OnlySpeech(d, e) /\ d.results[s].speech = "claimed"
        /\ \A t \in ResultIds \ {s} : e.results[t] = d.results[t]
    BY <1>6, FinishedShape DEF FinishFresh
  <2> QED BY <2>1, ListenerKept DEF OnlySpeech, Unfinished
<1>7. ASSUME NEW a \in Agents, NEW q \in Questions, NEW k \in Keys,
             e = QuestionBound(d, a, q, k)
      PROVE  SpeechHasOneListener(e)
  <2>1. e.inputs = d.inputs /\ e.results = d.results
    BY <1>7 DEF QuestionBound, Ledgers
  <2> QED BY <2>1, ListenerKept DEF SameFrames
<1>8. ASSUME NEW k \in Keys, NEW a \in Agents, NEW run \in Runs, NEW dest \in Destinations,
             NEW q \in Questions, e = Answered(d, k, a, run, dest, q)
      PROVE  SpeechHasOneListener(e)
  <2>1. e.inputs = d.inputs /\ e.results = d.results
    BY <1>8 DEF Answered, Ledgers
  <2> QED BY <2>1, ListenerKept DEF SameFrames
<1>9. ASSUME NEW k \in Keys, NEW a \in Agents, NEW dl \in Deliveries,
             NEW st \in ReceiptStates,
             AnswerReceiptFresh(d, a, k, dl, st), e = AnswerReceiptBound(d, k, dl, st)
      PROVE  SpeechHasOneListener(e)
  <2>1. e.inputs = d.inputs /\ e.results = d.results
    BY <1>9, AnswerReceiptBoundShape DEF AnswerReceiptFresh
  <2> QED BY <2>1, ListenerKept DEF SameFrames
<1> QED BY <1>1, <1>2, <1>3, <1>4, <1>5, <1>6, <1>7, <1>8, <1>9 DEF Method, Ledgers

LEMMA MethodAnswersReceipted ==
  ASSUME NEW d \in Ledgers, AnswersReceipted(d), NEW e, Method(d, e)
  PROVE  AnswersReceipted(e)
<1>1. ASSUME NEW k \in Keys, NEW a \in Agents, NEW run \in Runs, NEW dest \in Destinations,
             e = Reserved(d, k, a, run, dest)
      PROVE  AnswersReceipted(e)
  BY <1>1, ReservedShape DEF AnswersReceipted
<1>2. ASSUME NEW k \in Keys, NEW a \in Agents, NEW dl \in Deliveries,
             ReceiptFresh(d, a, k, dl), e = ReceiptBound(d, k, dl)
      PROVE  AnswersReceipted(e)
  BY <1>2, ReceiptBoundShape DEF ReceiptFresh, AnswersReceipted
<1>3. ASSUME NEW s \in ResultIds, NEW f \in Frames, e = Staged(d, s, f)
      PROVE  AnswersReceipted(e)
  BY <1>3, StagedShape DEF AnswersReceipted
<1>4. ASSUME NEW s \in ResultIds, NEW f \in Frames,
             ApplyFresh(d, s, f), e = Applied(d, s, f, late)
      PROVE  AnswersReceipted(e)
  BY <1>4, AppliedShape DEF AnswersReceipted
<1>5. ASSUME NEW s \in ResultIds, ClaimFresh(d, s), e = Claimed(d, s, late)
      PROVE  AnswersReceipted(e)
  BY <1>5, ClaimedShape DEF OnlySpeech, AnswersReceipted
<1>6. ASSUME NEW s \in ResultIds, NEW st \in SpeechDone,
             FinishFresh(d, s), e = Finished(d, s, st)
      PROVE  AnswersReceipted(e)
  BY <1>6, FinishedShape DEF OnlySpeech, AnswersReceipted
<1>7. ASSUME NEW a \in Agents, NEW q \in Questions, NEW k \in Keys,
             e = QuestionBound(d, a, q, k)
      PROVE  AnswersReceipted(e)
  <2>1. e.answers = d.answers
    BY <1>7 DEF QuestionBound, Ledgers
  <2> QED BY <2>1 DEF AnswersReceipted
<1>8. ASSUME NEW k \in Keys, NEW a \in Agents, NEW run \in Runs, NEW dest \in Destinations,
             NEW q \in Questions, e = Answered(d, k, a, run, dest, q)
      PROVE  AnswersReceipted(e)
  <2>1. /\ e.answers[k].delivery = None /\ e.answers[k].receipt = None
        /\ \A j \in Keys \ {k} : e.answers[j] = d.answers[j]
    <3>1. <<a, q>> \in Agents \X Questions
      BY <1>8
    <3> QED BY <1>8, <3>1, AnsweredShape
  <2> QED BY <2>1 DEF AnswersReceipted
<1>9. ASSUME NEW k \in Keys, NEW a \in Agents, NEW dl \in Deliveries,
             NEW st \in ReceiptStates,
             AnswerReceiptFresh(d, a, k, dl, st), e = AnswerReceiptBound(d, k, dl, st)
      PROVE  AnswersReceipted(e)
  BY <1>9, AnswerReceiptBoundShape, NoneAssumption DEF AnswerReceiptFresh, AnswersReceipted
<1> QED BY <1>1, <1>2, <1>3, <1>4, <1>5, <1>6, <1>7, <1>8, <1>9 DEF Method, Ledgers

LEMMA MethodConsistent ==
  ASSUME NEW d \in Ledgers, Consistent(d), NEW e, Method(d, e)
  PROVE  Consistent(e)
BY MethodRunsUnique, MethodDeliveriesUnique, MethodCompletionAtomic,
   MethodQuestionsLinked, MethodSpeechHasOneListener, MethodAnswersReceipted
   DEF Consistent

(* Recovery only turns claimed speech uncertain. *)
LEMMA RecoveredConsistent ==
  ASSUME NEW d \in Ledgers, Consistent(d)
  PROVE  Consistent(Recovered(d))
<1> DEFINE e == Recovered(d)
<1>1. OnlySpeech(d, e)
  BY RecoveredShape
<1>2. \A s \in ResultIds : (d.results[s] # None /\ e.results[s].speech \in Unfinished) =>
        d.results[s].speech \in Unfinished
  BY RecoveredShape DEF Unfinished
<1> HIDE DEF e
<1>3. RunsUnique(e) /\ DeliveriesUnique(e)
  BY <1>1 DEF OnlySpeech, Consistent, RunsUnique, DeliveriesUnique
<1>4. CompletionAtomic(e)
  BY <1>1, CompletionKept DEF OnlySpeech, Consistent
<1>5. QuestionsLinked(e)
  BY <1>1, QuestionsKept DEF OnlySpeech, Consistent
<1>6. SpeechHasOneListener(e)
  BY <1>1, <1>2, ListenerKept DEF OnlySpeech, Consistent
<1>7. AnswersReceipted(e)
  BY <1>1 DEF OnlySpeech, Consistent, AnswersReceipted
<1>8. Consistent(e)
  BY <1>3, <1>4, <1>5, <1>6, <1>7 DEF Consistent
<1> QED BY <1>8 DEF e

LEMMA EmptyConsistent == Consistent(EmptyLedger)
BY NoneAssumption DEF Consistent, RunsUnique, DeliveriesUnique, CompletionAtomic,
     ResolvedBy, QuestionsLinked, SpeechHasOneListener, AnswersReceipted, EmptyLedger

(***************************************************************************)
(* Neither copy of the ledger is ever inconsistent: a group is resolved    *)
(* whole or not at all, no identity is used twice, and a linked answer     *)
(* belongs to the task of its question.                                    *)
(***************************************************************************)
THEOREM LedgerCorrect == Spec => []LedgerConsistent
<1>1. Init => LedgerConsistent
  BY EmptyConsistent DEF Init, LedgerConsistent
<1>2. TypeOK /\ LedgerConsistent /\ [Next]_storeVars => LedgerConsistent'
  <2> SUFFICES ASSUME TypeOK, LedgerConsistent, [Next]_storeVars
               PROVE  Consistent(mem') /\ Consistent(disk')
    BY DEF LedgerConsistent
  <2>1. mem \in Ledgers /\ disk \in Ledgers /\ Consistent(mem) /\ Consistent(disk)
    BY DEF TypeOK, LedgerConsistent
  <2>2. CASE \E e : Method(mem, e) /\ Written(e)
    BY <2>1, <2>2, MethodConsistent DEF Written
  <2>3. CASE Written(Recovered(disk))
    BY <2>1, <2>3, RecoveredConsistent DEF Written
  <2>4. CASE UNCHANGED <<mem, disk>>
    BY <2>1, <2>4
  <2> QED BY <2>2, <2>3, <2>4, StepShape
<1> QED BY <1>1, <1>2, TypeCorrect, PTL DEF Spec
-----------------------------------------------------------------------------

(***************************************************************************)
(* Extends is reflexive and transitive, and a method only extends a ledger. *)
(***************************************************************************)
LEMMA ExtendsReflexive ==
  ASSUME NEW d \in Ledgers
  PROVE  Extends(d, d)
BY DEF Extends, Grows, SpeechForward, ReceiptForward

LEMMA RankIsNatural == \A st \in ReceiptStates \cup {None} : Rank[st] \in Nat
BY DEF Rank

LEMMA ExtendsTransitive ==
  ASSUME NEW c \in Ledgers, NEW d \in Ledgers, NEW e \in Ledgers,
         Extends(d, c), Extends(e, d)
  PROVE  Extends(e, c)
<1>1. ASSUME NEW k \in Keys, c.inputs[k] # None
      PROVE  /\ e.inputs[k] # None
             /\ e.inputs[k].agent = c.inputs[k].agent
             /\ e.inputs[k].run = c.inputs[k].run
             /\ e.inputs[k].dest = c.inputs[k].dest
             /\ Grows(c.inputs[k].delivery, e.inputs[k].delivery)
             /\ Grows(c.inputs[k].result, e.inputs[k].result)
  BY <1>1 DEF Extends, Grows
<1>2. ASSUME NEW s \in ResultIds, c.results[s] # None
      PROVE  /\ e.results[s] # None
             /\ e.results[s].frame = c.results[s].frame
             /\ SpeechForward(c.results[s].speech, e.results[s].speech)
  BY <1>2 DEF Extends, SpeechForward, SpeechDone
<1>3. ASSUME NEW q \in Agents \X Questions
      PROVE  Grows(c.questions[q], e.questions[q])
  BY <1>3 DEF Extends, Grows
<1>4. ASSUME NEW k \in Keys, c.answers[k] # None
      PROVE  /\ e.answers[k] # None
             /\ e.answers[k].run = c.answers[k].run
             /\ e.answers[k].question = c.answers[k].question
             /\ e.answers[k].parent = c.answers[k].parent
             /\ Grows(c.answers[k].delivery, e.answers[k].delivery)
             /\ ReceiptForward(c.answers[k].receipt, e.answers[k].receipt)
  <2>1. d.answers[k] # None /\ e.answers[k] # None
    BY <1>4 DEF Extends
  <2>2. /\ c.answers[k].receipt \in ReceiptStates \cup {None}
        /\ d.answers[k].receipt \in ReceiptStates \cup {None}
        /\ e.answers[k].receipt \in ReceiptStates \cup {None}
    BY <1>4, <2>1, LedgerFacts
  <2>3. /\ ReceiptForward(c.answers[k].receipt, d.answers[k].receipt)
        /\ ReceiptForward(d.answers[k].receipt, e.answers[k].receipt)
    BY <1>4, <2>1 DEF Extends
  <2>4. Rank[None] = 0
    BY NoneAssumption DEF Rank, ReceiptStates
  <2>5. ReceiptForward(c.answers[k].receipt, e.answers[k].receipt)
    BY <2>2, <2>3, <2>4, RankIsNatural DEF ReceiptForward
  <2> QED BY <1>4, <2>1, <2>5 DEF Extends, Grows
<1> QED BY <1>1, <1>2, <1>3, <1>4 DEF Extends

LEMMA OnlySpeechExtends ==
  ASSUME NEW d \in Ledgers, NEW e, OnlySpeech(d, e),
         \A s \in ResultIds : d.results[s] # None =>
           SpeechForward(d.results[s].speech, e.results[s].speech)
  PROVE  Extends(e, d)
BY DEF OnlySpeech, SameFrames, Extends, Grows, ReceiptForward

LEMMA MethodExtends ==
  ASSUME NEW d \in Ledgers, AnswersReceipted(d), NEW e, Method(d, e)
  PROVE  Extends(e, d)
<1>1. ASSUME NEW k \in Keys, NEW a \in Agents, NEW run \in Runs, NEW dest \in Destinations,
             ReserveFresh(d, k, a, run), e = Reserved(d, k, a, run, dest)
      PROVE  Extends(e, d)
  BY <1>1, ReservedShape DEF ReserveFresh, Extends, Grows, SpeechForward, ReceiptForward
<1>2. ASSUME NEW k \in Keys, NEW a \in Agents, NEW dl \in Deliveries,
             ReceiptFresh(d, a, k, dl), e = ReceiptBound(d, k, dl)
      PROVE  Extends(e, d)
  BY <1>2, ReceiptBoundShape
     DEF ReceiptFresh, Extends, Grows, SpeechForward, ReceiptForward
<1>3. ASSUME NEW s \in ResultIds, NEW f \in Frames, e = Staged(d, s, f)
      PROVE  Extends(e, d)
  BY <1>3, StagedShape DEF Extends, Grows, SpeechForward, ReceiptForward
<1>4. ASSUME NEW s \in ResultIds, NEW f \in Frames,
             ApplyFresh(d, s, f), e = Applied(d, s, f, late)
      PROVE  Extends(e, d)
  <2>1. /\ d.results[s] = None
        /\ \A j \in Members(f) : d.inputs[j].result = None
    BY <1>4 DEF ApplyFresh, MemberReady
  <2>2. /\ e.questions = d.questions /\ e.answers = d.answers
        /\ \A t \in ResultIds \ {s} : e.results[t] = d.results[t]
        /\ \A j \in Keys \ Members(f) : e.inputs[j] = d.inputs[j]
        /\ \A j \in Members(f) :
              /\ e.inputs[j] # None
              /\ e.inputs[j].agent = d.inputs[j].agent
              /\ e.inputs[j].run = d.inputs[j].run
              /\ e.inputs[j].dest = d.inputs[j].dest
              /\ e.inputs[j].delivery = d.inputs[j].delivery
    BY <1>4, AppliedShape
  <2> QED BY <2>1, <2>2 DEF Extends, Grows, SpeechForward, ReceiptForward
<1>5. ASSUME NEW s \in ResultIds, ClaimFresh(d, s), e = Claimed(d, s, late)
      PROVE  Extends(e, d)
  BY <1>5, ClaimedShape, OnlySpeechExtends DEF ClaimFresh, SpeechForward
<1>6. ASSUME NEW s \in ResultIds, NEW st \in SpeechDone,
             FinishFresh(d, s), e = Finished(d, s, st)
      PROVE  Extends(e, d)
  BY <1>6, FinishedShape, OnlySpeechExtends DEF FinishFresh, SpeechForward
<1>7. ASSUME NEW a \in Agents, NEW q \in Questions, NEW k \in Keys,
             QuestionFresh(d, a, q, k), e = QuestionBound(d, a, q, k)
      PROVE  Extends(e, d)
  <2>1. /\ d.questions[<<a, q>>] = None
        /\ e.inputs = d.inputs /\ e.results = d.results /\ e.answers = d.answers
        /\ \A p \in (Agents \X Questions) \ {<<a, q>>} : e.questions[p] = d.questions[p]
    BY <1>7, QuestionBoundShape DEF QuestionFresh
  <2> QED BY <2>1 DEF Extends, Grows, SpeechForward, ReceiptForward
<1>8. ASSUME NEW k \in Keys, NEW a \in Agents, NEW run \in Runs, NEW dest \in Destinations,
             NEW q \in Questions,
             AnswerFresh(d, k, a, run, q), e = Answered(d, k, a, run, dest, q)
      PROVE  Extends(e, d)
  <2>1. d.answers[k] = None
    BY <1>8 DEF AnswerFresh
  <2>2. /\ e.inputs = d.inputs /\ e.results = d.results /\ e.questions = d.questions
        /\ \A j \in Keys \ {k} : e.answers[j] = d.answers[j]
    <3>1. <<a, q>> \in Agents \X Questions
      BY <1>8
    <3> QED BY <1>8, <3>1, AnsweredShape
  <2> QED BY <2>1, <2>2 DEF Extends, Grows, SpeechForward, ReceiptForward
<1>9. ASSUME NEW k \in Keys, NEW a \in Agents, NEW dl \in Deliveries,
             NEW st \in ReceiptStates,
             AnswerReceiptFresh(d, a, k, dl, st), e = AnswerReceiptBound(d, k, dl, st)
      PROVE  Extends(e, d)
  <2>1. /\ d.answers[k] # None /\ d.answers[k].delivery \in {None, dl}
        /\ \/ d.answers[k].receipt = None
           \/ Rank[d.answers[k].receipt] < Rank[st]
    BY <1>9 DEF AnswerReceiptFresh, AnswersReceipted
  <2>2. /\ e.inputs = d.inputs /\ e.results = d.results /\ e.questions = d.questions
        /\ \A j \in Keys \ {k} : e.answers[j] = d.answers[j]
        /\ e.answers[k] # None
        /\ e.answers[k].run = d.answers[k].run
        /\ e.answers[k].question = d.answers[k].question
        /\ e.answers[k].parent = d.answers[k].parent
        /\ e.answers[k].delivery = dl /\ e.answers[k].receipt = st
    BY <1>9, <2>1, AnswerReceiptBoundShape
  <2> QED BY <2>1, <2>2 DEF Extends, Grows, SpeechForward, ReceiptForward
<1> QED BY <1>1, <1>2, <1>3, <1>4, <1>5, <1>6, <1>7, <1>8, <1>9 DEF Method, Ledgers

LEMMA RecoveredExtends ==
  ASSUME NEW d \in Ledgers
  PROVE  Extends(Recovered(d), d)
BY RecoveredShape, OnlySpeechExtends DEF SpeechForward, SpeechDone
(***************************************************************************)
(* Whatever writes have failed, the file is never behind memory: it holds  *)
(* what memory holds, or one more method whose write reported an error.    *)
(***************************************************************************)
FileAhead == Extends(disk, mem)

THEOREM FileNeverBehind == Spec => []FileAhead
<1>1. Init => FileAhead
  BY EmptyIsLedger, ExtendsReflexive DEF Init, FileAhead
<1>2. TypeOK /\ LedgerConsistent /\ FileAhead /\ [Next]_storeVars => FileAhead'
  <2> SUFFICES ASSUME TypeOK, LedgerConsistent, FileAhead, [Next]_storeVars
               PROVE  Extends(disk', mem')
    BY DEF FileAhead
  <2>1. /\ mem \in Ledgers /\ disk \in Ledgers /\ AnswersReceipted(mem)
        /\ Extends(disk, mem)
    BY DEF TypeOK, LedgerConsistent, Consistent, FileAhead
  <2>2. CASE \E e : Method(mem, e) /\ Written(e)
    <3>1. PICK e : Method(mem, e) /\ Written(e)
      BY <2>2
    <3>2. e \in Ledgers /\ Extends(e, mem) /\ Extends(e, e)
      BY <2>1, <3>1, MethodTyped, MethodExtends, ExtendsReflexive
    <3> QED BY <2>1, <3>1, <3>2 DEF Written
  <2>3. CASE Written(Recovered(disk))
    <3>1. Recovered(disk) \in Ledgers /\ Extends(Recovered(disk), Recovered(disk))
      BY <2>1, RecoveredTyped, ExtendsReflexive
    <3>2. Extends(Recovered(disk), mem)
      BY <2>1, <3>1, RecoveredExtends, ExtendsTransitive
    <3> QED BY <2>1, <2>3, <3>1, <3>2 DEF Written
  <2>4. CASE UNCHANGED <<mem, disk>>
    BY <2>1, <2>4
  <2> QED BY <2>2, <2>3, <2>4, StepShape
<1> QED BY <1>1, <1>2, TypeCorrect, LedgerCorrect, PTL DEF Spec

(***************************************************************************)
(* The ledger the process acts on is append-only across failed writes and  *)
(* restarts: a recovery installs the file, and the file is never behind.   *)
(***************************************************************************)
THEOREM LedgerAppendOnly == Spec => NeverRegresses
<1>1. TypeOK /\ LedgerConsistent /\ FileAhead /\ [Next]_storeVars => [Extends(mem', mem)]_mem
  <2> SUFFICES ASSUME TypeOK, LedgerConsistent, FileAhead, [Next]_storeVars, mem' # mem
               PROVE  Extends(mem', mem)
    OBVIOUS
  <2>1. /\ mem \in Ledgers /\ disk \in Ledgers /\ AnswersReceipted(mem)
        /\ Extends(disk, mem)
    BY DEF TypeOK, LedgerConsistent, Consistent, FileAhead
  <2>2. CASE \E e : Method(mem, e) /\ Written(e)
    BY <2>1, <2>2, MethodExtends DEF Written
  <2>3. CASE Written(Recovered(disk))
    BY <2>1, <2>3, RecoveredTyped, RecoveredExtends, ExtendsTransitive DEF Written
  <2> QED BY <2>2, <2>3, StepShape
<1> QED BY <1>1, TypeCorrect, LedgerCorrect, FileNeverBehind, PTL DEF Spec, NeverRegresses

-----------------------------------------------------------------------------

(***************************************************************************)
(* Speech.  A result whose speech was granted is stored in both copies and *)
(* pending in neither; a grant needs a pending result, so there is at most *)
(* one.  Neither half is inductive without the other.                      *)
(***************************************************************************)
PastPending(d, s) == d.results[s] # None /\ d.results[s].speech # "pending"

GrantRecorded ==
  \A s \in ResultIds :
    \/ granted[s] = 0
    \/ granted[s] = 1 /\ PastPending(mem, s) /\ PastPending(disk, s)

LEMMA PastPendingKept ==
  ASSUME NEW d \in Ledgers, NEW e \in Ledgers, NEW s \in ResultIds,
         Extends(e, d), PastPending(d, s)
  PROVE  PastPending(e, s)
BY DEF Extends, PastPending, SpeechForward, SpeechDone

THEOREM SpeechAtMostOnce == Spec => []SpeechGrantedOnce
<1>1. Init => GrantRecorded
  BY DEF Init, GrantRecorded
<1>2. TypeOK /\ TypeOK' /\ LedgerConsistent /\ FileAhead /\ FileAhead' /\ GrantRecorded
        /\ [Next]_storeVars /\ [Extends(mem', mem)]_mem => GrantRecorded'
  <2> SUFFICES ASSUME TypeOK, TypeOK', FileAhead, FileAhead', GrantRecorded,
                      [Next]_storeVars, [Extends(mem', mem)]_mem,
                      NEW s \in ResultIds
               PROVE  \/ granted'[s] = 0
                      \/ granted'[s] = 1 /\ PastPending(mem', s) /\ PastPending(disk', s)
    BY DEF GrantRecorded
  <2>1. /\ mem \in Ledgers /\ mem' \in Ledgers /\ disk' \in Ledgers
        /\ granted \in [ResultIds -> Nat] /\ Extends(disk', mem')
    BY DEF TypeOK, FileAhead
  <2>2. PastPending(mem, s) => PastPending(mem', s) /\ PastPending(disk', s)
    BY <2>1, PastPendingKept
  <2>3. CASE granted' = granted
    BY <2>2, <2>3 DEF GrantRecorded
  <2>4. CASE granted' # granted
    <3>1. PICK t \in ResultIds : Claim(t)
      BY <2>4 DEF Next, StoreStep, AnswerStep, Reserve, BindReceipt, Stage, Apply, Finish,
                  BindQuestion, ReserveAnswer, BindAnswerReceipt, Write,
                  Expire, Crash, Open, storeVars
    <3>2. CASE s # t
      <4>1. granted'[s] = granted[s]
        BY <2>1, <2>4, <3>1, <3>2 DEF Claim
      <4> QED BY <2>2, <4>1 DEF GrantRecorded
    <3>3. CASE s = t
      <4>1. /\ ClaimFresh(mem, s) /\ ClaimGrants(mem, s, late)
            /\ mem' = Claimed(mem, s, late)
            /\ granted'[s] = granted[s] + 1
        BY <2>1, <2>4, <3>1, <3>3 DEF Claim, Commit
      <4>2. granted[s] = 0
        BY <4>1 DEF GrantRecorded, ClaimFresh, PastPending
      <4>3. PastPending(mem', s)
        BY <2>1, <4>1, ClaimedShape DEF ClaimFresh, OnlySpeech, SameFrames, PastPending
      <4>4. PastPending(disk', s)
        BY <2>1, <4>3, PastPendingKept
      <4> QED BY <4>1, <4>2, <4>3, <4>4
    <3> QED BY <3>2, <3>3
  <2> QED BY <2>3, <2>4
<1>3. GrantRecorded => SpeechGrantedOnce
  BY DEF GrantRecorded, SpeechGrantedOnce, PastPending
<1>4. NeverRegresses <=> [][Extends(mem', mem)]_mem
  BY DEF NeverRegresses
<1> QED BY <1>1, <1>2, <1>3, <1>4, TypeCorrect, LedgerCorrect, FileNeverBehind,
           LedgerAppendOnly, PTL DEF Spec

-----------------------------------------------------------------------------

(***************************************************************************)
(* ResultStore implements ResultOutbox, for every value of the constants.  *)
(*                                                                         *)
(* The outbox sees only the view of one ledger: memory while the process   *)
(* runs, the file while it does not.  Advances(d, e) says that the view    *)
(* of ledger e is one outbox step after that of d, or the same.  A method  *)
(* advances the ledger it works on; and while the process runs the file    *)
(* never is more than one such step ahead of memory, so that a crash,      *)
(* which makes the file the ledger that counts, is one step as well.       *)
(***************************************************************************)

Tracks(d, e) ==
  /\ \E k \in Keys \ TrackedIn(d) : TrackedIn(e) = TrackedIn(d) \cup {k}
  /\ AnswerIn(e) = AnswerIn(d) /\ SpeechIn(e) = SpeechIn(d)

Resolves(d, e) ==
  /\ TrackedIn(e) = TrackedIn(d)
  /\ \E s \in ResultIds, group \in SUBSET Keys :
       /\ SpeechIn(d)[s] = "none"
       /\ group # {} /\ \A k \in group : k \in TrackedIn(d) /\ AnswerIn(d)[k] = None
       /\ AnswerIn(e) = [k \in Keys |-> IF k \in group THEN s ELSE AnswerIn(d)[k]]
       /\ \E sp \in {"queued", "settled"} : SpeechIn(e) = [SpeechIn(d) EXCEPT ![s] = sp]

Speaks(d, e) ==
  /\ TrackedIn(e) = TrackedIn(d) /\ AnswerIn(e) = AnswerIn(d)
  /\ \E s \in ResultIds :
       \/ SpeechIn(d)[s] = "queued" /\ SpeechIn(e) = [SpeechIn(d) EXCEPT ![s] = "granted"]
       \/ SpeechIn(d)[s] = "queued" /\ SpeechIn(e) = [SpeechIn(d) EXCEPT ![s] = "settled"]
       \/ SpeechIn(d)[s] = "granted" /\ SpeechIn(e) = [SpeechIn(d) EXCEPT ![s] = "settled"]

SameView(d, e) ==
  TrackedIn(e) = TrackedIn(d) /\ AnswerIn(e) = AnswerIn(d) /\ SpeechIn(e) = SpeechIn(d)

Advances(d, e) == Tracks(d, e) \/ Resolves(d, e) \/ Speaks(d, e) \/ SameView(d, e)

-----------------------------------------------------------------------------
(* Ledgers that agree on inputs and results are the same to the outbox.    *)

LEMMA SameInputsSameView ==
  ASSUME NEW d, NEW e, e.inputs = d.inputs, e.results = d.results
  PROVE  SameView(d, e)
BY DEF SameView, TrackedIn, AnswerIn, SpeechIn, SpeechStage

(* A method that changes the speech of one result alone. *)
LEMMA OneSpeechView ==
  ASSUME NEW d \in Ledgers, NEW e, NEW s \in ResultIds, OnlySpeech(d, e),
         \A t \in ResultIds \ {s} : e.results[t] = d.results[t]
  PROVE  /\ TrackedIn(e) = TrackedIn(d) /\ AnswerIn(e) = AnswerIn(d)
         /\ SpeechIn(e) = [SpeechIn(d) EXCEPT ![s] = SpeechStage(e, s)]
BY DEF OnlySpeech, TrackedIn, AnswerIn, SpeechIn, SpeechStage

LEMMA ReservedAdvances ==
  ASSUME NEW d \in Ledgers, NEW k \in Keys, NEW a \in Agents, NEW run \in Runs,
         NEW dest \in Destinations, ReserveFresh(d, k, a, run),
         NEW e, e = Reserved(d, k, a, run, dest)
  PROVE  Tracks(d, e)
<1>1. /\ e.results = d.results /\ \A j \in Keys \ {k} : e.inputs[j] = d.inputs[j]
      /\ d.inputs[k] = None /\ e.inputs[k] # None /\ e.inputs[k].result = None
  BY ReservedShape DEF ReserveFresh
<1>2. TrackedIn(e) = TrackedIn(d) \cup {k} /\ k \in Keys \ TrackedIn(d)
  BY <1>1 DEF TrackedIn
<1>3. AnswerIn(e) = AnswerIn(d)
  BY <1>1 DEF AnswerIn
<1>4. SpeechIn(e) = SpeechIn(d)
  BY <1>1 DEF SpeechIn, SpeechStage
<1> QED BY <1>2, <1>3, <1>4 DEF Tracks

LEMMA ReceiptBoundAdvances ==
  ASSUME NEW d \in Ledgers, NEW k \in Keys, NEW dl \in Deliveries, d.inputs[k] # None,
         NEW e, e = ReceiptBound(d, k, dl)
  PROVE  SameView(d, e)
<1>1. /\ e.results = d.results /\ \A j \in Keys \ {k} : e.inputs[j] = d.inputs[j]
      /\ e.inputs[k] # None /\ e.inputs[k].result = d.inputs[k].result
  BY ReceiptBoundShape
<1>2. TrackedIn(e) = TrackedIn(d)
  BY <1>1 DEF TrackedIn
<1>3. AnswerIn(e) = AnswerIn(d)
  BY <1>1 DEF AnswerIn
<1>4. SpeechIn(e) = SpeechIn(d)
  BY <1>1 DEF SpeechIn, SpeechStage
<1> QED BY <1>2, <1>3, <1>4 DEF SameView

LEMMA AppliedAdvances ==
  ASSUME NEW d \in Ledgers, NEW s \in ResultIds, NEW f \in Frames, NEW l,
         ApplyFresh(d, s, f), NEW e, e = Applied(d, s, f, l)
  PROVE  Resolves(d, e)
<1>1. /\ \A t \in ResultIds \ {s} : e.results[t] = d.results[t]
      /\ d.results[s] = None /\ e.results[s] # None
      /\ e.results[s].speech \in {"pending", "suppressed"}
  BY AppliedShape DEF ApplyFresh
<1>2. /\ \A j \in Keys \ Members(f) : e.inputs[j] = d.inputs[j]
      /\ \A j \in Members(f) : /\ d.inputs[j] # None /\ d.inputs[j].result = None
                               /\ e.inputs[j] # None /\ e.inputs[j].result = s
  BY AppliedShape DEF ApplyFresh, MemberReady
<1>3. Members(f) \in SUBSET Keys /\ Members(f) # {}
  BY FramesAssumption DEF FrameOK
<1>4. TrackedIn(e) = TrackedIn(d)
  BY <1>2, <1>3 DEF TrackedIn
<1>5. AnswerIn(e) = [k \in Keys |-> IF k \in Members(f) THEN s ELSE AnswerIn(d)[k]]
  BY <1>2, <1>3 DEF AnswerIn
<1>6. \A k \in Members(f) : k \in TrackedIn(d) /\ AnswerIn(d)[k] = None
  BY <1>2, <1>3 DEF TrackedIn, AnswerIn
<1>7. SpeechIn(d)[s] = "none"
  BY <1>1 DEF SpeechIn, SpeechStage
<1>8. SpeechIn(e) = [SpeechIn(d) EXCEPT ![s] = SpeechStage(e, s)]
  BY <1>1 DEF SpeechIn, SpeechStage
<1>9. SpeechStage(e, s) \in {"queued", "settled"}
  BY <1>1 DEF SpeechStage
<1> QED BY <1>3, <1>4, <1>5, <1>6, <1>7, <1>8, <1>9 DEF Resolves

LEMMA ClaimedAdvances ==
  ASSUME NEW d \in Ledgers, NEW s \in ResultIds, NEW l, ClaimFresh(d, s),
         NEW e, e = Claimed(d, s, l)
  PROVE  Speaks(d, e)
<1>1. /\ OnlySpeech(d, e) /\ \A t \in ResultIds \ {s} : e.results[t] = d.results[t]
      /\ e.results[s].speech \in {"claimed", "suppressed"}
  BY ClaimedShape
<1>2. d.results[s] # None /\ d.results[s].speech = "pending" /\ e.results[s] # None
  BY <1>1 DEF ClaimFresh, OnlySpeech, SameFrames
<1>3. SpeechIn(d)[s] = "queued"
  BY <1>2 DEF SpeechIn, SpeechStage
<1>4. SpeechStage(e, s) \in {"granted", "settled"}
  BY <1>1, <1>2 DEF SpeechStage
<1> QED BY <1>1, <1>3, <1>4, OneSpeechView DEF Speaks

LEMMA FinishedAdvances ==
  ASSUME NEW d \in Ledgers, NEW s \in ResultIds, NEW st \in SpeechDone, FinishFresh(d, s),
         NEW e, e = Finished(d, s, st)
  PROVE  Speaks(d, e)
<1>1. /\ OnlySpeech(d, e) /\ \A t \in ResultIds \ {s} : e.results[t] = d.results[t]
      /\ e.results[s].speech = st
  BY FinishedShape
<1>2. d.results[s] # None /\ d.results[s].speech = "claimed" /\ e.results[s] # None
  BY <1>1 DEF FinishFresh, OnlySpeech, SameFrames
<1>3. SpeechIn(d)[s] = "granted"
  BY <1>2 DEF SpeechIn, SpeechStage
<1>4. SpeechStage(e, s) = "settled"
  BY <1>1, <1>2 DEF SpeechStage, SpeechDone
<1> QED BY <1>1, <1>3, <1>4, OneSpeechView DEF Speaks

(* Every method of the store is one step of the outbox, or none.           *)
LEMMA MethodAdvances ==
  ASSUME NEW d \in Ledgers, NEW e, Method(d, e)
  PROVE  Advances(d, e)
<1>1. ASSUME NEW k \in Keys, NEW a \in Agents, NEW run \in Runs, NEW dest \in Destinations,
             ReserveFresh(d, k, a, run), e = Reserved(d, k, a, run, dest)
      PROVE  Advances(d, e)
  BY <1>1, ReservedAdvances DEF Advances
<1>2. ASSUME NEW k \in Keys, NEW a \in Agents, NEW dl \in Deliveries,
             ReceiptFresh(d, a, k, dl), e = ReceiptBound(d, k, dl)
      PROVE  Advances(d, e)
  BY <1>2, ReceiptBoundAdvances DEF Advances, ReceiptFresh
<1>3. ASSUME NEW s \in ResultIds, NEW f \in Frames, e = Staged(d, s, f)
      PROVE  Advances(d, e)
  BY <1>3, StagedShape, SameInputsSameView DEF Advances
<1>4. ASSUME NEW s \in ResultIds, d.staged[s] # None, ApplyFresh(d, s, d.staged[s]),
             e = Applied(d, s, d.staged[s], late)
      PROVE  Advances(d, e)
  <2>1. d.staged[s] \in Frames
    BY <1>4 DEF Ledgers
  <2> QED BY <1>4, <2>1, AppliedAdvances DEF Advances
<1>5. ASSUME NEW s \in ResultIds, ClaimFresh(d, s), e = Claimed(d, s, late)
      PROVE  Advances(d, e)
  BY <1>5, ClaimedAdvances DEF Advances
<1>6. ASSUME NEW s \in ResultIds, NEW st \in SpeechDone,
             FinishFresh(d, s), e = Finished(d, s, st)
      PROVE  Advances(d, e)
  BY <1>6, FinishedAdvances DEF Advances
<1>7. ASSUME NEW a \in Agents, NEW q \in Questions, NEW k \in Keys,
             e = QuestionBound(d, a, q, k)
      PROVE  Advances(d, e)
  <2>1. e.inputs = d.inputs /\ e.results = d.results
    BY <1>7 DEF QuestionBound, Ledgers
  <2> QED BY <2>1, SameInputsSameView DEF Advances
<1>8. ASSUME NEW k \in Keys, NEW a \in Agents, NEW run \in Runs, NEW dest \in Destinations,
             NEW q \in Questions, e = Answered(d, k, a, run, dest, q)
      PROVE  Advances(d, e)
  <2>1. e.inputs = d.inputs /\ e.results = d.results
    BY <1>8 DEF Answered, Ledgers
  <2> QED BY <2>1, SameInputsSameView DEF Advances
<1>9. ASSUME NEW k \in Keys, NEW a \in Agents, NEW dl \in Deliveries,
             NEW st \in ReceiptStates,
             AnswerReceiptFresh(d, a, k, dl, st), e = AnswerReceiptBound(d, k, dl, st)
      PROVE  Advances(d, e)
  BY <1>9, AnswerReceiptBoundShape, SameInputsSameView DEF Advances, AnswerReceiptFresh
<1> QED BY <1>1, <1>2, <1>3, <1>4, <1>5, <1>6, <1>7, <1>8, <1>9 DEF Method

-----------------------------------------------------------------------------

(* What a step does to the two copies and to the process. *)
LEMMA ProcessStep ==
  ASSUME TypeOK, [Next]_storeVars
  PROVE  \/ open /\ open' /\ \E e : Method(mem, e) /\ Written(e)
         \/ open /\ ~open' /\ UNCHANGED <<mem, disk>>
         \/ /\ ~open /\ disk' \in {disk, Recovered(disk)}
            /\ open' => mem' = disk' /\ disk' = Recovered(disk)
         \/ UNCHANGED <<mem, disk, open>>
<1>1. CASE StoreStep
  BY <1>1 DEF TypeOK, StoreStep, Reserve, BindReceipt, Stage, Apply, Claim, Finish,
              Write, Commit, CommitFails, Method, Written
<1>2. CASE AnswerStep
  BY <1>2 DEF TypeOK, AnswerStep, BindQuestion, ReserveAnswer, BindAnswerReceipt,
              Write, Commit, CommitFails, Method, Written
<1>3. CASE \E k \in Keys : Expire(k)
  BY <1>3 DEF Expire
<1>4. CASE Crash
  BY <1>4 DEF Crash
<1>5. CASE Open
  BY <1>5 DEF Open, CommitFails
<1>6. CASE UNCHANGED storeVars
  BY <1>6 DEF storeVars
<1> QED BY <1>1, <1>2, <1>3, <1>4, <1>5, <1>6 DEF Next

(***************************************************************************)
(* While the process runs, the file is at most one step of the outbox      *)
(* ahead of memory: the last write that reported an error may be in it,    *)
(* and the next method starts from memory again.                           *)
(***************************************************************************)
FileOneStepAhead == open => Advances(mem, disk)

THEOREM FileWithinOneStep == Spec => []FileOneStepAhead
<1>1. Init => FileOneStepAhead
  BY DEF Init, FileOneStepAhead, Advances, SameView
<1>2. TypeOK /\ FileOneStepAhead /\ [Next]_storeVars => FileOneStepAhead'
  <2> SUFFICES ASSUME TypeOK, FileOneStepAhead, [Next]_storeVars, open'
               PROVE  Advances(mem', disk')
    BY DEF FileOneStepAhead
  <2>1. \A d : Advances(d, d)
    BY DEF Advances, SameView
  <2>2. CASE open /\ \E e : Method(mem, e) /\ Written(e)
    BY <2>1, <2>2, MethodAdvances DEF FileOneStepAhead, Written, TypeOK
  <2>3. CASE ~open /\ mem' = disk'
    BY <2>1, <2>3
  <2>4. CASE UNCHANGED <<mem, disk, open>>
    BY <2>4 DEF FileOneStepAhead
  <2> QED BY <2>2, <2>3, <2>4, ProcessStep
<1> QED BY <1>1, <1>2, TypeCorrect, PTL DEF Spec

-----------------------------------------------------------------------------

(* The outbox, seen through the ledger that counts. *)
LEMMA AdvancesIsStep ==
  ASSUME Advances(Current, Current')
  PROVE  [Outbox!Next]_<<TrackedIn(Current), AnswerIn(Current), SpeechIn(Current)>>
<1>1. CASE Tracks(Current, Current')
  BY <1>1 DEF Tracks, Outbox!Next, Outbox!Track
<1>2. CASE Resolves(Current, Current')
  BY <1>2 DEF Resolves, Outbox!Next, Outbox!Resolve
<1>3. CASE Speaks(Current, Current')
  BY <1>3 DEF Speaks, Outbox!Next, Outbox!Grant, Outbox!Withdraw, Outbox!Settle, Outbox!Move
<1>4. CASE SameView(Current, Current')
  BY <1>4 DEF SameView
<1> QED BY <1>1, <1>2, <1>3, <1>4 DEF Advances

(* Reopening settles the grants whose holder is gone. *)
LEMMA RecoveredView ==
  ASSUME NEW d \in Ledgers, NEW e, e = Recovered(d)
  PROVE  /\ TrackedIn(e) = TrackedIn(d) /\ AnswerIn(e) = AnswerIn(d)
         /\ SpeechIn(e) = [s \in ResultIds |-> IF SpeechIn(d)[s] = "granted" THEN "settled"
                                               ELSE SpeechIn(d)[s]]
<1>1. OnlySpeech(d, e)
  BY RecoveredShape
<1>2. TrackedIn(e) = TrackedIn(d) /\ AnswerIn(e) = AnswerIn(d)
  BY <1>1 DEF OnlySpeech, TrackedIn, AnswerIn
<1>3. ASSUME NEW s \in ResultIds
      PROVE  SpeechStage(e, s) = IF SpeechStage(d, s) = "granted" THEN "settled"
                                 ELSE SpeechStage(d, s)
  <2>1. CASE d.results[s] = None
    BY <1>1, <2>1 DEF OnlySpeech, SameFrames, SpeechStage
  <2>2. CASE d.results[s] # None
    <3>1. /\ e.results[s] # None
          /\ e.results[s].speech = IF d.results[s].speech = "claimed" THEN "uncertain"
                                   ELSE d.results[s].speech
      BY <1>1, <2>2, RecoveredShape DEF OnlySpeech, SameFrames
    <3> QED BY <2>2, <3>1 DEF SpeechStage
  <2> QED BY <2>1, <2>2
<1> QED BY <1>2, <1>3 DEF SpeechIn

(***************************************************************************)
(* The store implements the outbox: no step of it, no failed write, crash  *)
(* or recovery, does to the tasks and to speech what the outbox forbids.   *)
(***************************************************************************)
THEOREM StoreImplementsOutbox == Spec => ImplementsOutbox
<1>1. Init => Outbox!Init
  BY DEF Init, Current, EmptyLedger, TrackedIn, AnswerIn, SpeechIn, SpeechStage, Outbox!Init
<1>2. TypeOK /\ FileOneStepAhead /\ [Next]_storeVars
        => [Outbox!Next]_<<TrackedIn(Current), AnswerIn(Current), SpeechIn(Current)>>
  <2> SUFFICES ASSUME TypeOK, FileOneStepAhead, [Next]_storeVars
               PROVE  [Outbox!Next]_<<TrackedIn(Current), AnswerIn(Current), SpeechIn(Current)>>
    OBVIOUS
  <2>1. CASE open /\ open' /\ \E e : Method(mem, e) /\ Written(e)
    <3>1. Advances(mem, mem')
      BY <2>1, MethodAdvances DEF Written, TypeOK, Advances, SameView
    <3> QED BY <2>1, <3>1, AdvancesIsStep DEF Current
  <2>2. CASE open /\ ~open' /\ UNCHANGED <<mem, disk>>
    BY <2>2, AdvancesIsStep DEF FileOneStepAhead, Current
  <2>3. CASE /\ ~open /\ disk' \in {disk, Recovered(disk)}
             /\ open' => mem' = disk' /\ disk' = Recovered(disk)
    <3>1. Current = disk /\ Current' = disk'
      BY <2>3 DEF Current
    <3>2. CASE disk' = disk
      BY <3>1, <3>2, AdvancesIsStep DEF Advances, SameView
    <3>3. CASE disk' = Recovered(disk)
      BY <3>1, <3>3, RecoveredView DEF TypeOK, Outbox!Next, Outbox!Restart
    <3> QED BY <2>3, <3>2, <3>3
  <2>4. CASE UNCHANGED <<mem, disk, open>>
    BY <2>4, AdvancesIsStep DEF Current, Advances, SameView
  <2> QED BY <2>1, <2>2, <2>3, <2>4, ProcessStep
<1> QED BY <1>1, <1>2, TypeCorrect, FileWithinOneStep, PTL
        DEF Spec, ImplementsOutbox, Outbox!Spec

=============================================================================
