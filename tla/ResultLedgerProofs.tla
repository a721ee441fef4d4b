------------------------- MODULE ResultLedgerProofs -------------------------
(***************************************************************************)
(* What the operators of ResultLedger do to a ledger, for ResultStore and  *)
(* HarnessDelivery alike.                                                  *)
(***************************************************************************)
EXTENDS ResultLedger, TLAPS

-----------------------------------------------------------------------------

(* The operators of ResultLedger map ledgers to ledgers. *)

LEMMA EmptyIsLedger == EmptyLedger \in Ledgers
BY DEF EmptyLedger, Ledgers

LEMMA ReservedTyped ==
  ASSUME NEW d \in Ledgers, NEW k \in Keys, NEW a \in Agents, NEW run \in Runs,
         NEW dest \in Destinations
  PROVE  Reserved(d, k, a, run, dest) \in Ledgers
BY DEF Reserved, Ledgers, Input

LEMMA ReceiptBoundTyped ==
  ASSUME NEW d \in Ledgers, NEW k \in Keys, NEW dl \in Deliveries, d.inputs[k] # None
  PROVE  ReceiptBound(d, k, dl) \in Ledgers
BY DEF ReceiptBound, Ledgers, Input

LEMMA StagedTyped ==
  ASSUME NEW d \in Ledgers, NEW s \in ResultIds, NEW f \in Frames
  PROVE  Staged(d, s, f) \in Ledgers
BY DEF Staged, Ledgers

LEMMA AppliedTyped ==
  ASSUME NEW d \in Ledgers, NEW s \in ResultIds, NEW f \in Frames, NEW l,
         ApplyFresh(d, s, f)
  PROVE  Applied(d, s, f, l) \in Ledgers
<1>1. \A k \in Members(f) \cap Keys : d.inputs[k] \in Input
  BY DEF ApplyFresh, MemberReady, Ledgers
<1>2. \A k \in Members(f) \cap Keys : [d.inputs[k] EXCEPT !.result = s] \in Input
  BY <1>1 DEF Input
<1>3. [k \in Keys |-> IF k \in Members(f) THEN [d.inputs[k] EXCEPT !.result = s]
                      ELSE d.inputs[k]] \in [Keys -> Input \cup {None}]
  BY <1>2 DEF Ledgers
<1>4. [frame |-> f, speech |-> IF Speakable(d, f, l) THEN "pending" ELSE "suppressed"]
        \in Record
  BY DEF Record, SpeechStates
<1> QED BY <1>3, <1>4 DEF Applied, Ledgers

LEMMA ClaimedTyped ==
  ASSUME NEW d \in Ledgers, NEW s \in ResultIds, NEW l, ClaimFresh(d, s)
  PROVE  Claimed(d, s, l) \in Ledgers
BY DEF Claimed, ClaimFresh, Ledgers, Record, SpeechStates

LEMMA FinishedTyped ==
  ASSUME NEW d \in Ledgers, NEW s \in ResultIds, NEW st \in SpeechDone, FinishFresh(d, s)
  PROVE  Finished(d, s, st) \in Ledgers
BY DEF Finished, FinishFresh, Ledgers, Record, SpeechStates, SpeechDone

LEMMA QuestionBoundTyped ==
  ASSUME NEW d \in Ledgers, NEW a \in Agents, NEW q \in Questions, NEW k \in Keys
  PROVE  QuestionBound(d, a, q, k) \in Ledgers
BY DEF QuestionBound, Ledgers

LEMMA AnsweredTyped ==
  ASSUME NEW d \in Ledgers, NEW k \in Keys, NEW a \in Agents, NEW run \in Runs,
         NEW dest \in Destinations, NEW q \in Questions
  PROVE  Answered(d, k, a, run, dest, q) \in Ledgers
BY DEF Answered, Ledgers, Answer

LEMMA AnswerReceiptBoundTyped ==
  ASSUME NEW d \in Ledgers, NEW k \in Keys, NEW dl \in Deliveries,
         NEW st \in ReceiptStates, d.answers[k] # None
  PROVE  AnswerReceiptBound(d, k, dl, st) \in Ledgers
<1>1. d.answers[k] \in Answer
  BY DEF Ledgers
<1>2. [d.answers[k] EXCEPT !.delivery = dl, !.receipt = st] \in Answer
  BY <1>1 DEF Answer
<1>3. AnswerReceiptBound(d, k, dl, st) =
        [d EXCEPT !.answers[k] = [d.answers[k] EXCEPT !.delivery = dl, !.receipt = st]]
  BY DEF AnswerReceiptBound, Ledgers, Answer
<1> QED BY <1>2, <1>3 DEF Ledgers

LEMMA RecoveredTyped ==
  ASSUME NEW d \in Ledgers
  PROVE  Recovered(d) \in Ledgers
<1>1. \A s \in ResultIds : d.results[s] # None =>
        [d.results[s] EXCEPT !.speech = "uncertain"] \in Record
  BY DEF Ledgers, Record, SpeechStates
<1>2. [s \in ResultIds |-> IF d.results[s] # None /\ d.results[s].speech = "claimed"
                           THEN [d.results[s] EXCEPT !.speech = "uncertain"]
                           ELSE d.results[s]] \in [ResultIds -> Record \cup {None}]
  BY <1>1 DEF Ledgers
<1> QED BY <1>2 DEF Recovered, Ledgers

-----------------------------------------------------------------------------

(***************************************************************************)
(* Keeps(d, e): ledger e remembers every task of d with its run and its    *)
(* listener, every result with its frame, and what was staged, at least as *)
(* a result.                                                               *)
(***************************************************************************)
Keeps(d, e) ==
  /\ \A k \in Keys : d.inputs[k] # None =>
       /\ e.inputs[k] # None
       /\ e.inputs[k].run = d.inputs[k].run /\ e.inputs[k].dest = d.inputs[k].dest
  /\ \A s \in ResultIds : d.results[s] # None =>
       e.results[s] # None /\ e.results[s].frame = d.results[s].frame
  /\ \A s \in ResultIds : d.staged[s] # None => e.staged[s] # None \/ e.results[s] # None

LEMMA ReservedKeeps ==
  ASSUME NEW d \in Ledgers, NEW k \in Keys, NEW a \in Agents, NEW run \in Runs,
         NEW dest \in Destinations, d.inputs[k] = None
  PROVE  Keeps(d, Reserved(d, k, a, run, dest))
BY DEF Reserved, Ledgers, Keeps

LEMMA ReceiptBoundKeeps ==
  ASSUME NEW d \in Ledgers, NEW k \in Keys, NEW dl \in Deliveries, d.inputs[k] # None
  PROVE  Keeps(d, ReceiptBound(d, k, dl))
BY NoneAssumption, ReceiptBoundTyped DEF ReceiptBound, Ledgers, Input, Keeps

LEMMA StagedKeeps ==
  ASSUME NEW d \in Ledgers, NEW s \in ResultIds, NEW f \in Frames
  PROVE  Keeps(d, Staged(d, s, f))
BY NoneAssumption DEF Staged, Ledgers, Keeps

LEMMA AppliedKeeps ==
  ASSUME NEW d \in Ledgers, NEW s \in ResultIds, NEW f \in Frames, NEW l,
         ApplyFresh(d, s, f)
  PROVE  Keeps(d, Applied(d, s, f, l))
<1> DEFINE e == Applied(d, s, f, l)
<1>1. e \in Ledgers
  BY AppliedTyped
<1>2. \A k \in Keys : d.inputs[k] # None =>
        /\ e.inputs[k] # None
        /\ e.inputs[k].run = d.inputs[k].run /\ e.inputs[k].dest = d.inputs[k].dest
  <2> SUFFICES ASSUME NEW k \in Keys, d.inputs[k] # None
      PROVE /\ e.inputs[k] # None
            /\ e.inputs[k].run = d.inputs[k].run /\ e.inputs[k].dest = d.inputs[k].dest
    OBVIOUS
  <2>1. d.inputs[k] \in Input
    BY DEF Ledgers
  <2>2. e.inputs[k] \in {d.inputs[k], [d.inputs[k] EXCEPT !.result = s]}
    BY DEF Applied, Ledgers
  <2> QED BY <2>1, <2>2, NoneAssumption DEF Input
<1>3. e.results[s] \in Record /\ \A t \in ResultIds \ {s} : e.results[t] = d.results[t]
  BY DEF Applied, Ledgers, Record, SpeechStates
<1>4. \A t \in ResultIds \ {s} : e.staged[t] = d.staged[t]
  BY DEF Applied, Ledgers
<1> QED BY <1>2, <1>3, <1>4, NoneAssumption DEF Keeps, ApplyFresh

(* A ledger in which nothing but the speech of results changed.            *)
LEMMA SpeechKeeps ==
  ASSUME NEW d \in Ledgers, NEW e \in Ledgers, e.inputs = d.inputs, e.staged = d.staged,
         \A s \in ResultIds :
           \/ e.results[s] = d.results[s]
           \/ /\ d.results[s] # None
              /\ \E sp \in SpeechStates : e.results[s] = [d.results[s] EXCEPT !.speech = sp]
  PROVE  Keeps(d, e)
<1>1. ASSUME NEW s \in ResultIds, d.results[s] # None
      PROVE  e.results[s] # None /\ e.results[s].frame = d.results[s].frame
  <2>1. d.results[s] \in Record /\ e.results[s] \in Record \cup {None}
    BY <1>1 DEF Ledgers
  <2>2. ASSUME NEW sp \in SpeechStates
        PROVE  /\ [d.results[s] EXCEPT !.speech = sp] \in Record
               /\ [d.results[s] EXCEPT !.speech = sp].frame = d.results[s].frame
    BY <2>1 DEF Record
  <2> QED BY <1>1, <2>1, <2>2, NoneAssumption
<1> QED BY <1>1 DEF Keeps

LEMMA ClaimedKeeps ==
  ASSUME NEW d \in Ledgers, NEW s \in ResultIds, NEW l, ClaimFresh(d, s)
  PROVE  Keeps(d, Claimed(d, s, l))
<1> DEFINE e == Claimed(d, s, l)
<1>1. e \in Ledgers /\ e.inputs = d.inputs /\ e.staged = d.staged
  BY ClaimedTyped DEF Claimed, Ledgers
<1>2. \E sp \in SpeechStates : e.results[s] = [d.results[s] EXCEPT !.speech = sp]
  BY DEF Claimed, Ledgers, SpeechStates
<1>3. \A t \in ResultIds \ {s} : e.results[t] = d.results[t]
  BY DEF Claimed, Ledgers
<1>4. d.results[s] # None
  BY DEF ClaimFresh
<1> HIDE DEF e
<1>5. \A t \in ResultIds :
        \/ e.results[t] = d.results[t]
        \/ /\ d.results[t] # None
           /\ \E sp \in SpeechStates : e.results[t] = [d.results[t] EXCEPT !.speech = sp]
  BY <1>2, <1>3, <1>4
<1>6. Keeps(d, e)
  BY <1>1, <1>5, SpeechKeeps
<1> QED BY <1>6 DEF e

LEMMA FinishedKeeps ==
  ASSUME NEW d \in Ledgers, NEW s \in ResultIds, NEW st \in SpeechDone, FinishFresh(d, s)
  PROVE  Keeps(d, Finished(d, s, st))
<1> DEFINE e == Finished(d, s, st)
<1>1. e \in Ledgers /\ e.inputs = d.inputs /\ e.staged = d.staged
  BY FinishedTyped DEF Finished, Ledgers
<1>2. \E sp \in SpeechStates : e.results[s] = [d.results[s] EXCEPT !.speech = sp]
  BY DEF Finished, Ledgers, SpeechStates, SpeechDone
<1>3. \A t \in ResultIds \ {s} : e.results[t] = d.results[t]
  BY DEF Finished, Ledgers
<1>4. d.results[s] # None
  BY DEF FinishFresh
<1> HIDE DEF e
<1>5. \A t \in ResultIds :
        \/ e.results[t] = d.results[t]
        \/ /\ d.results[t] # None
           /\ \E sp \in SpeechStates : e.results[t] = [d.results[t] EXCEPT !.speech = sp]
  BY <1>2, <1>3, <1>4
<1>6. Keeps(d, e)
  BY <1>1, <1>5, SpeechKeeps
<1> QED BY <1>6 DEF e

LEMMA RecoveredKeeps ==
  ASSUME NEW d \in Ledgers
  PROVE  Keeps(d, Recovered(d))
<1> DEFINE e == Recovered(d)
<1>1. e \in Ledgers /\ e.inputs = d.inputs /\ e.staged = d.staged
  BY RecoveredTyped DEF Recovered, Ledgers
<1>2. \A s \in ResultIds :
        \/ e.results[s] = d.results[s]
        \/ /\ d.results[s] # None
           /\ \E sp \in SpeechStates : e.results[s] = [d.results[s] EXCEPT !.speech = sp]
  BY DEF Recovered, Ledgers, SpeechStates
<1> QED BY <1>1, <1>2, SpeechKeeps

=============================================================================
