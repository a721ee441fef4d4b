------------------------- MODULE SpeechQueueProofs -------------------------
(***************************************************************************)
(* The speech queue, for any calls of any kind and class in any mode: one  *)
(* voice at a time, a call queued or taken out once, the turns in order.   *)
(*                                                                         *)
(* OneVoice is inductive once every step is seen as one of four: it takes  *)
(* a free speaker, it gives it back, it moves a call without changing      *)
(* whether that call has the speaker, or it touches neither.  The types    *)
(* need to know how far a queued call has got, and what is left of a queue *)
(* when a part of it is dropped (KeptIsQueued).  The order of the turns    *)
(* rests on both: who is admitted with a number holds the request lock and *)
(* is the latest, and the queue holds one turn, which is the latest unless *)
(* a preemption is under way.                                              *)
(***************************************************************************)
EXTENDS SpeechQueue, WellFoundedInduction, SequenceTheorems, TLAPS

Speaking == Playing \cup {"claim"}

VoiceInv == DOMAIN pc = Requests /\ lock \in BOOLEAN /\ OneVoice

Takes(r) ==
  ~lock /\ lock' = TRUE /\ \E at \in Speaking : Goto(r, at)

GivesBack(r) ==
  pc[r] \in Speaking /\ lock' = FALSE /\ \E at : at \notin Speaking /\ Goto(r, at)

Moves(r) ==
  lock' = lock /\ \E at : (at \in Speaking <=> pc[r] \in Speaking) /\ Goto(r, at)

LEMMA TakesKeeps ==
  ASSUME VoiceInv, NEW r \in Requests, Takes(r)
  PROVE  VoiceInv'
<1>1. PICK at \in Speaking : pc' = [pc EXCEPT ![r] = at]
  BY DEF Takes, Goto
<1>2. \A s \in Requests : pc[s] \notin Speaking
  BY DEF VoiceInv, OneVoice, Takes, Speaking
<1>3. \A s \in Requests : pc'[s] \in Speaking <=> s = r
  BY <1>1, <1>2 DEF VoiceInv
<1> QED BY <1>1, <1>3 DEF VoiceInv, OneVoice, Takes, Speaking

LEMMA GivesBackKeeps ==
  ASSUME VoiceInv, NEW r \in Requests, GivesBack(r)
  PROVE  VoiceInv'
<1>1. PICK at : at \notin Speaking /\ pc' = [pc EXCEPT ![r] = at]
  BY DEF GivesBack, Goto
<1>2. \A s \in Requests : pc[s] \in Speaking => s = r
  BY DEF VoiceInv, OneVoice, GivesBack, Speaking
<1>3. \A s \in Requests : pc'[s] \notin Speaking
  BY <1>1, <1>2 DEF VoiceInv
<1> QED BY <1>1, <1>3 DEF VoiceInv, OneVoice, GivesBack, Speaking

LEMMA MovesKeeps ==
  ASSUME VoiceInv, NEW r \in Requests, Moves(r)
  PROVE  VoiceInv'
<1>1. PICK at : (at \in Speaking <=> pc[r] \in Speaking) /\ pc' = [pc EXCEPT ![r] = at]
  BY DEF Moves, Goto
<1>2. \A s \in Requests : pc'[s] \in Speaking <=> pc[s] \in Speaking
  BY <1>1 DEF VoiceInv
<1>3. {s \in Requests : pc'[s] \in Speaking} = {s \in Requests : pc[s] \in Speaking}
  BY <1>2
<1> QED BY <1>1, <1>3 DEF VoiceInv, OneVoice, Moves, Speaking

-----------------------------------------------------------------------------
(* A call asks: it takes the speaker, is refused it, or moves on.          *)
LEMMA AskShape ==
  ASSUME VoiceInv, NEW r \in Requests, Ask(r)
  PROVE  Takes(r) \/ GivesBack(r) \/ Moves(r)
<1> USE DEF Speaking, Playing, Goto, Takes, GivesBack, Moves
<1>1. CASE Arrive(r)
  BY <1>1 DEF Arrive, speaker
<1>2. CASE Admit(r)
  BY <1>2 DEF Admit, speaker
<1>3. CASE Preempt(r)
  BY <1>3 DEF Preempt
<1>4. CASE ClearAfterStop(r)
  BY <1>4 DEF ClearAfterStop
<1>5. CASE Take(r)
  BY <1>5 DEF Take, Begin, Leave, speaker
<1>6. CASE GiveUp(r)
  BY <1>6 DEF GiveUp, Leave, speaker
<1>7. CASE AppendItem(r)
  BY <1>7 DEF AppendItem, Leave
<1>8. CASE TryLock(r)
  BY <1>8 DEF TryLock, VoiceInv
<1>9. CASE Busy(r)
  BY <1>9 DEF Busy, Leave
<1>10. CASE WaitLock(r)
  BY <1>10 DEF WaitLock
<1>11. CASE ClaimRefused(r)
  BY <1>11 DEF ClaimRefused, Leave
<1>12. CASE Claim(r)
  BY <1>12 DEF Claim, Begin, Leave
<1> QED BY <1>1, <1>2, <1>3, <1>4, <1>5, <1>6, <1>7, <1>8, <1>9, <1>10, <1>11, <1>12 DEF
           Ask

(* A worker plays: it keeps the speaker until it releases it.              *)
LEMMA PlayShape ==
  ASSUME VoiceInv, NEW r \in Requests, Play(r) \/ StreamFails(r)
  PROVE  GivesBack(r) \/ Moves(r)
<1> USE DEF Speaking, Playing, Goto, GivesBack, Moves
<1>1. CASE HeadEnds(r)
  BY <1>1 DEF HeadEnds, speaker
<1>2. CASE DrainLooks(r)
  BY <1>2 DEF DrainLooks, speaker
<1>3. CASE DrainPops(r)
  BY <1>3 DEF DrainPops
<1>4. CASE FirstFrame(r)
  BY <1>4 DEF FirstFrame
<1>5. CASE NoFrame(r)
  BY <1>5 DEF NoFrame, speaker
<1>6. CASE SegmentEnds(r)
  BY <1>6 DEF SegmentEnds, speaker
<1>7. CASE Finish(r)
  BY <1>7 DEF Finish
<1>8. CASE Release(r)
  BY <1>8 DEF Release
<1>9. CASE LeaveNative(r)
  BY <1>9 DEF LeaveNative
<1>10. CASE StreamFails(r)
  BY <1>10 DEF StreamFails, speaker
<1> QED BY <1>1, <1>2, <1>3, <1>4, <1>5, <1>6, <1>7, <1>8, <1>9, <1>10 DEF Play

LEMMA VoiceInvInit == Init => VoiceInv
BY DEF Init, VoiceInv, OneVoice, Playing

LEMMA VoiceInvStep == VoiceInv /\ [Next]_vars => VoiceInv'
<1> SUFFICES ASSUME VoiceInv, [Next]_vars
             PROVE  VoiceInv'
  OBVIOUS
<1>1. CASE \E r \in Requests : Ask(r) \/ Play(r) \/ StreamFails(r)
  <2>1. PICK r \in Requests : Ask(r) \/ Play(r) \/ StreamFails(r)
    BY <1>1
  <2>2. Takes(r) \/ GivesBack(r) \/ Moves(r)
    BY <2>1, AskShape, PlayShape
  <2> QED BY <2>2, TakesKeeps, GivesBackKeeps, MovesKeeps
<1>2. CASE UNCHANGED <<lock, pc>>
  BY <1>2 DEF VoiceInv, OneVoice
<1>3. CASE Hush \/ AskStop \/ Stop \/ StopLiveOutput \/ RejectReply \/ BeginCapture
           \/ EndCapture
  BY <1>2, <1>3 DEF Hush, AskStop, Stop, StopLiveOutput, RejectReply, BeginCapture,
                    EndCapture, speaker
<1>4. CASE UNCHANGED vars
  BY <1>2, <1>4 DEF vars, speaker
<1> QED BY <1>1, <1>3, <1>4 DEF Next

(* At most one worker plays, and the speaker's lock is held exactly while  *)
(* one does (_claim_speech, _release_or_drain_live_queue), through stops,  *)
(* failed streams and the hand-over to the queue.                          *)
THEOREM OneVoiceAlways == Spec => []OneVoice
<1>1. VoiceInv => OneVoice
  BY DEF VoiceInv
<1> QED BY <1>1, VoiceInvInit, VoiceInvStep, PTL DEF Spec
-----------------------------------------------------------------------------
(* Induction over numbers, for a set: one that is not empty has a least one. *)
LEMMA LeastNumber ==
  ASSUME NEW T, T \subseteq Nat, T # {}
  PROVE  \E n \in T : \A m \in T : ~(m < n)
<1>1. PICK n \in T : \A m \in T : ~(<<m, n>> \in OpToRel(<, Nat))
  BY NatLessThanWellFounded, WFMin
<1>2. \A m \in T : m < n => <<m, n>> \in OpToRel(<, Nat)
  BY DEF OpToRel
<1> QED BY <1>1, <1>2

(* The equation of the function in Kept, up to n. *)
Keeping(q, S, n, g) ==
  g = [i \in 0 .. n |->
         IF i = 0 THEN <<>> ELSE IF q[i] \in S THEN Append(g[i - 1], q[i]) ELSE g[i - 1]]

LEMMA KeepingExists ==
  ASSUME NEW q, NEW S, NEW n \in Nat
  PROVE  \E g : Keeping(q, S, n, g)
<1> DEFINE Bad == {k \in Nat : ~\E g : Keeping(q, S, k, g)}
<1> SUFFICES Bad = {}
  OBVIOUS
<1>1. SUFFICES ASSUME Bad # {}
               PROVE  FALSE
  OBVIOUS
<1>2. PICK k \in Bad : \A m \in Bad : ~(m < k)
  BY <1>1, LeastNumber
<1>3. CASE k = 0
  <2>1. Keeping(q, S, 0, [i \in 0 .. 0 |-> <<>>])
    BY DEF Keeping
  <2> QED BY <1>3, <2>1
<1>4. CASE k # 0
  <2>1. k - 1 \in Nat /\ k - 1 \notin Bad
    BY <1>2, <1>4
  <2>2. PICK g : Keeping(q, S, k - 1, g)
    BY <2>1
  <2> DEFINE top == IF q[k] \in S THEN Append(g[k - 1], q[k]) ELSE g[k - 1]
             h == [i \in 0 .. k |-> IF i = k THEN top ELSE g[i]]
  <2>3. \A i \in 0 .. k - 1 :
          g[i] = IF i = 0 THEN <<>>
                 ELSE IF q[i] \in S THEN Append(g[i - 1], q[i]) ELSE g[i - 1]
    BY <2>2 DEF Keeping
  <2>4. \A i \in 0 .. k - 1 : h[i] = g[i]
    BY <2>1
  <2>5. h[k] = top
    BY <2>1
  <2> HIDE DEF h
  <2>6. ASSUME NEW i \in 0 .. k
        PROVE  h[i] = IF i = 0 THEN <<>>
                      ELSE IF q[i] \in S THEN Append(h[i - 1], q[i]) ELSE h[i - 1]
    <3>1. CASE i = k
      <4>1. h[i - 1] = g[k - 1]
        BY <2>1, <2>4, <3>1
      <4> QED BY <2>5, <3>1, <4>1, <1>4
    <3>2. CASE i # k
      <4>1. i \in 0 .. k - 1 /\ (i # 0 => i - 1 \in 0 .. k - 1)
        BY <2>1, <3>2
      <4> QED BY <2>3, <2>4, <4>1
    <3> QED BY <3>1, <3>2
  <2>7. Keeping(q, S, k, h)
    <3>1. h = [i \in 0 .. k |-> h[i]]
      BY DEF h
    <3> QED BY <2>6, <3>1 DEF Keeping
  <2> QED BY <2>7
<1> QED BY <1>3, <1>4

(* What is kept is what was queued, once each. *)
LEMMA KeptIsQueued ==
  ASSUME NEW R, NEW q \in Seq(R), IsInjective(q), NEW S
  PROVE  /\ Kept(q, S) \in Seq(R)
         /\ IsInjective(Kept(q, S))
         /\ ToSet(Kept(q, S)) \subseteq ToSet(q) \cap S
<1> DEFINE f == CHOOSE g : Keeping(q, S, Len(q), g)
           Good(n) == /\ f[n] \in Seq(R)
                      /\ IsInjective(f[n])
                      /\ \A j \in 1 .. Len(f[n]) :
                           f[n][j] \in S /\ \E i \in 1 .. n : f[n][j] = q[i]
           Bad == {n \in 0 .. Len(q) : ~Good(n)}
<1>1. Len(q) \in Nat /\ DOMAIN q = 1 .. Len(q) /\ \A i \in 1 .. Len(q) : q[i] \in R
  BY LenProperties, ElementOfSeq
<1>2. Keeping(q, S, Len(q), f)
  BY <1>1, KeepingExists
<1>3. Kept(q, S) = f[Len(q)]
  BY DEF Kept, Keeping
<1> HIDE DEF f
<1>4. \A i \in 0 .. Len(q) :
        f[i] = IF i = 0 THEN <<>>
               ELSE IF q[i] \in S THEN Append(f[i - 1], q[i]) ELSE f[i - 1]
  BY <1>2 DEF Keeping
<1>5. Bad = {}
  <2>1. SUFFICES ASSUME Bad # {}
                 PROVE  FALSE
    OBVIOUS
  <2>2. Bad \subseteq Nat
    BY <1>1
  <2>3. PICK n \in Bad : \A m \in Bad : ~(m < n)
    BY <2>1, <2>2, LeastNumber
  <2>4. n \in 0 .. Len(q) /\ ~Good(n)
    OBVIOUS
  <2>5. CASE n = 0
    <3>1. f[n] = <<>>
      BY <1>1, <1>4, <2>5
    <3>2. Good(n)
      BY <2>5, <3>1, EmptySeq DEF IsInjective
    <3> QED BY <2>4, <3>2
  <2>6. CASE n # 0
    <3>1. n - 1 \in 0 .. Len(q) /\ n - 1 < n /\ n \in 1 .. Len(q)
      BY <1>1, <2>4, <2>6
    <3>2. Good(n - 1)
      BY <2>3, <3>1
    <3>3. CASE q[n] \notin S
      <4>1. f[n] = f[n - 1]
        BY <1>4, <2>4, <2>6, <3>3
      <4>2. Good(n)
        BY <3>1, <3>2, <4>1
      <4> QED BY <2>4, <4>2
    <3>4. CASE q[n] \in S
      <4> DEFINE l == Len(f[n - 1])
      <4>1. f[n] = Append(f[n - 1], q[n])
        BY <1>4, <2>4, <2>6, <3>4
      <4>2. l \in Nat /\ DOMAIN f[n - 1] = 1 .. l
        BY <3>2, LenProperties
      <4>3. /\ f[n] \in Seq(R)
            /\ Len(f[n]) = l + 1
            /\ \A j \in 1 .. l : f[n][j] = f[n - 1][j]
            /\ f[n][l + 1] = q[n]
        BY <1>1, <3>1, <3>2, <4>1, AppendProperties
      <4>4. DOMAIN f[n] = 1 .. l + 1
        BY <4>3, LenProperties
      <4>5. \A j \in 1 .. l : f[n][j] # q[n]
        <5> SUFFICES ASSUME NEW j \in 1 .. l
                     PROVE  f[n][j] # q[n]
          OBVIOUS
        <5>1. PICK i \in 1 .. n - 1 : f[n - 1][j] = q[i]
          BY <3>2
        <5>2. i \in 1 .. Len(q) /\ i # n
          BY <1>1, <3>1
        <5> QED BY <1>1, <3>1, <4>3, <5>1, <5>2 DEF IsInjective
      <4>6. IsInjective(f[n])
        <5> SUFFICES ASSUME NEW a \in 1 .. l + 1, NEW b \in 1 .. l + 1, f[n][a] = f[n][b]
                     PROVE  a = b
          BY <4>4 DEF IsInjective
        <5>1. (a = l + 1 \/ a \in 1 .. l) /\ (b = l + 1 \/ b \in 1 .. l)
          BY <4>2
        <5>2. CASE a \in 1 .. l /\ b \in 1 .. l
          BY <3>2, <4>2, <4>3, <5>2 DEF IsInjective
        <5> QED BY <4>3, <4>5, <5>1, <5>2
      <4>7. \A j \in 1 .. Len(f[n]) : f[n][j] \in S /\ \E i \in 1 .. n : f[n][j] = q[i]
        <5> SUFFICES ASSUME NEW j \in 1 .. l + 1
                     PROVE  f[n][j] \in S /\ \E i \in 1 .. n : f[n][j] = q[i]
          BY <4>3
        <5>1. CASE j \in 1 .. l
          <6>1. PICK i \in 1 .. n - 1 : f[n - 1][j] \in S /\ f[n - 1][j] = q[i]
            BY <3>2, <5>1
          <6>2. i \in 1 .. n
            BY <3>1
          <6> QED BY <4>3, <5>1, <6>1, <6>2
        <5>2. CASE j = l + 1
          BY <3>1, <3>4, <4>3, <5>2
        <5> QED BY <4>2, <5>1, <5>2
      <4>8. Good(n)
        BY <4>3, <4>6, <4>7
      <4> QED BY <2>4, <4>8
    <3> QED BY <3>3, <3>4
  <2> QED BY <2>5, <2>6
<1>6. Good(Len(q))
  BY <1>1, <1>5
<1>7. DOMAIN Kept(q, S) = 1 .. Len(Kept(q, S))
  BY <1>3, <1>6, LenProperties
<1>8. ToSet(Kept(q, S)) \subseteq ToSet(q) \cap S
  <2>1. \A j \in 1 .. Len(Kept(q, S)) :
          Kept(q, S)[j] \in S /\ \E i \in 1 .. Len(q) : Kept(q, S)[j] = q[i]
    BY <1>3, <1>6
  <2>2. ToSet(q) = {q[i] : i \in 1 .. Len(q)}
    BY <1>1 DEF ToSet
  <2>3. ToSet(Kept(q, S)) = {Kept(q, S)[j] : j \in 1 .. Len(Kept(q, S))}
    BY <1>7 DEF ToSet
  <2> QED BY <2>1, <2>2, <2>3
<1> QED BY <1>3, <1>6, <1>8

-----------------------------------------------------------------------------
(* Types.  A request is in the queue, or taken out of it to be heard, once *)
(* at most; that rests on where its own call has got to by then.           *)

Flags ==
  /\ live \in BOOLEAN /\ lock \in BOOLEAN /\ speaking \in BOOLEAN
  /\ stopEvent \in BOOLEAN /\ resume \in BOOLEAN /\ intr \in BOOLEAN
  /\ nativeMode \in BOOLEAN /\ reply \in BOOLEAN
  /\ capture \in BOOLEAN /\ refused \in BOOLEAN

Names ==
  /\ owner \in Requests \cup {NoOne}
  /\ qlock \in Requests \cup {NoOne}
  /\ latest \in {Turn[r] : r \in Requests} \cup {NoTurn}
  /\ silenced \subseteq Requests
  /\ pc \in [Requests -> Asking \cup Playing \cup {"leave", "done"}]
  /\ stopper \in {"idle", "stop", "clear"}
  /\ events \in 0 .. MaxEvents
  /\ heard \in {Turn[r] : r \in Requests} \cup {NoTurn}

PlainOK == Flags /\ Names

QueueOK ==
  /\ pending \in Seq(Requests) /\ IsInjective(pending)
  /\ active \in (Requests \cup {NoOne}) \ ToSet(pending)

(* A queued call is past its admission: it has returned, or its thread has *)
(* become a worker.                                                        *)
Past == Playing \cup {"leave", "done"}

Parked == \A i \in (ToSet(pending) \cup {active}) \ {NoOne} : pc[i] \in Past

(* Who waits for a first frame has an item.                                *)
Popped == \A r \in Requests : pc[r] = "frame" => active # NoOne

TypeInv == PlainOK /\ QueueOK /\ Parked /\ Popped /\ VoiceInv

LEMMA TypeInvInit == Init => TypeInv
<1> SUFFICES ASSUME Init
             PROVE  TypeInv
  OBVIOUS
<1>1. PlainOK
  <2>1. pc \in [Requests -> Asking \cup Playing \cup {"leave", "done"}]
    BY DEF Init, Asking
  <2>2. events \in 0 .. MaxEvents /\ live \in BOOLEAN
    BY SpeechConstants DEF Init
  <2> QED BY <2>1, <2>2 DEF Init, PlainOK, Flags, Names
<1>2. ToSet(<<>>) = {} /\ IsInjective(<<>>) /\ <<>> \in Seq(Requests)
  BY DEF ToSet, IsInjective
<1>3. QueueOK /\ Parked /\ Popped
  BY <1>2 DEF Init, QueueOK, Parked, Popped
<1> QED BY <1>1, <1>3, VoiceInvInit DEF TypeInv

(* A step that queues nothing, takes nothing out to be heard, and lets no  *)
(* call go back to its admission.                                          *)
Drains ==
  /\ pending' \in Seq(Requests) /\ IsInjective(pending')
  /\ ToSet(pending') \subseteq ToSet(pending)
  /\ active' \in {active, NoOne}
  /\ \A s \in Requests : pc[s] \in Past => pc'[s] \in Past
  /\ \A s \in Requests : pc'[s] = "frame" => pc[s] = "frame" /\ active' = active

LEMMA DrainsKeeps ==
  ASSUME TypeInv, Drains
  PROVE  QueueOK' /\ Parked' /\ Popped'
<1>1. ToSet(pending) \subseteq Requests
  BY RangeOfSeq DEF TypeInv, QueueOK, ToSet, Range
<1>2. NoOne \notin ToSet(pending')
  BY <1>1, SpeechConstants DEF Drains
<1> QED BY <1>1, <1>2 DEF Drains, TypeInv, QueueOK, Parked, Popped

(* The queue after a stop or a preemption.                                 *)
LEMMA QueueAfterStop ==
  ASSUME TypeInv, pending' = pending \/ pending' = <<>> \/ \E S : pending' = Kept(pending, S)
  PROVE  /\ pending' \in Seq(Requests) /\ IsInjective(pending')
         /\ ToSet(pending') \subseteq ToSet(pending)
<1>1. CASE pending' = pending
  BY <1>1 DEF TypeInv, QueueOK
<1>2. CASE pending' = <<>>
  BY <1>2 DEF ToSet, IsInjective
<1>3. CASE \E S : pending' = Kept(pending, S)
  BY <1>3, KeptIsQueued DEF TypeInv, QueueOK
<1> QED BY <1>1, <1>2, <1>3

QueueKept == QueueOK' /\ Parked' /\ Popped'

Stopped == pending' = pending \/ pending' = <<>> \/ \E S : pending' = Kept(pending, S)

(* A call moves on, and stops at most.                                     *)
LEMMA CallMoves ==
  ASSUME TypeInv, NEW r \in Requests, NEW at, Goto(r, at), at # "frame",
         pc[r] \in Past => at \in Past, active' = active, Stopped
  PROVE  QueueKept
<1>1. pc' = [pc EXCEPT ![r] = at] /\ DOMAIN pc = Requests
  BY DEF Goto, TypeInv, PlainOK, Names
<1>2. Drains
  BY <1>1, QueueAfterStop DEF Drains, Stopped
<1> QED BY <1>2, DrainsKeeps DEF QueueKept

(* Nobody moves.                                                           *)
LEMMA NobodyMoves ==
  ASSUME TypeInv, pc' = pc, active' = active, Stopped
  PROVE  QueueKept
<1>1. Drains
  BY QueueAfterStop DEF Drains, Stopped
<1> QED BY <1>1, DrainsKeeps DEF QueueKept

LEMMA StopStops ==
  ASSUME StopAll \/ ClearPending \/ (\E keep : StopLive(keep))
  PROVE  Stopped
BY DEF StopAll, StopLive, StopPlain, ClearPending, Stopped

(* A request is queued while its call is still in its admission.           *)
LEMMA AppendKeepsQueue ==
  ASSUME TypeInv, NEW r \in Requests, AppendItem(r)
  PROVE  QueueKept
<1>1. /\ pc[r] = "append" /\ pending' = Append(pending, r) /\ active' = active
      /\ \E at \in Past : at # "frame" /\ pc' = [pc EXCEPT ![r] = at]
  BY DEF AppendItem, Leave, Goto, Past, Playing
<1>2. PICK at \in Past : at # "frame" /\ pc' = [pc EXCEPT ![r] = at]
  BY <1>1
<1>3. r \notin ToSet(pending) /\ active # r
  BY <1>1, SpeechConstants DEF TypeInv, Parked, Past, Playing
<1> DEFINE l == Len(pending)
<1>4. pending \in Seq(Requests) /\ l \in Nat /\ DOMAIN pending = 1 .. l
  BY LenProperties DEF TypeInv, QueueOK
<1>5. /\ pending' \in Seq(Requests) /\ Len(pending') = l + 1
      /\ \A i \in 1 .. l : pending'[i] = pending[i]
      /\ pending'[l + 1] = r
  BY <1>1, <1>4, AppendProperties
<1>6. DOMAIN pending' = 1 .. l + 1
  BY <1>5, LenProperties
<1>7. \A i \in 1 .. l : pending[i] \in ToSet(pending)
  BY <1>4 DEF ToSet
<1>8. \A i \in 1 .. l + 1 : i \in 1 .. l \/ i = l + 1
  BY <1>4
<1>9. IsInjective(pending')
  <2>1. IsInjective(pending)
    BY DEF TypeInv, QueueOK
  <2> QED BY <1>3, <1>4, <1>5, <1>6, <1>7, <1>8, <2>1 DEF IsInjective
<1>10. ToSet(pending') \subseteq ToSet(pending) \cup {r}
  <2>1. \A i \in DOMAIN pending' : pending'[i] \in ToSet(pending) \cup {r}
    BY <1>5, <1>6, <1>7, <1>8
  <2> QED BY <2>1 DEF ToSet
<1>11. QueueOK'
  BY <1>1, <1>3, <1>5, <1>9, <1>10 DEF TypeInv, QueueOK
<1>12. DOMAIN pc = Requests /\ ToSet(pending) \subseteq Requests
  BY RangeOfSeq DEF TypeInv, PlainOK, Names, QueueOK, ToSet, Range
<1>13. Parked'
  BY <1>1, <1>2, <1>3, <1>10, <1>12 DEF TypeInv, QueueOK, Parked
<1>14. Popped'
  BY <1>1, <1>2, <1>12 DEF TypeInv, Popped
<1> QED BY <1>11, <1>13, <1>14 DEF QueueKept

LEMMA AskKeepsQueue ==
  ASSUME TypeInv, NEW r \in Requests, Ask(r)
  PROVE  QueueKept
<1> DEFINE Moved == /\ pc[r] \notin Past /\ active' = active /\ Stopped
                    /\ \E at : at # "frame" /\ Goto(r, at)
<1>1. ASSUME Moved
      PROVE  QueueKept
  BY <1>1, CallMoves
<1>2. CASE Arrive(r)
  BY <1>1, <1>2 DEF Arrive, queues, Stopped, Past, Playing
<1>3. CASE Admit(r)
  BY <1>1, <1>3 DEF Admit, queues, Stopped, Past, Playing
<1>4. CASE Preempt(r)
  BY <1>1, <1>4, StopStops DEF Preempt, Past, Playing
<1>5. CASE ClearAfterStop(r)
  BY <1>1, <1>5, StopStops DEF ClearAfterStop, Past, Playing
<1>6. CASE Take(r)
  BY <1>1, <1>6 DEF Take, Begin, Leave, queues, Stopped, Past, Playing
<1>7. CASE GiveUp(r)
  BY <1>1, <1>7 DEF GiveUp, Leave, Stopped, Past, Playing
<1>8. CASE TryLock(r)
  BY <1>1, <1>8 DEF TryLock, queues, Stopped, Past, Playing
<1>9. CASE Busy(r)
  <2>1. Stopped
    BY <1>9, StopStops DEF Busy, Stopped
  <2> QED BY <1>1, <1>9, <2>1 DEF Busy, Leave, Past, Playing
<1>10. CASE WaitLock(r)
  BY <1>1, <1>10 DEF WaitLock, queues, Stopped, Past, Playing
<1>11. CASE ClaimRefused(r)
  BY <1>1, <1>11 DEF ClaimRefused, Leave, Stopped, Past, Playing
<1>12. CASE Claim(r)
  BY <1>1, <1>12 DEF Claim, Begin, Leave, Stopped, Past, Playing
<1> QED BY <1>2, <1>3, <1>4, <1>5, <1>6, <1>7, <1>8, <1>9, <1>10, <1>11, <1>12,
           AppendKeepsQueue DEF Ask

(* The item that is taken out is no longer in the queue.                   *)
LEMMA PopKeepsQueue ==
  ASSUME TypeInv, NEW r \in Requests, DrainPops(r)
  PROVE  QueueKept
<1>1. CASE pending = <<>>
  BY <1>1, CallMoves DEF DrainPops, Stopped, Past, Playing
<1>2. CASE pending # <<>>
  <2>1. /\ pending' = Tail(pending) /\ active' = Head(pending)
        /\ pc[r] = "pop" /\ pc' = [pc EXCEPT ![r] = "frame"]
    BY <1>2 DEF DrainPops, Goto
  <2> DEFINE l == Len(pending)
  <2>2. /\ pending \in Seq(Requests) /\ l \in Nat /\ l # 0
        /\ DOMAIN pending = 1 .. l /\ IsInjective(pending)
    BY <1>2, LenProperties, EmptySeq DEF TypeInv, QueueOK
  <2>3. /\ pending' \in Seq(Requests) /\ Len(pending') = l - 1
        /\ active' \in Requests
        /\ \A i \in 1 .. l - 1 : pending'[i] = pending[i + 1]
    BY <1>2, <2>1, <2>2, HeadTailProperties
  <2>4. active' = pending[1] /\ DOMAIN pending' = 1 .. l - 1
    BY <2>1, <2>2, <2>3, LenProperties
  <2>5. IsInjective(pending')
    <3> SUFFICES ASSUME NEW i \in 1 .. l - 1, NEW j \in 1 .. l - 1, pending'[i] = pending'[j]
                 PROVE  i = j
      BY <2>4 DEF IsInjective
    <3>1. i + 1 \in 1 .. l /\ j + 1 \in 1 .. l /\ pending[i + 1] = pending[j + 1]
      BY <2>2, <2>3
    <3>2. i + 1 = j + 1
      BY <2>2, <3>1 DEF IsInjective
    <3> QED BY <2>2, <3>2
  <2>6. \A i \in 1 .. l - 1 : pending'[i] \in ToSet(pending) /\ pending'[i] # active'
    BY <2>2, <2>3, <2>4 DEF ToSet, IsInjective
  <2>7. ToSet(pending') \subseteq ToSet(pending) /\ active' \notin ToSet(pending')
    BY <2>4, <2>6 DEF ToSet
  <2>8. active' \in ToSet(pending)
    BY <2>2, <2>4 DEF ToSet
  <2>9. DOMAIN pc = Requests
    BY DEF TypeInv, PlainOK, Names
  <2>10. QueueOK'
    BY <2>3, <2>5, <2>7 DEF QueueOK
  <2>11. Parked'
    BY <2>1, <2>3, <2>7, <2>8, <2>9, SpeechConstants DEF TypeInv, Parked, Past, Playing
  <2>12. Popped'
    BY <2>3, SpeechConstants DEF Popped
  <2> QED BY <2>10, <2>11, <2>12 DEF QueueKept
<1> QED BY <1>1, <1>2

(* The one worker that waits for a frame has heard it, or given it up.     *)
LEMMA FrameKeepsQueue ==
  ASSUME TypeInv, NEW r \in Requests, FirstFrame(r) \/ NoFrame(r)
  PROVE  QueueKept
<1>1. /\ pc[r] = "frame" /\ active' = NoOne /\ pending' = pending
      /\ \E at \in Past : at # "frame" /\ pc' = [pc EXCEPT ![r] = at]
  BY DEF FirstFrame, NoFrame, Goto, Past, Playing
<1>2. \A s \in Requests : pc[s] = "frame" => s = r
  BY <1>1 DEF TypeInv, VoiceInv, OneVoice, Playing
<1>3. DOMAIN pc = Requests
  BY DEF TypeInv, PlainOK, Names
<1>4. Drains
  BY <1>1, <1>2, <1>3, QueueAfterStop DEF Drains
<1> QED BY <1>4, DrainsKeeps DEF QueueKept

LEMMA PlayKeepsQueue ==
  ASSUME TypeInv, NEW r \in Requests, Play(r) \/ StreamFails(r)
  PROVE  QueueKept
<1> DEFINE Moved == /\ active' = active /\ Stopped
                    /\ \E at \in Past : at # "frame" /\ Goto(r, at)
<1>1. ASSUME Moved
      PROVE  QueueKept
  BY <1>1, CallMoves
<1>2. CASE HeadEnds(r)
  BY <1>1, <1>2 DEF HeadEnds, queues, Stopped, Past, Playing
<1>3. CASE DrainLooks(r)
  BY <1>1, <1>3 DEF DrainLooks, queues, Stopped, Past, Playing
<1>4. CASE SegmentEnds(r)
  BY <1>1, <1>4 DEF SegmentEnds, queues, Stopped, Past, Playing
<1>5. CASE Finish(r)
  BY <1>1, <1>5 DEF Finish, queues, Stopped, Past, Playing
<1>6. CASE Release(r)
  BY <1>1, <1>6 DEF Release, queues, Stopped, Past, Playing
<1>7. CASE LeaveNative(r)
  BY <1>1, <1>7 DEF LeaveNative, queues, Stopped, Past, Playing
<1>8. CASE StreamFails(r)
  BY <1>1, <1>8 DEF StreamFails, queues, Stopped, Past, Playing
<1> QED BY <1>2, <1>3, <1>4, <1>5, <1>6, <1>7, <1>8, PopKeepsQueue, FrameKeepsQueue DEF Play

LEMMA QueueInvStep ==
  ASSUME TypeInv, [Next]_vars
  PROVE  QueueKept
<1>1. CASE \E r \in Requests : Ask(r) \/ Play(r) \/ StreamFails(r)
  BY <1>1, AskKeepsQueue, PlayKeepsQueue
<1>2. CASE UNCHANGED vars
  BY <1>2, NobodyMoves DEF vars, queues, Stopped
<1>3. CASE Hush \/ AskStop \/ BeginCapture \/ EndCapture
  BY <1>3, NobodyMoves DEF Hush, AskStop, BeginCapture, EndCapture, queues, Stopped
<1>4. CASE Stop \/ StopLiveOutput
  BY <1>4, NobodyMoves, StopStops DEF Stop, StopLiveOutput
<1>5. CASE RejectReply
  <2>1. Stopped
    BY <1>5 DEF RejectReply, StopRealtimeReply, Stopped
  <2> QED BY <1>5, <2>1, NobodyMoves DEF RejectReply
<1> QED BY <1>1, <1>2, <1>3, <1>4, <1>5 DEF Next

-----------------------------------------------------------------------------
(* The plain variables.                                                    *)

LEMMA PlainAsk ==
  ASSUME TypeInv, NEW r \in Requests, Ask(r)
  PROVE  PlainOK'
<1> USE DEF Asking, Playing, Goto
<1>0. Flags /\ Names
  BY DEF TypeInv, PlainOK
<1>1. CASE Arrive(r)
  <2>1. Flags'
    BY <1>0, <1>1 DEF Flags, Arrive, speaker, queues, setting, ghosts
  <2>2. Names'
    BY <1>0, <1>1 DEF Names, Arrive, speaker, queues, setting, ghosts
  <2> QED BY <2>1, <2>2 DEF PlainOK
<1>2. CASE Admit(r)
  <2>1. Flags'
    BY <1>0, <1>2 DEF Flags, Admit, speaker, queues, setting, ghosts
  <2>2. Names'
    BY <1>0, <1>2 DEF Names, Admit, speaker, queues, setting, ghosts
  <2> QED BY <2>1, <2>2 DEF PlainOK
<1>3. CASE Preempt(r)
  <2>1. Flags'
    BY <1>0, <1>3 DEF Flags, Preempt, StopAll, StopLive, StopPlain, setting
  <2>2. Names'
    BY <1>0, <1>3 DEF Names, Preempt, StopAll, StopLive, StopPlain, setting
  <2> QED BY <2>1, <2>2 DEF PlainOK
<1>4. CASE ClearAfterStop(r)
  <2>1. Flags'
    BY <1>0, <1>4 DEF Flags, ClearAfterStop, ClearPending, setting
  <2>2. Names'
    BY <1>0, <1>4 DEF Names, ClearAfterStop, ClearPending, setting
  <2> QED BY <2>1, <2>2 DEF PlainOK
<1>5. CASE Take(r)
  <2>1. Flags'
    BY <1>0, <1>5 DEF Flags, Take, Begin, Leave, Voiced, speaker, queues, setting, ghosts
  <2>2. Names'
    BY <1>0, <1>5 DEF Names, Take, Begin, Leave, Voiced, speaker, queues, setting, ghosts
  <2> QED BY <2>1, <2>2 DEF PlainOK
<1>6. CASE GiveUp(r)
  <2>1. Flags'
    BY <1>0, <1>6 DEF Flags, GiveUp, Leave, speaker, setting, ghosts
  <2>2. Names'
    BY <1>0, <1>6 DEF Names, GiveUp, Leave, speaker, setting, ghosts
  <2> QED BY <2>1, <2>2 DEF PlainOK
<1>7. CASE AppendItem(r)
  <2>1. Flags'
    BY <1>0, <1>7 DEF Flags, AppendItem, Leave, setting
  <2>2. Names'
    BY <1>0, <1>7 DEF Names, AppendItem, Leave, setting
  <2> QED BY <2>1, <2>2 DEF PlainOK
<1>8. CASE TryLock(r)
  <2>1. Flags'
    BY <1>0, <1>8 DEF Flags, TryLock, queues, setting, ghosts
  <2>2. Names'
    BY <1>0, <1>8 DEF Names, TryLock, queues, setting, ghosts
  <2> QED BY <2>1, <2>2 DEF PlainOK
<1>9. CASE Busy(r)
  <2>1. Flags'
    BY <1>0, <1>9 DEF Flags, Busy, Leave, StopAll, StopLive, StopPlain, setting
  <2>2. Names'
    BY <1>0, <1>9 DEF Names, Busy, Leave, StopAll, StopLive, StopPlain, setting
  <2> QED BY <2>1, <2>2 DEF PlainOK
<1>10. CASE WaitLock(r)
  <2>1. Flags'
    BY <1>0, <1>10 DEF Flags, WaitLock, queues, setting, ghosts
  <2>2. Names'
    BY <1>0, <1>10 DEF Names, WaitLock, queues, setting, ghosts
  <2> QED BY <2>1, <2>2 DEF PlainOK
<1>11. CASE ClaimRefused(r)
  <2>1. Flags'
    BY <1>0, <1>11 DEF Flags, ClaimRefused, Leave, setting
  <2>2. Names'
    BY <1>0, <1>11 DEF Names, ClaimRefused, Leave, setting
  <2> QED BY <2>1, <2>2 DEF PlainOK
<1>12. CASE Claim(r)
  <2>1. Flags'
    BY <1>0, <1>12 DEF Flags, Claim, Begin, Leave, Voiced, setting
  <2>2. Names'
    BY <1>0, <1>12 DEF Names, Claim, Begin, Leave, Voiced, setting
  <2> QED BY <2>1, <2>2 DEF PlainOK
<1> QED BY <1>1, <1>2, <1>3, <1>4, <1>5, <1>6, <1>7, <1>8, <1>9, <1>10, <1>11, <1>12 DEF
           Ask

LEMMA PlainPlay ==
  ASSUME TypeInv, NEW r \in Requests, Play(r) \/ StreamFails(r)
  PROVE  PlainOK'
<1> USE DEF Asking, Playing, Goto
<1>0. Flags /\ Names
  BY DEF TypeInv, PlainOK
<1>1. CASE HeadEnds(r)
  <2>1. Flags'
    BY <1>0, <1>1 DEF Flags, HeadEnds, speaker, queues, setting, ghosts
  <2>2. Names'
    BY <1>0, <1>1 DEF Names, HeadEnds, speaker, queues, setting, ghosts
  <2> QED BY <2>1, <2>2 DEF PlainOK
<1>2. CASE DrainLooks(r)
  <2>1. Flags'
    BY <1>0, <1>2 DEF Flags, DrainLooks, speaker, queues, setting, ghosts
  <2>2. Names'
    BY <1>0, <1>2 DEF Names, DrainLooks, speaker, queues, setting, ghosts
  <2> QED BY <2>1, <2>2 DEF PlainOK
<1>3. CASE DrainPops(r)
  <2>1. Flags'
    BY <1>0, <1>3 DEF Flags, DrainPops, setting, ghosts
  <2>2. Names'
    BY <1>0, <1>3 DEF Names, DrainPops, setting, ghosts
  <2> QED BY <2>1, <2>2 DEF PlainOK
<1>4. CASE FirstFrame(r)
  <2>1. active \in Requests
    BY <1>4 DEF FirstFrame, TypeInv, QueueOK, Popped
  <2>2. Flags'
    BY <1>0, <1>4, <2>1 DEF Flags, FirstFrame, Voiced, setting
  <2>3. Names'
    BY <1>0, <1>4, <2>1 DEF Names, FirstFrame, Voiced, setting
  <2> QED BY <2>2, <2>3 DEF PlainOK
<1>5. CASE NoFrame(r)
  <2>1. Flags'
    BY <1>0, <1>5 DEF Flags, NoFrame, speaker, setting, ghosts
  <2>2. Names'
    BY <1>0, <1>5 DEF Names, NoFrame, speaker, setting, ghosts
  <2> QED BY <2>1, <2>2 DEF PlainOK
<1>6. CASE SegmentEnds(r)
  <2>1. Flags'
    BY <1>0, <1>6 DEF Flags, SegmentEnds, speaker, queues, setting, ghosts
  <2>2. Names'
    BY <1>0, <1>6 DEF Names, SegmentEnds, speaker, queues, setting, ghosts
  <2> QED BY <2>1, <2>2 DEF PlainOK
<1>7. CASE Finish(r)
  <2>1. Flags'
    BY <1>0, <1>7 DEF Flags, Finish, queues, setting, ghosts
  <2>2. Names'
    BY <1>0, <1>7 DEF Names, Finish, queues, setting, ghosts
  <2> QED BY <2>1, <2>2 DEF PlainOK
<1>8. CASE Release(r)
  <2>1. Flags'
    BY <1>0, <1>8 DEF Flags, Release, queues, setting
  <2>2. Names'
    BY <1>0, <1>8 DEF Names, Release, queues, setting
  <2> QED BY <2>1, <2>2 DEF PlainOK
<1>9. CASE LeaveNative(r)
  <2>1. Flags'
    BY <1>0, <1>9 DEF Flags, LeaveNative, queues, setting, ghosts
  <2>2. Names'
    BY <1>0, <1>9 DEF Names, LeaveNative, queues, setting, ghosts
  <2> QED BY <2>1, <2>2 DEF PlainOK
<1>10. CASE StreamFails(r)
  <2>1. Flags'
    BY <1>0, <1>10, SpeechConstants DEF Flags, StreamFails, CountEvent, speaker, queues,
       ghosts
  <2>2. Names'
    BY <1>0, <1>10, SpeechConstants DEF Names, StreamFails, CountEvent, speaker, queues,
       ghosts
  <2> QED BY <2>1, <2>2 DEF PlainOK
<1> QED BY <1>1, <1>2, <1>3, <1>4, <1>5, <1>6, <1>7, <1>8, <1>9, <1>10 DEF Play

LEMMA PlainOutside ==
  ASSUME TypeInv,
         Hush \/ AskStop \/ Stop \/ StopLiveOutput \/ RejectReply \/ BeginCapture \/ EndCapture
  PROVE  PlainOK'
<1>0. Flags /\ Names
  BY DEF TypeInv, PlainOK
<1>1. CASE Hush
  <2>1. Flags'
    BY <1>0, <1>1, SpeechConstants DEF Flags, Hush, CountEvent, speaker, queues, ghosts
  <2>2. Names'
    BY <1>0, <1>1, SpeechConstants DEF Names, Hush, CountEvent, speaker, queues, ghosts
  <2> QED BY <2>1, <2>2 DEF PlainOK
<1>2. CASE AskStop
  <2>1. Flags'
    BY <1>0, <1>2, SpeechConstants DEF Flags, AskStop, CountEvent, speaker, queues, ghosts
  <2>2. Names'
    BY <1>0, <1>2, SpeechConstants DEF Names, AskStop, CountEvent, speaker, queues, ghosts
  <2> QED BY <2>1, <2>2 DEF PlainOK
<1>3. CASE Stop
  <2>1. Flags'
    BY <1>0, <1>3 DEF Flags, Stop, StopAll, StopLive, StopPlain, ClearPending
  <2>2. Names'
    BY <1>0, <1>3 DEF Names, Stop, StopAll, StopLive, StopPlain, ClearPending
  <2> QED BY <2>1, <2>2 DEF PlainOK
<1>4. CASE StopLiveOutput
  <2>1. Flags'
    BY <1>0, <1>4, SpeechConstants DEF Flags, StopLiveOutput, CountEvent, StopLive
  <2>2. Names'
    BY <1>0, <1>4, SpeechConstants DEF Names, StopLiveOutput, CountEvent, StopLive
  <2> QED BY <2>1, <2>2 DEF PlainOK
<1>5. CASE RejectReply
  <2>1. Flags'
    BY <1>0, <1>5, SpeechConstants DEF Flags, RejectReply, CountEvent, StopRealtimeReply
  <2>2. Names'
    BY <1>0, <1>5, SpeechConstants DEF Names, RejectReply, CountEvent, StopRealtimeReply
  <2> QED BY <2>1, <2>2 DEF PlainOK
<1>6. CASE BeginCapture
  <2>1. Flags'
    BY <1>0, <1>6, SpeechConstants DEF Flags, BeginCapture, CountEvent, speaker, queues,
       ghosts
  <2>2. Names'
    BY <1>0, <1>6, SpeechConstants DEF Names, BeginCapture, CountEvent, speaker, queues,
       ghosts
  <2> QED BY <2>1, <2>2 DEF PlainOK
<1>7. CASE EndCapture
  <2>1. Flags'
    BY <1>0, <1>7 DEF Flags, EndCapture, speaker, queues, ghosts
  <2>2. Names'
    BY <1>0, <1>7 DEF Names, EndCapture, speaker, queues, ghosts
  <2> QED BY <2>1, <2>2 DEF PlainOK
<1> QED BY <1>1, <1>2, <1>3, <1>4, <1>5, <1>6, <1>7

LEMMA TypeInvStep == TypeInv /\ [Next]_vars => TypeInv'
<1> SUFFICES ASSUME TypeInv, [Next]_vars
             PROVE  TypeInv'
  OBVIOUS
<1>1. QueueOK' /\ Parked' /\ Popped'
  BY QueueInvStep DEF QueueKept
<1>2. VoiceInv'
  BY VoiceInvStep DEF TypeInv
<1>3. PlainOK'
  <2>1. CASE \E r \in Requests : Ask(r) \/ Play(r) \/ StreamFails(r)
    BY <2>1, PlainAsk, PlainPlay
  <2>2. CASE UNCHANGED vars
    BY <2>2 DEF TypeInv, PlainOK, Flags, Names, vars, speaker, queues, setting, ghosts
  <2> QED BY <2>1, <2>2, PlainOutside DEF Next
<1> QED BY <1>1, <1>2, <1>3 DEF TypeInv

(* Every variable keeps its type; above all a request waits in the queue   *)
(* or is taken out of it once, whatever is stopped, rejected or preempted. *)
THEOREM TypeOKKept == Spec => []TypeOK
<1>1. TypeInv => TypeOK
  BY DEF TypeInv, PlainOK, Flags, Names, QueueOK, TypeOK, Places
<1> QED BY <1>1, TypeInvInit, TypeInvStep, PTL DEF Spec

-----------------------------------------------------------------------------
(* The order of the turns.  A restart of the counter is told by the stamp, *)
(* so the stamps order what the numbers of two counters do not.            *)

Numbered == {r \in Requests : Turn[r].seq > 0}

Values == {Turn[r] : r \in Numbered} \cup {NoTurn}

(* No turn of an earlier counter comes late: a turn that is accepted for   *)
(* its higher number is not stamped before the turn it succeeds.  It says  *)
(* nothing of a turn that is accepted for a restart of the counter.        *)
NotLate == latest'.seq > latest.seq => latest'.stamp >= latest.stamp

NotAfter(t, u) == t = u \/ t = NoTurn \/ t.stamp <= u.stamp

LEMMA ValuesAreTurns == \A t \in Values : t \in [seq : Nat, stamp : Nat]
BY TurnConstants DEF Values, Numbered, NoTurn

LEMMA NotAfterChains ==
  ASSUME NEW t \in Values, NEW u \in Values, NEW v \in Values,
         NotAfter(t, u), NotAfter(u, v)
  PROVE  NotAfter(t, v)
<1>1. \A w \in Values : w.stamp \in Nat
  BY ValuesAreTurns
<1>2. NotAfter(t, u) => t.stamp <= u.stamp
  BY <1>1 DEF NotAfter, NoTurn
<1>3. NotAfter(u, v) => u.stamp <= v.stamp
  BY <1>1 DEF NotAfter, NoTurn
<1> QED BY <1>1, <1>2, <1>3 DEF NotAfter

(* A preemption is under way: the queue may hold what it is to clear.      *)
Preempting == {"preempt", "clearQueue"}
Clearing == \E r \in Requests : pc[r] \in Preempting

Waiting == ToSet(pending) \cap Numbered

SpeakerInOrder == latest \in Values /\ heard \in Values /\ NotAfter(heard, latest)

QueueInOrder ==
  /\ \A i \in Waiting : NotAfter(heard, Turn[i]) /\ NotAfter(Turn[i], latest)
  /\ \A i, j \in Waiting : Turn[i] = Turn[j]
  /\ ~Clearing => \A i \in Waiting : Turn[i] = latest

ActiveInOrder ==
  active \in Numbered =>
    /\ NotAfter(heard, Turn[active]) /\ NotAfter(Turn[active], latest)
    /\ \A i \in Waiting : NotAfter(Turn[active], Turn[i])

(* Who is admitted with a number holds the request lock, and is the latest. *)
Admitted == Asking \ {"arrive", "admit"}
AdmittedIsLatest ==
  \A r \in Numbered : pc[r] \in Admitted => qlock = r /\ Turn[r] = latest

ClearingIsNumbered == \A r \in Requests : pc[r] \in Preempting => r \in Numbered

(* An item that was taken out is held by the worker that waits for it.     *)
ActiveIsHeld == active # NoOne => \E r \in Requests : pc[r] = "frame"

Turns == SpeakerInOrder /\ QueueInOrder /\ ActiveInOrder
Calls == AdmittedIsLatest /\ ClearingIsNumbered /\ ActiveIsHeld
OrderInv == Turns /\ Calls

OrderKept == OrderInv' /\ NotAfter(heard, heard')

LEMMA OrderInvInit == Init => OrderInv
<1> SUFFICES ASSUME Init
             PROVE  OrderInv
  OBVIOUS
<1>1. ToSet(<<>>) = {}
  BY DEF ToSet
<1>2. NoOne \notin Numbered
  BY SpeechConstants DEF Numbered
<1>3. \A r \in Requests : pc[r] = "arrive"
  BY DEF Init
<1>4. Turns
  BY <1>1, <1>2 DEF Init, Turns, SpeakerInOrder, QueueInOrder, ActiveInOrder, Values,
                    Waiting, NotAfter
<1>5. AdmittedIsLatest /\ ClearingIsNumbered
  BY <1>3 DEF AdmittedIsLatest, ClearingIsNumbered, Admitted, Preempting, Numbered
<1> QED BY <1>4, <1>5 DEF Init, OrderInv, Calls, ActiveIsHeld

-----------------------------------------------------------------------------
(* A step that gives nobody the speaker, queues nothing and admits no turn; *)
(* a preemption ends with a queue that no turn waits in.                   *)
Quiet ==
  /\ Stopped
  /\ latest' = latest /\ heard' = heard
  /\ active' \in {active, NoOne}
  /\ Clearing => Clearing' \/ Waiting' = {}

LEMMA QuietKeepsTurns ==
  ASSUME TypeInv, Turns, Quiet
  PROVE  Turns'
<1>1. Waiting' \subseteq Waiting
  BY QueueAfterStop DEF Quiet, Stopped, Waiting
<1>2. NoOne \notin Numbered
  BY SpeechConstants DEF Numbered
<1>3. SpeakerInOrder'
  BY DEF Turns, Quiet, SpeakerInOrder
<1>4. QueueInOrder'
  <2>1. QueueInOrder
    BY DEF Turns
  <2>2. ~Clearing' => \A i \in Waiting' : Turn[i] = latest
    BY <1>1, <2>1 DEF Quiet, QueueInOrder
  <2> QED BY <1>1, <2>1, <2>2 DEF Quiet, QueueInOrder
<1>5. ActiveInOrder'
  BY <1>1, <1>2 DEF Turns, Quiet, ActiveInOrder
<1> QED BY <1>3, <1>4, <1>5 DEF Turns

(* The call r goes on: it enters neither the admission nor a preemption,   *)
(* and gives up the request lock only when it is out of both.              *)
GoesOn(r, at) ==
  /\ Goto(r, at)
  /\ at \in Admitted => pc[r] \in Admitted \/ r \notin Numbered
  /\ at \in Preempting => pc[r] \in Preempting
  /\ qlock' = qlock \/ (qlock = r /\ at \notin Admitted)

(* What the preemption of r leaves behind when it ends.                    *)
Cleared(r, at) == pc[r] \in Preempting => at \in Preempting \/ Waiting' = {}

LEMMA GoesOnKeeps ==
  ASSUME TypeInv, OrderInv, NEW r \in Requests, NEW at, GoesOn(r, at), Cleared(r, at),
         Stopped, latest' = latest, heard' = heard,
         active' = NoOne \/ (active' = active /\ pc[r] # "frame")
  PROVE  OrderKept
<1>1. pc' = [pc EXCEPT ![r] = at] /\ DOMAIN pc = Requests
  BY DEF GoesOn, Goto, TypeInv, PlainOK, Names
<1>2. \A s \in Requests : s # r => pc'[s] = pc[s]
  BY <1>1
<1>3. pc'[r] = at
  BY <1>1
<1>4. Clearing => Clearing' \/ Waiting' = {}
  BY <1>2, <1>3 DEF Clearing, Cleared
<1>5. Turns'
  BY <1>4, QuietKeepsTurns DEF OrderInv, Quiet
<1>6. AdmittedIsLatest'
  <2> SUFFICES ASSUME NEW s \in Numbered, pc'[s] \in Admitted
               PROVE  qlock' = s /\ Turn[s] = latest
    BY DEF AdmittedIsLatest
  <2>1. s \in Requests
    BY DEF Numbered
  <2>2. pc[s] \in Admitted
    BY <1>2, <1>3, <2>1 DEF GoesOn
  <2>3. qlock = s /\ Turn[s] = latest
    BY <2>2 DEF OrderInv, Calls, AdmittedIsLatest
  <2> QED BY <1>3, <2>3 DEF GoesOn
<1>7. ClearingIsNumbered'
  BY <1>2, <1>3 DEF ClearingIsNumbered, OrderInv, Calls, GoesOn
<1>8. ActiveIsHeld'
  BY <1>2 DEF OrderInv, Calls, ActiveIsHeld
<1>9. NotAfter(heard, heard')
  BY DEF NotAfter
<1> QED BY <1>5, <1>6, <1>7, <1>8, <1>9 DEF OrderKept, OrderInv, Calls

(* Nobody goes on: a stop or a rejection at most.                          *)
LEMMA StandstillKeeps ==
  ASSUME TypeInv, OrderInv, Stopped, pc' = pc, qlock' = qlock, active' = active,
         latest' = latest, heard' = heard
  PROVE  OrderKept
<1>1. Turns'
  BY QuietKeepsTurns DEF OrderInv, Quiet, Clearing
<1>2. Calls'
  BY DEF OrderInv, Calls, AdmittedIsLatest, ClearingIsNumbered, ActiveIsHeld
<1> QED BY <1>1, <1>2 DEF OrderKept, OrderInv, NotAfter

(* Nobody else clears the queue or waits for a frame while r, with a       *)
(* number, takes a free speaker.                                           *)
LEMMA BeginKeeps ==
  ASSUME TypeInv, OrderInv, NEW r \in Requests, NEW at \in Playing, at # "frame",
         pc[r] \in {"take", "retake", "claim"}, Begin(r, at),
         \A s \in Requests : pc[s] # "frame",
         pending' = pending, active' = active, latest' = latest
  PROVE  OrderKept
<1>1. GoesOn(r, at) /\ Cleared(r, at) /\ Stopped
  BY DEF Begin, Leave, GoesOn, Cleared, Stopped, Admitted, Asking, Playing, Preempting
<1>2. CASE r \notin Numbered
  <2>1. Turn[r].seq = 0
    BY <1>2, TurnConstants DEF Numbered
  <2>2. heard' = heard
    BY <2>1 DEF Begin, Voiced
  <2> QED BY <1>1, <2>2, GoesOnKeeps
<1>3. CASE r \in Numbered
  <2>1. heard' = Turn[r]
    BY <1>3, TurnConstants DEF Begin, Voiced, Numbered
  <2>2. qlock = r /\ Turn[r] = latest
    BY <1>3 DEF OrderInv, Calls, AdmittedIsLatest, Admitted, Asking
  <2>3. active = NoOne /\ NoOne \notin Numbered
    BY SpeechConstants DEF OrderInv, Calls, ActiveIsHeld, Numbered
  <2>4. ~Clearing
    <3> SUFFICES ASSUME NEW s \in Requests, pc[s] \in Preempting
                 PROVE  FALSE
      BY DEF Clearing
    <3>1. s \in Numbered /\ pc[s] \in Admitted
      BY DEF OrderInv, Calls, ClearingIsNumbered, Preempting, Admitted, Asking
    <3>2. s = r
      BY <2>2, <3>1 DEF OrderInv, Calls, AdmittedIsLatest
    <3> QED BY <3>2 DEF Preempting
  <2>5. \A i \in Waiting : Turn[i] = latest
    BY <2>4 DEF OrderInv, Turns, QueueInOrder
  <2>6. pc' = [pc EXCEPT ![r] = at] /\ DOMAIN pc = Requests
    BY DEF Begin, Leave, Goto, TypeInv, PlainOK, Names
  <2>7. Turns'
    <3>1. Waiting' = Waiting
      BY DEF Waiting
    <3>2. SpeakerInOrder'
      BY <2>1, <2>2 DEF OrderInv, Turns, SpeakerInOrder, NotAfter
    <3>3. QueueInOrder'
      BY <2>1, <2>2, <2>5, <3>1 DEF QueueInOrder, NotAfter
    <3>4. ActiveInOrder'
      BY <2>3 DEF ActiveInOrder
    <3> QED BY <3>2, <3>3, <3>4 DEF Turns
  <2>8. Calls'
    <3>1. AdmittedIsLatest'
      <4> SUFFICES ASSUME NEW s \in Numbered, pc'[s] \in Admitted
                   PROVE  FALSE
        BY DEF AdmittedIsLatest
      <4>1. s # r /\ pc'[s] = pc[s]
        BY <1>3, <2>6 DEF Admitted, Asking, Playing, Numbered
      <4> QED BY <2>2, <4>1 DEF OrderInv, Calls, AdmittedIsLatest
    <3>2. ClearingIsNumbered'
      BY <2>6 DEF OrderInv, Calls, ClearingIsNumbered, Preempting, Playing
    <3>3. ActiveIsHeld'
      BY <2>3 DEF ActiveIsHeld
    <3> QED BY <3>1, <3>2, <3>3 DEF Calls
  <2>9. NotAfter(heard, heard')
    BY <2>1, <2>2 DEF OrderInv, Turns, SpeakerInOrder
  <2> QED BY <2>7, <2>8, <2>9 DEF OrderKept, OrderInv
<1> QED BY <1>2, <1>3

-----------------------------------------------------------------------------
(* A call is admitted: it is older than the latest and dropped, or becomes *)
(* the latest, and preempts or leaves no number in the queue.              *)
LEMMA AdmitKeepsOrder ==
  ASSUME NotLate, TypeInv, OrderInv, NEW r \in Requests, Admit(r)
  PROVE  OrderKept
<1> DEFINE t == Turn[r]
           newer == t.seq > 0 /\ (CounterRestarted(t) \/ t.seq > latest.seq)
<1>1. /\ pc[r] = "admit" /\ qlock = NoOne
      /\ active' = active /\ heard' = heard /\ speaking' = speaking
  BY DEF Admit, speaker, queues, ghosts
<1>2. CASE Superseded(t)
  <2>1. GoesOn(r, "done") /\ Cleared(r, "done") /\ Stopped /\ latest' = latest
    BY <1>1, <1>2 DEF Admit, queues, GoesOn, Cleared, Stopped, Admitted, Asking, Preempting
  <2> QED BY <1>1, <2>1, GoesOnKeeps
<1>3. CASE ~Superseded(t)
  <2>1. PICK at \in {"preempt", "take"} :
          /\ pc' = [pc EXCEPT ![r] = at]
          /\ at = "take" /\ newer =>
               \/ pending = <<>>
               \/ pending' = Kept(pending, {i \in Requests : Class[i] = "reply"})
          /\ at = "preempt" => newer
    BY <1>3 DEF Admit, Goto
  <2>2. qlock' = r /\ latest' = (IF newer THEN t ELSE latest) /\ Stopped
        /\ (~newer => pending' = pending)
    BY <1>3 DEF Admit, Stopped
  <2>3. DOMAIN pc = Requests
    BY DEF TypeInv, PlainOK, Names
  <2>4. \A s \in Numbered : pc[s] \notin Admitted
    BY <1>1, SpeechConstants DEF OrderInv, Calls, AdmittedIsLatest, Numbered
  <2>5. ~Clearing
    BY <2>4 DEF Clearing, OrderInv, Calls, ClearingIsNumbered, Preempting, Admitted, Asking
  <2>6. Waiting' \subseteq Waiting
    BY <2>2, QueueAfterStop DEF Stopped, Waiting
  <2>7. latest \in Values /\ (r \in Numbered => t \in Values)
    BY DEF OrderInv, Turns, SpeakerInOrder, Values
  <2>8. r \in Numbered <=> t.seq > 0
    BY DEF Numbered
  <2>9. NotAfter(latest, latest')
    <3>1. CASE newer
      <4>1. latest.stamp \in Nat /\ t.stamp \in Nat
        BY <2>7, <2>8, <3>1, ValuesAreTurns
      <4> QED BY <2>2, <3>1, <4>1 DEF NotAfter, CounterRestarted, NotLate
    <3>2. CASE ~newer
      BY <2>2, <3>2 DEF NotAfter
    <3> QED BY <3>1, <3>2
  <2>10. r \in Numbered => latest' = t
    <3>1. CASE newer
      BY <2>2, <3>1
    <3>2. CASE r \in Numbered /\ ~newer
      <4>1. latest.seq \in Nat /\ t.seq \in Nat
        BY <2>7, <3>2, ValuesAreTurns
      <4>2. ~CounterRestarted(t) /\ ~(t.seq > latest.seq)
        BY <2>8, <3>2
      <4>3. ~(t.seq < latest.seq) /\ ~(t.seq = latest.seq /\ t # latest)
        BY <1>3, <2>8, <3>2, <4>2 DEF Superseded
      <4>4. t = latest
        BY <4>1, <4>2, <4>3
      <4> QED BY <2>2, <3>2, <4>4
    <3> QED BY <3>1, <3>2
  <2>11. latest' \in Values /\ (newer => r \in Numbered)
    BY <2>2, <2>7, <2>8
  <2>12. SpeakerInOrder'
    BY <1>1, <2>7, <2>9, <2>11, NotAfterChains DEF OrderInv, Turns, SpeakerInOrder
  <2>13. \A i \in Numbered : NotAfter(Turn[i], latest) => NotAfter(Turn[i], latest')
    <3>1. \A i \in Numbered : Turn[i] \in Values
      BY DEF Values
    <3> QED BY <2>7, <2>9, <2>11, <3>1, NotAfterChains
  <2>14. QueueInOrder'
    <3>1. \A i \in Waiting' : NotAfter(heard, Turn[i]) /\ NotAfter(Turn[i], latest')
      BY <2>6, <2>13 DEF OrderInv, Turns, QueueInOrder, Waiting
    <3>2. \A i, j \in Waiting' : Turn[i] = Turn[j]
      BY <2>6 DEF OrderInv, Turns, QueueInOrder
    <3>3. ~Clearing' => \A i \in Waiting' : Turn[i] = latest'
      <4>1. CASE ~newer
        BY <2>2, <2>5, <2>6, <4>1 DEF OrderInv, Turns, QueueInOrder
      <4>2. CASE newer /\ at = "preempt"
        BY <2>1, <2>3, <4>2 DEF Clearing, Preempting
      <4>3. CASE newer /\ pending = <<>>
        BY <2>6, <4>3 DEF Waiting, ToSet
      <4>4. CASE newer /\ pending' = Kept(pending, {i \in Requests : Class[i] = "reply"})
        <5>1. ToSet(pending') \subseteq {i \in Requests : Class[i] = "reply"}
          BY <4>4, KeptIsQueued DEF TypeInv, QueueOK
        <5>2. \A i \in Numbered : Class[i] # "reply"
          BY TurnConstants DEF Numbered
        <5> QED BY <5>1, <5>2 DEF Waiting
      <4> QED BY <2>1, <4>1, <4>2, <4>3, <4>4
    <3> QED BY <1>1, <3>1, <3>2, <3>3 DEF QueueInOrder
  <2>15. ActiveInOrder'
    BY <1>1, <2>6, <2>13 DEF OrderInv, Turns, ActiveInOrder
  <2>16. AdmittedIsLatest'
    <3> SUFFICES ASSUME NEW s \in Numbered, pc'[s] \in Admitted
                 PROVE  qlock' = s /\ Turn[s] = latest'
      BY DEF AdmittedIsLatest
    <3>1. s = r
      BY <2>1, <2>3, <2>4 DEF Numbered
    <3> QED BY <2>2, <2>10, <3>1
  <2>17. ClearingIsNumbered'
    BY <2>1, <2>3, <2>11 DEF OrderInv, Calls, ClearingIsNumbered, Preempting
  <2>18. ActiveIsHeld'
    BY <1>1, <2>1, <2>3 DEF OrderInv, Calls, ActiveIsHeld
  <2>19. NotAfter(heard, heard')
    BY <1>1 DEF NotAfter
  <2> QED BY <2>12, <2>14, <2>15, <2>16, <2>17, <2>18, <2>19 DEF OrderKept, OrderInv, Turns,
             Calls
<1> QED BY <1>2, <1>3

(* Who parks holds the request lock, so nothing is being cleared and only  *)
(* its own turn waits.                                                     *)
LEMMA AppendKeepsOrder ==
  ASSUME TypeInv, OrderInv, NEW r \in Requests, AppendItem(r)
  PROVE  OrderKept
<1>1. /\ pc[r] = "append" /\ active' = active /\ latest' = latest /\ heard' = heard
      /\ pending' = Append(pending, r)
      /\ qlock' = IF qlock = r THEN NoOne ELSE qlock
  BY DEF AppendItem, Leave
<1>2. PICK at \in Past : at # "frame" /\ pc' = [pc EXCEPT ![r] = at]
  BY DEF AppendItem, Leave, Goto, Past, Playing
<1>3. DOMAIN pc = Requests
  BY DEF TypeInv, PlainOK, Names
<1>4. Waiting' \subseteq Waiting \cup ({r} \cap Numbered)
  <2> DEFINE l == Len(pending)
  <2>1. pending \in Seq(Requests) /\ l \in Nat /\ DOMAIN pending = 1 .. l
    BY LenProperties DEF TypeInv, QueueOK
  <2>2. /\ pending' \in Seq(Requests) /\ Len(pending') = l + 1
        /\ \A i \in 1 .. l : pending'[i] = pending[i]
        /\ pending'[l + 1] = r
    BY <1>1, <2>1, AppendProperties
  <2>3. DOMAIN pending' = 1 .. l + 1 /\ \A i \in 1 .. l + 1 : i \in 1 .. l \/ i = l + 1
    BY <2>1, <2>2, LenProperties
  <2>4. \A i \in DOMAIN pending' : pending'[i] \in ToSet(pending) \cup {r}
    BY <2>1, <2>2, <2>3 DEF ToSet
  <2> QED BY <2>4 DEF Waiting, ToSet
<1>5. r \in Numbered => qlock = r /\ Turn[r] = latest
  BY <1>1 DEF OrderInv, Calls, AdmittedIsLatest, Admitted, Asking
<1>6. r \in Numbered => ~Clearing
  <2> SUFFICES ASSUME r \in Numbered, NEW s \in Requests, pc[s] \in Preempting
               PROVE  FALSE
    BY DEF Clearing
  <2>1. s \in Numbered /\ pc[s] \in Admitted
    BY DEF OrderInv, Calls, ClearingIsNumbered, Preempting, Admitted, Asking
  <2>2. s = r
    BY <1>5, <2>1 DEF OrderInv, Calls, AdmittedIsLatest
  <2> QED BY <1>1, <2>2 DEF Preempting
<1>7. Clearing' <=> Clearing
  BY <1>1, <1>2, <1>3 DEF Clearing, Preempting, Past, Playing
<1>8. SpeakerInOrder'
  BY <1>1 DEF OrderInv, Turns, SpeakerInOrder
<1>9. QueueInOrder' /\ ActiveInOrder'
  <2>1. SpeakerInOrder /\ QueueInOrder /\ ActiveInOrder
    BY DEF OrderInv, Turns
  <2>2. CASE r \notin Numbered
    BY <1>1, <1>4, <1>7, <2>1, <2>2 DEF QueueInOrder, ActiveInOrder
  <2>3. CASE r \in Numbered
    <3>1. \A i \in Waiting' : Turn[i] = latest
      BY <1>4, <1>5, <1>6, <2>1, <2>3 DEF QueueInOrder
    <3>2. QueueInOrder'
      BY <1>1, <2>1, <3>1 DEF QueueInOrder, SpeakerInOrder, NotAfter
    <3>3. ActiveInOrder'
      BY <1>1, <2>1, <3>1 DEF ActiveInOrder
    <3> QED BY <3>2, <3>3
  <2> QED BY <2>2, <2>3
<1>10. AdmittedIsLatest'
  <2> SUFFICES ASSUME NEW s \in Numbered, pc'[s] \in Admitted
               PROVE  qlock' = s /\ Turn[s] = latest
    BY <1>1 DEF AdmittedIsLatest
  <2>1. s # r /\ pc'[s] = pc[s]
    BY <1>2, <1>3 DEF Admitted, Asking, Past, Playing, Numbered
  <2>2. qlock = s /\ Turn[s] = latest
    BY <2>1 DEF OrderInv, Calls, AdmittedIsLatest
  <2> QED BY <1>1, <2>1, <2>2
<1>11. ClearingIsNumbered'
  BY <1>2, <1>3 DEF OrderInv, Calls, ClearingIsNumbered, Preempting, Past, Playing
<1>12. ActiveIsHeld'
  BY <1>1, <1>2, <1>3 DEF OrderInv, Calls, ActiveIsHeld
<1> QED BY <1>1, <1>8, <1>9, <1>10, <1>11, <1>12 DEF OrderKept, OrderInv, Turns, Calls,
           NotAfter

(* What is taken out is of the one turn that waits.                        *)
LEMMA PopKeepsOrder ==
  ASSUME TypeInv, OrderInv, NEW r \in Requests, DrainPops(r)
  PROVE  OrderKept
<1>1. /\ pc[r] = "pop" /\ latest' = latest /\ heard' = heard /\ qlock' = qlock
  BY DEF DrainPops, ghosts
<1>2. CASE pending = <<>>
  <2>1. /\ GoesOn(r, "finish") /\ Cleared(r, "finish") /\ Stopped
        /\ active' = active
    BY <1>1, <1>2 DEF DrainPops, GoesOn, Cleared, Stopped, Admitted, Asking, Preempting
  <2> QED BY <1>1, <2>1, GoesOnKeeps
<1>3. CASE pending # <<>>
  <2>1. /\ pending' = Tail(pending) /\ active' = Head(pending)
        /\ pc' = [pc EXCEPT ![r] = "frame"]
    BY <1>3 DEF DrainPops, Goto
  <2> DEFINE l == Len(pending)
  <2>2. pending \in Seq(Requests) /\ l \in Nat /\ l # 0 /\ DOMAIN pending = 1 .. l
    BY <1>3, LenProperties, EmptySeq DEF TypeInv, QueueOK
  <2>3. /\ pending' \in Seq(Requests) /\ Len(pending') = l - 1
        /\ \A i \in 1 .. l - 1 : pending'[i] = pending[i + 1]
        /\ active' = pending[1]
    BY <1>3, <2>1, <2>2, HeadTailProperties
  <2>4. DOMAIN pending' = 1 .. l - 1
    BY <2>3, LenProperties
  <2>5. \A i \in 1 .. l - 1 : i + 1 \in 1 .. l
    BY <2>2
  <2>6. Waiting' \subseteq Waiting /\ active' \in ToSet(pending)
    BY <2>2, <2>3, <2>4, <2>5 DEF Waiting, ToSet
  <2>7. DOMAIN pc = Requests
    BY DEF TypeInv, PlainOK, Names
  <2>8. Clearing' <=> Clearing
    BY <1>1, <2>1, <2>7 DEF Clearing, Preempting
  <2>9. SpeakerInOrder' /\ QueueInOrder'
    BY <1>1, <2>6, <2>8 DEF OrderInv, Turns, SpeakerInOrder, QueueInOrder
  <2>10. ActiveInOrder'
    <3>1. active' \in Numbered => active' \in Waiting
      BY <2>6 DEF Waiting
    <3> QED BY <1>1, <2>6, <3>1 DEF OrderInv, Turns, QueueInOrder, ActiveInOrder, NotAfter
  <2>11. AdmittedIsLatest' /\ ClearingIsNumbered'
    BY <1>1, <2>1, <2>7 DEF OrderInv, Calls, AdmittedIsLatest, ClearingIsNumbered, Admitted,
       Asking, Preempting, Numbered
  <2>12. ActiveIsHeld'
    BY <2>1, <2>7 DEF ActiveIsHeld
  <2> QED BY <1>1, <2>9, <2>10, <2>11, <2>12 DEF OrderKept, OrderInv, Turns, Calls, NotAfter
<1> QED BY <1>2, <1>3

(* The item becomes what is heard: it was not after what waits behind it.  *)
LEMMA FrameKeepsOrder ==
  ASSUME TypeInv, OrderInv, NEW r \in Requests, FirstFrame(r)
  PROVE  OrderKept
<1>1. /\ pc[r] = "frame" /\ active' = NoOne /\ latest' = latest /\ pending' = pending
      /\ qlock' = qlock
  BY DEF FirstFrame
<1>2. PICK at \in {"finish", "segment"} : Goto(r, at)
  BY DEF FirstFrame
<1>3. GoesOn(r, at) /\ Cleared(r, at) /\ Stopped
  BY <1>1, <1>2 DEF GoesOn, Cleared, Stopped, Admitted, Asking, Preempting
<1>4. active \in Requests
  BY <1>1 DEF TypeInv, QueueOK, Popped
<1>5. CASE active \notin Numbered \/ heard' = heard
  <2>1. heard' = heard
    <3>1. active \notin Numbered => Turn[active].seq = 0
      BY <1>4, TurnConstants DEF Numbered
    <3> QED BY <1>5, <3>1 DEF FirstFrame, Voiced
  <2> QED BY <1>1, <1>3, <2>1, GoesOnKeeps
<1>6. CASE active \in Numbered /\ heard' # heard
  <2>1. heard' = Turn[active]
    BY <1>6 DEF FirstFrame, Voiced, Numbered
  <2>2. /\ NotAfter(heard, Turn[active]) /\ NotAfter(Turn[active], latest)
        /\ \A i \in Waiting : NotAfter(Turn[active], Turn[i])
    BY <1>6 DEF OrderInv, Turns, ActiveInOrder
  <2>3. pc' = [pc EXCEPT ![r] = at] /\ DOMAIN pc = Requests
    BY <1>2 DEF Goto, TypeInv, PlainOK, Names
  <2>4. (Clearing' <=> Clearing) /\ Waiting' = Waiting
    BY <1>1, <2>3 DEF Clearing, Preempting, Waiting
  <2>5. SpeakerInOrder'
    BY <1>1, <1>6, <2>1, <2>2 DEF OrderInv, Turns, SpeakerInOrder, Values
  <2>6. QueueInOrder'
    BY <1>1, <2>1, <2>2, <2>4 DEF OrderInv, Turns, QueueInOrder
  <2>7. ActiveInOrder' /\ ActiveIsHeld'
    BY <1>1, SpeechConstants DEF ActiveInOrder, ActiveIsHeld, Numbered
  <2>8. AdmittedIsLatest' /\ ClearingIsNumbered'
    BY <1>1, <2>3 DEF OrderInv, Calls, AdmittedIsLatest, ClearingIsNumbered, Admitted,
       Asking, Preempting, Numbered
  <2> QED BY <2>1, <2>2, <2>5, <2>6, <2>7, <2>8 DEF OrderKept, OrderInv, Turns, Calls
<1> QED BY <1>5, <1>6

-----------------------------------------------------------------------------
(* The other steps.                                                        *)
LEMMA StopEmpties ==
  ASSUME TypeInv, StopLive(FALSE) \/ ClearPending
  PROVE  Stopped /\ Waiting' = {}
<1>1. CASE StopLive(FALSE)
  <2>1. pending' = Kept(pending, {})
    <3>1. {i \in Requests : FALSE /\ Class[i] = "main"} = {}
      OBVIOUS
    <3> QED BY <1>1, <3>1 DEF StopLive
  <2>2. ToSet(pending') = {}
    BY <2>1, KeptIsQueued DEF TypeInv, QueueOK
  <2> QED BY <2>1, <2>2 DEF Stopped, Waiting
<1>2. CASE ClearPending
  BY <1>2 DEF ClearPending, Stopped, Waiting, ToSet
<1> QED BY <1>1, <1>2

LEMMA AskKeepsOrder ==
  ASSUME NotLate, TypeInv, OrderInv, NEW r \in Requests, Ask(r)
  PROVE  OrderKept
<1> DEFINE Goes == /\ \E at : GoesOn(r, at) /\ Cleared(r, at)
                   /\ Stopped /\ latest' = latest /\ heard' = heard /\ active' = active
                   /\ pc[r] # "frame"
<1>1. ASSUME Goes
      PROVE  OrderKept
  BY <1>1, GoesOnKeeps
<1>2. CASE Arrive(r)
  <2>1. PICK at \in {"done", "admit", "try"} :
          Goto(r, at) /\ (at = "try" => Kind[r] # "queue")
    BY <1>2 DEF Arrive
  <2>2. at = "try" => r \notin Numbered
    BY <2>1, TurnConstants DEF Numbered
  <2>3. GoesOn(r, at) /\ Cleared(r, at)
    BY <1>2, <2>1, <2>2 DEF Arrive, queues, GoesOn, Cleared, Admitted, Asking, Preempting
  <2> QED BY <1>1, <1>2, <2>3 DEF Arrive, queues, ghosts, Stopped
<1>3. CASE Preempt(r)
  <2>1. /\ pc[r] = "preempt" /\ StopAll /\ Goto(r, IF live THEN "retake" ELSE "clearQueue")
        /\ qlock' = qlock /\ latest' = latest /\ heard' = heard /\ active' = active
    BY <1>3 DEF Preempt
  <2>2. CASE live
    <3>1. Stopped /\ Waiting' = {}
      BY <2>1, <2>2, StopEmpties DEF StopAll
    <3>2. GoesOn(r, "retake") /\ Cleared(r, "retake")
      BY <2>1, <2>2, <3>1 DEF GoesOn, Cleared, Admitted, Asking, Preempting
    <3> QED BY <1>1, <2>1, <3>1, <3>2
  <2>3. CASE ~live
    <3>1. GoesOn(r, "clearQueue") /\ Cleared(r, "clearQueue") /\ Stopped
      BY <2>1, <2>3, StopStops DEF GoesOn, Cleared, Admitted, Asking, Preempting
    <3> QED BY <1>1, <2>1, <3>1
  <2> QED BY <2>2, <2>3
<1>4. CASE ClearAfterStop(r)
  <2>1. PICK at \in {"wait", "retake"} : Goto(r, at)
    BY <1>4 DEF ClearAfterStop
  <2>2. Stopped /\ Waiting' = {}
    BY <1>4, StopEmpties DEF ClearAfterStop
  <2>3. GoesOn(r, at) /\ Cleared(r, at)
    BY <1>4, <2>1, <2>2 DEF ClearAfterStop, GoesOn, Cleared, Admitted, Asking, Preempting
  <2> QED BY <1>1, <1>4, <2>2, <2>3 DEF ClearAfterStop
<1>5. CASE Take(r)
  <2>1. CASE UNCHANGED <<speaker, queues, ghosts>>
    <3>1. PICK at \in {"try", "append"} : Goto(r, at)
      BY <1>5, <2>1 DEF Take, Begin, speaker
    <3>2. GoesOn(r, at) /\ Cleared(r, at)
      BY <1>5, <2>1, <3>1 DEF Take, queues, GoesOn, Cleared, Admitted, Asking, Preempting
    <3> QED BY <1>1, <1>5, <2>1, <3>2 DEF Take, queues, ghosts, Stopped
  <2>2. CASE ~lock /\ Begin(r, "head") /\ UNCHANGED <<pending, active, latest>>
    <3>1. \A s \in Requests : pc[s] # "frame"
      BY <2>2 DEF TypeInv, VoiceInv, OneVoice, Playing
    <3> QED BY <1>5, <2>2, <3>1, BeginKeeps DEF Take, Playing
  <2> QED BY <1>5, <2>1, <2>2 DEF Take
<1>6. CASE GiveUp(r)
  <2>1. GoesOn(r, "done") /\ Cleared(r, "done")
    BY <1>6 DEF GiveUp, Leave, GoesOn, Cleared, Admitted, Asking, Preempting
  <2> QED BY <1>1, <1>6, <2>1 DEF GiveUp, ghosts, Stopped
<1>7. CASE TryLock(r)
  <2>1. PICK at \in {"busy", "claim"} : Goto(r, at)
    BY <1>7 DEF TryLock
  <2>2. GoesOn(r, at) /\ Cleared(r, at)
    BY <1>7, <2>1 DEF TryLock, queues, GoesOn, Cleared, Admitted, Asking, Preempting
  <2> QED BY <1>1, <1>7, <2>2 DEF TryLock, queues, ghosts, Stopped
<1>8. CASE Busy(r)
  <2>1. PICK at \in {"wait", "clear", "done"} :
          /\ Goto(r, at)
          /\ qlock' = qlock \/ (qlock = r /\ at = "done")
    BY <1>8 DEF Busy, Leave
  <2>2. GoesOn(r, at) /\ Cleared(r, at)
    BY <1>8, <2>1 DEF Busy, GoesOn, Cleared, Admitted, Asking, Preempting
  <2>3. Stopped
    BY <1>8, StopStops DEF Busy, Stopped
  <2> QED BY <1>1, <1>8, <2>2, <2>3 DEF Busy
<1>9. CASE WaitLock(r)
  <2>1. GoesOn(r, "claim") /\ Cleared(r, "claim")
    BY <1>9 DEF WaitLock, queues, GoesOn, Cleared, Admitted, Asking, Preempting
  <2> QED BY <1>1, <1>9, <2>1 DEF WaitLock, queues, ghosts, Stopped
<1>10. CASE ClaimRefused(r)
  <2>1. GoesOn(r, "done") /\ Cleared(r, "done")
    BY <1>10 DEF ClaimRefused, Leave, GoesOn, Cleared, Admitted, Asking, Preempting
  <2> QED BY <1>1, <1>10, <2>1 DEF ClaimRefused, Stopped
<1>11. CASE Claim(r)
  <2>1. PICK at \in {"native", "wav", "head"} : Begin(r, at)
    BY <1>11 DEF Claim
  <2>2. \A s \in Requests : pc[s] # "frame"
    BY <1>11 DEF Claim, TypeInv, VoiceInv, OneVoice, Playing
  <2> QED BY <1>11, <2>1, <2>2, BeginKeeps DEF Claim, Playing
<1> QED BY <1>2, <1>3, <1>4, <1>5, <1>6, <1>7, <1>8, <1>9, <1>10, <1>11, AdmitKeepsOrder,
           AppendKeepsOrder DEF Ask

LEMMA PlayKeepsOrder ==
  ASSUME TypeInv, OrderInv, NEW r \in Requests, Play(r) \/ StreamFails(r)
  PROVE  OrderKept
<1> DEFINE Goes == /\ pc[r] \in Past
                   /\ \E at \in Past : Goto(r, at)
                   /\ qlock' = qlock /\ latest' = latest /\ heard' = heard
                   /\ pending' = pending
                   /\ active' = NoOne \/ (active' = active /\ pc[r] # "frame")
<1>1. ASSUME Goes
      PROVE  OrderKept
  <2>1. PICK at \in Past : Goto(r, at)
    BY <1>1
  <2>2. GoesOn(r, at) /\ Cleared(r, at)
    BY <1>1, <2>1 DEF GoesOn, Cleared, Admitted, Asking, Preempting, Past, Playing
  <2> QED BY <1>1, <2>2, GoesOnKeeps DEF Stopped
<1>2. CASE HeadEnds(r)
  BY <1>1, <1>2 DEF HeadEnds, queues, ghosts, Past, Playing
<1>3. CASE DrainLooks(r)
  BY <1>1, <1>3 DEF DrainLooks, queues, ghosts, Past, Playing
<1>4. CASE NoFrame(r)
  BY <1>1, <1>4 DEF NoFrame, ghosts, Past, Playing
<1>5. CASE SegmentEnds(r)
  BY <1>1, <1>5 DEF SegmentEnds, queues, ghosts, Past, Playing
<1>6. CASE Finish(r)
  BY <1>1, <1>6 DEF Finish, queues, ghosts, Past, Playing
<1>7. CASE Release(r)
  BY <1>1, <1>7 DEF Release, queues, Past, Playing
<1>8. CASE LeaveNative(r)
  BY <1>1, <1>8 DEF LeaveNative, queues, ghosts, Past, Playing
<1>9. CASE StreamFails(r)
  BY <1>1, <1>9 DEF StreamFails, queues, ghosts, Past, Playing
<1> QED BY <1>2, <1>3, <1>4, <1>5, <1>6, <1>7, <1>8, <1>9, PopKeepsOrder,
           FrameKeepsOrder DEF Play

LEMMA OrderInvStep ==
  ASSUME latest' = latest \/ NotLate, TypeInv, OrderInv, [Next]_vars
  PROVE  OrderKept
<1>0. NotLate
  BY ValuesAreTurns DEF NotLate, OrderInv, Turns, SpeakerInOrder
<1>1. CASE \E r \in Requests : Ask(r) \/ Play(r) \/ StreamFails(r)
  BY <1>0, <1>1, AskKeepsOrder, PlayKeepsOrder
<1>2. CASE UNCHANGED vars
  BY <1>2, StandstillKeeps DEF vars, queues, ghosts, Stopped
<1>3. CASE Hush \/ AskStop \/ BeginCapture \/ EndCapture
  BY <1>3, StandstillKeeps DEF Hush, AskStop, BeginCapture, EndCapture, queues, ghosts,
     Stopped
<1>4. CASE Stop \/ StopLiveOutput
  BY <1>4, StandstillKeeps, StopStops DEF Stop, StopLiveOutput
<1>5. CASE RejectReply
  <2>1. Stopped
    BY <1>5 DEF RejectReply, StopRealtimeReply, Stopped
  <2> QED BY <1>5, <2>1, StandstillKeeps DEF RejectReply
<1> QED BY <1>1, <1>2, <1>3, <1>4, <1>5 DEF Next

(* A turn that is older by its number and by its stamp never takes the     *)
(* speaker after a newer one (speak_queue, "newest turn wins"), through    *)
(* every restart of the counter (_counter_restarted), in every run in      *)
(* which no turn of an earlier counter comes late.                         *)
THEOREM TurnsInOrderAlways == Spec /\ [][NotLate]_latest => TurnsInOrder
<1>1. ASSUME TypeInv, OrderInv, [Next]_vars, [NotLate]_latest
      PROVE  OrderInv' /\ [~(heard'.seq <= heard.seq /\ heard'.stamp < heard.stamp)]_heard
  <2>1. OrderInv' /\ NotAfter(heard, heard')
    BY <1>1, OrderInvStep DEF OrderKept
  <2>2. heard \in Values /\ heard' \in Values
    BY <1>1, <2>1 DEF OrderInv, Turns, SpeakerInOrder
  <2>3. heard.stamp \in Nat /\ heard'.stamp \in Nat
    BY <2>2, ValuesAreTurns
  <2> QED BY <2>1, <2>3 DEF NotAfter, NoTurn
<1> QED BY <1>1, OrderInvInit, TypeInvInit, TypeInvStep, PTL DEF Spec, TurnsInOrder

=============================================================================
