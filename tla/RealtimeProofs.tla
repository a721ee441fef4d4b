--------------------------- MODULE RealtimeProofs ---------------------------
(***************************************************************************)
(* What holds of the realtime session for any number of agents, captures,  *)
(* frames, outages and announcements.                                      *)
(*                                                                         *)
(* SessionInv says who owns the agents: a stop owns the one it took, a     *)
(* start the one it made, a rebuild the one it replaces, and only an agent *)
(* with loops can be contaminated or hold audio.  A discard can therefore  *)
(* never take away the agent a start is still connecting.                  *)
(*                                                                         *)
(* TurnInv says what keeps an announcement apart from a capture: from the  *)
(* mark of the capture on, every announcement that has not begun to speak  *)
(* finds a turn in flight.                                                 *)
(*                                                                         *)
(* Typed says that only captures that were opened leave frames behind.     *)
(***************************************************************************)
EXTENDS RealtimeTurn, TLAPS

Shapes ==
  /\ agent \in Agents \cup {None} /\ starting \in Agents \cup {None}
  /\ stopping \in Agents \cup {None}
  /\ loops \subseteq Agents /\ up \subseteq loops /\ stale \subseteq loops
  /\ DOMAIN activity = Agents
  /\ \A k \in Agents \ loops : activity[k] = {}
  /\ started \in BOOLEAN /\ retrying \in BOOLEAN /\ retryStop \in BOOLEAN
  /\ parked \in BOOLEAN

RebuildShape ==
  /\ rebuild \in [why : Reasons, by : 0 .. Committer, old : Agents \cup {None}]
  /\ IF Rebuilding THEN agent \in {rebuild.old, None} ELSE rebuild.old = None

(* A start and a stop own the agent they work on, one at a time.           *)
Owners ==
  /\ stopping # None => ~started /\ starting = None /\ agent = None
  /\ starting # None => ~started /\ agent = starting /\ starting \notin loops /\ ~retryStop
  /\ (starting # None /\ Rebuilding) => ~Discards(rebuild.why)

SessionInv == Shapes /\ RebuildShape /\ Owners /\ SessionsOwned /\ DownIsRepaired

-----------------------------------------------------------------------------
(* The steps that leave the agents, their loops and the lifecycle alone.   *)
LEMMA QuietStep ==
  ASSUME SessionInv,
         UNCHANGED <<ends, agent, loops, up, parked>>,
         stale' \subseteq loops,
         DOMAIN activity' = Agents,
         \A k \in Agents \ loops : activity'[k] = {},
         \/ UNCHANGED rebuild
         \/ \E why \in Reasons \ {"none"}, by \in 0 .. Committer :
              /\ Begin(why, by)
              /\ starting # None => ~Discards(why)
  PROVE  SessionInv'
<1> USE DEF SessionInv, Shapes, RebuildShape, Owners, SessionsOwned, DownIsRepaired,
        Rebuilding, ends
<1>1. Shapes'
  OBVIOUS
<1>2. CASE UNCHANGED rebuild
  BY <1>2 DEF Discards
<1>3. CASE \E why \in Reasons \ {"none"}, by \in 0 .. Committer :
              Begin(why, by) /\ (starting # None => ~Discards(why))
  <2>1. PICK why \in Reasons \ {"none"}, by \in 0 .. Committer :
              Begin(why, by) /\ (starting # None => ~Discards(why))
    BY <1>3
  <2>2. rebuild' = [why |-> why, by |-> by, old |-> agent] /\ ~Rebuilding
    BY <2>1 DEF Begin
  <2>3. RebuildShape'
    BY <2>2
  <2>4. Owners'
    BY <2>1, <2>2 DEF Discards
  <2>5. SessionsOwned'
    BY <2>2
  <2> QED BY <1>1, <2>3, <2>4, <2>5
<1> QED BY <1>2, <1>3

-----------------------------------------------------------------------------
(* The rebuilds, and the steps of start, stop and park.                    *)
LEMMA PublishStep ==
  ASSUME SessionInv, NEW k \in Agents, Publish(k)
  PROVE  SessionInv'
<1> USE SessionBounds DEF SessionBounds, SessionInv, Shapes, RebuildShape, Owners,
        SessionsOwned, DownIsRepaired, Rebuilding, None
<1>1. /\ Rebuilding /\ started /\ k # None /\ k \notin loops
      /\ agent' = k /\ rebuild' = NoRebuild /\ parked' = FALSE
      /\ UNCHANGED <<started, starting, stopping, retryStop>> /\ retrying' \in BOOLEAN
  BY DEF Publish, Cancelled, New, InUse
<1>2. Transports({k}, Replaced(k))
  BY DEF Publish
<1>3. /\ loops' \subseteq Agents /\ up' \subseteq loops' /\ stale' \subseteq loops'
      /\ DOMAIN activity' = Agents
      /\ \A j \in Agents \ loops' : activity'[j] = {}
      /\ loops' = (loops \ Replaced(k)) \cup {k}
      /\ up' = (up \ Replaced(k)) \cup {k}
  BY <1>2 DEF Transports
<1>4. Shapes'
  BY <1>1, <1>3
<1>5. RebuildShape'
  BY <1>1 DEF NoRebuild, Reasons, Background, Committer
<1>6. Owners'
  BY <1>1, <1>3 DEF NoRebuild
<1>7. SessionsOwned'
  BY <1>1, <1>3 DEF NoRebuild, Replaced
<1>8. DownIsRepaired'
  BY <1>1, <1>3
<1> QED BY <1>4, <1>5, <1>6, <1>7, <1>8

LEMMA RebuildFailsStep ==
  ASSUME SessionInv, RebuildFails
  PROVE  SessionInv'
<1> USE SessionBounds DEF SessionBounds, SessionInv, Shapes, RebuildShape, Owners,
        SessionsOwned, DownIsRepaired, Rebuilding, None
<1>1. /\ Rebuilding
      /\ agent' = (IF Discards(rebuild.why) THEN None ELSE agent)
      /\ rebuild' = NoRebuild
      /\ UNCHANGED <<started, starting, stopping, retrying, retryStop, parked>>
  BY DEF RebuildFails, ends
<1>2. Transports({}, Replaced(agent'))
  BY DEF RebuildFails
<1>3. /\ loops' \subseteq Agents /\ up' \subseteq loops' /\ stale' \subseteq loops'
      /\ DOMAIN activity' = Agents
      /\ \A j \in Agents \ loops' : activity'[j] = {}
      /\ loops' = loops \ Replaced(agent')
      /\ up' = up \ Replaced(agent')
  BY <1>2 DEF Transports
<1>4. Shapes'
  BY <1>1, <1>3
<1>5. RebuildShape'
  BY <1>1 DEF NoRebuild, Reasons, Background, Committer
<1>6. Owners'
  BY <1>1, <1>3 DEF NoRebuild
<1>7. SessionsOwned'
  BY <1>1, <1>3 DEF NoRebuild, Replaced
<1>8. DownIsRepaired'
  BY <1>1, <1>3 DEF Replaced
<1> QED BY <1>4, <1>5, <1>6, <1>7, <1>8

LEMMA HealStep ==
  ASSUME SessionInv, NEW k \in Agents, Heal(k)
  PROVE  SessionInv'
<1> USE SessionBounds DEF SessionBounds, SessionInv, Shapes, RebuildShape, Owners,
        SessionsOwned, DownIsRepaired, Rebuilding, None
<1>1. /\ k \in loops /\ UNCHANGED <<ends, agent, rebuild, park>> /\ Transports({k}, {})
  BY DEF Heal
<1>2. loops' = loops /\ up' = up \cup {k}
  BY <1>1 DEF Transports
<1>3. /\ stale' \subseteq loops /\ DOMAIN activity' = Agents
      /\ \A j \in Agents \ loops : activity'[j] = {}
  BY <1>1 DEF Transports
<1> QED BY <1>1, <1>2, <1>3 DEF ends, park, Discards

LEMMA StartStep ==
  ASSUME SessionInv, (\E k \in Agents : StartMakes(k)) \/ StartConnects
  PROVE  SessionInv'
<1> USE SessionBounds DEF SessionBounds, SessionInv, Shapes, RebuildShape, Owners,
        SessionsOwned, DownIsRepaired, Rebuilding, None
<1>1. CASE \E k \in Agents : StartMakes(k)
  <2>1. PICK k \in Agents : StartMakes(k)
    BY <1>1
  <2>2. /\ ~started /\ starting = None /\ stopping = None /\ ~Rebuilding
        /\ k \notin loops /\ agent' = k /\ starting' = k /\ retryStop' = FALSE
        /\ UNCHANGED <<started, stopping, retrying, transport, rebuild, park>>
    BY <2>1 DEF StartMakes, New, InUse
  <2> QED BY <2>2 DEF transport, park
<1>2. CASE StartConnects
  <2>1. /\ starting # None /\ started' = TRUE /\ starting' = None
        /\ UNCHANGED <<stopping, retryStop, agent, rebuild, park>>
        /\ retrying' = (retrying \/ ~Available')
    BY <1>2 DEF StartConnects
  <2>2. parked' = parked
    BY <2>1 DEF park
  <2>3. CASE online
    <3>1. Transports({starting}, {})
      BY <1>2, <2>3 DEF StartConnects
    <3>2. /\ loops' \subseteq Agents /\ up' \subseteq loops' /\ stale' \subseteq loops'
          /\ DOMAIN activity' = Agents
          /\ \A j \in Agents \ loops' : activity'[j] = {}
          /\ loops' = loops \cup {starting} /\ up' = up \cup {starting}
      BY <2>1, <3>1 DEF Transports
    <3> QED BY <2>1, <2>2, <3>2
  <2>4. CASE ~online
    <3>1. UNCHANGED transport
      BY <1>2, <2>4 DEF StartConnects
    <3>2. Shapes' /\ RebuildShape' /\ Owners' /\ SessionsOwned'
      BY <2>1, <2>2, <3>1 DEF transport
    <3>3. DownIsRepaired'
      BY <2>1, <2>2, <3>1 DEF transport, Available
    <3> QED BY <3>2, <3>3
  <2> QED BY <2>3, <2>4
<1> QED BY <1>1, <1>2

LEMMA StopStep ==
  ASSUME SessionInv, StopTakes \/ StopCloses
  PROVE  SessionInv'
<1> USE SessionBounds DEF SessionBounds, SessionInv, Shapes, RebuildShape, Owners,
        SessionsOwned, DownIsRepaired, Rebuilding, None
<1>1. CASE StopTakes
  BY <1>1 DEF StopTakes, transport
<1>2. CASE StopCloses
  <2>1. /\ stopping # None /\ stopping' = None
        /\ UNCHANGED <<started, starting, retrying, retryStop, agent, rebuild, park>>
        /\ Transports({}, {stopping})
    BY <1>2 DEF StopCloses
  <2>2. /\ loops' \subseteq Agents /\ up' \subseteq loops' /\ stale' \subseteq loops'
        /\ DOMAIN activity' = Agents
        /\ \A j \in Agents \ loops' : activity'[j] = {}
        /\ loops' = loops \ {stopping} /\ up' = up \ {stopping}
    BY <2>1 DEF Transports
  <2> QED BY <2>1, <2>2 DEF park
<1> QED BY <1>1, <1>2

LEMMA ParkClosesStep ==
  ASSUME SessionInv, ParkCloses
  PROVE  SessionInv'
<1> USE SessionBounds DEF SessionBounds, SessionInv, Shapes, RebuildShape, Owners,
        SessionsOwned, DownIsRepaired, Rebuilding, None
<1>1. /\ Rebuilding /\ parked' = TRUE /\ rebuild' = NoRebuild
      /\ UNCHANGED <<started, starting, stopping, retrying, retryStop, agent>>
      /\ Transports({}, {rebuild.old})
  BY DEF ParkCloses, ends
<1>2. /\ loops' \subseteq Agents /\ up' \subseteq loops' /\ stale' \subseteq loops'
      /\ DOMAIN activity' = Agents
      /\ \A j \in Agents \ loops' : activity'[j] = {}
      /\ loops' = loops \ {rebuild.old} /\ up' = up \ {rebuild.old}
  BY <1>1 DEF Transports
<1>3. RebuildShape'
  BY <1>1 DEF NoRebuild, Reasons, Background, Committer
<1> QED BY <1>1, <1>2, <1>3 DEF NoRebuild
-----------------------------------------------------------------------------
(* The other steps of the session.                                         *)
LEMMA LoopStep ==
  ASSUME SessionInv, Lose \/ RetryEnds
  PROVE  SessionInv'
<1> USE DEF SessionInv, Shapes, RebuildShape, Owners, SessionsOwned, DownIsRepaired,
        Rebuilding
<1>1. CASE Lose
  BY <1>1 DEF Lose, ends, park, Discards
<1>2. CASE RetryEnds
  BY <1>2 DEF RetryEnds, transport, park, Discards
<1> QED BY <1>1, <1>2

LEMMA IdleSessionStep ==
  ASSUME SessionInv, Outage \/ Restored \/ RetryTries \/ ParkDecides \/ ParkBegins
  PROVE  SessionInv'
<1>1. /\ UNCHANGED <<ends, agent, loops, up, parked>>
      /\ UNCHANGED <<stale, activity>>
  BY DEF Outage, Restored, RetryTries, ParkDecides, ParkBegins, transport, park
<1>2. /\ stale \subseteq loops /\ DOMAIN activity = Agents
      /\ \A k \in Agents \ loops : activity[k] = {}
  BY DEF SessionInv, Shapes
<1>3. /\ Background \in 0 .. Committer
      /\ {"retry", "park"} \subseteq Reasons \ {"none"}
      /\ ~Discards("retry") /\ ~Discards("park")
  BY SessionBounds DEF SessionBounds, Background, Committer, Reasons, Discards
<1>4. \/ UNCHANGED rebuild
      \/ \E why \in Reasons \ {"none"}, by \in 0 .. Committer :
           Begin(why, by) /\ (starting # None => ~Discards(why))
  BY <1>3 DEF Outage, Restored, RetryTries, ParkDecides, ParkBegins
<1> QED BY <1>1, <1>2, <1>4, QuietStep

LEMMA SessionStepInv ==
  ASSUME SessionInv, SessionStep
  PROVE  SessionInv'
BY HealStep, StartStep, StopStep, ParkClosesStep, LoopStep, IdleSessionStep DEF
   SessionStep

-----------------------------------------------------------------------------
(* The steps of the turns and of the announcer.                            *)

(* What a quiet step may do to the reservation.                            *)
MayBegin ==
  \/ UNCHANGED rebuild
  \/ \E why \in Reasons \ {"none"}, by \in 0 .. Committer :
       Begin(why, by) /\ (starting # None => ~Discards(why))

(* A thread that rebuilds a contaminated session does not meet a start.    *)
LEMMA RebuildNowBegins ==
  ASSUME SessionInv, NEW w \in Threads, NEW why \in Reasons \ {"none"},
         RebuildNow(w, why), starting # None => ~Discards(why)
  PROVE  MayBegin
<1>1. w \in 0 .. Committer
  BY SessionBounds DEF SessionBounds, Threads, Committer
<1> QED BY <1>1 DEF RebuildNow, MayBegin

LEMMA NothingToDiscard ==
  ASSUME SessionInv, starting # None
  PROVE  ~NeedsFresh /\ ~Abandoned /\ ~Available
BY DEF SessionInv, Shapes, Owners, NeedsFresh, Abandoned, Available

LEMMA PrepareKeeps ==
  ASSUME SessionInv, PrepareStep
  PROVE  SessionInv'
<1>1. /\ UNCHANGED <<ends, agent, loops, up, parked>>
      /\ UNCHANGED <<stale, activity>>
  BY DEF PrepareStep, MarkTurn, StopAnnouncement, PrepareSession, Join, transport, park
<1>2. /\ stale \subseteq loops /\ DOMAIN activity = Agents
      /\ \A k \in Agents \ loops : activity[k] = {}
  BY DEF SessionInv, Shapes
<1>3. {"resume", "fresh", "idle"} \subseteq Reasons \ {"none"}
  BY DEF Reasons
<1>4. MayBegin
  <2>1. ASSUME NEW w \in Threads, PrepareSession(w) PROVE MayBegin
    <3>1. CASE parked /\ ~Rebuilding /\ RebuildNow(w, "resume")
      BY <1>3, <3>1, RebuildNowBegins DEF Discards
    <3>2. CASE ~parked /\ NeedsFresh /\ RebuildNow(w, "fresh")
      BY <1>3, <3>2, RebuildNowBegins, NothingToDiscard
    <3>3. CASE ~parked /\ ~NeedsFresh /\ spoke /\ RebuildNow(w, "idle")
      BY <1>3, <3>3, RebuildNowBegins DEF Discards
    <3>4. CASE UNCHANGED rebuild
      BY <3>4 DEF MayBegin
    <3> QED BY <2>1, <3>1, <3>2, <3>3, <3>4 DEF PrepareSession
  <2>2. ASSUME NEW w \in Threads, Join(w) PROVE MayBegin
    <3>1. CASE RebuildNow(w, "resume")
      BY <1>3, <3>1, RebuildNowBegins DEF Discards
    <3>2. CASE UNCHANGED rebuild
      BY <3>2 DEF MayBegin
    <3> QED BY <2>2, <3>1, <3>2 DEF Join
  <2> QED BY <2>1, <2>2 DEF PrepareStep, MarkTurn, StopAnnouncement, MayBegin
<1> QED BY <1>1, <1>2, <1>4, QuietStep DEF MayBegin

(* Who streams or commits finds the agent connected.                       *)
LEMMA CaptureKeeps ==
  ASSUME SessionInv, CaptureStep
  PROVE  SessionInv'
<1>1. /\ stale \subseteq loops /\ DOMAIN activity = Agents /\ up \subseteq loops
      /\ \A k \in Agents \ loops : activity[k] = {}
  BY DEF SessionInv, Shapes
<1>2. /\ Background \in 0 .. Committer /\ Committer \in 0 .. Committer
      /\ {"noise", "recycle", "recover"} \subseteq Reasons \ {"none"}
  BY SessionBounds DEF SessionBounds, Background, Committer, Reasons
<1>3. /\ UNCHANGED <<ends, agent, loops, up, parked>> /\ stale' \subseteq loops
  <2>1. UNCHANGED <<ends, agent, loops, up, parked>>
    BY DEF CaptureStep, Opens, Hear, Upload, Ends, Finish, Drop, Delegate, Run, Commit,
           Replay, Reply, FallBack, session, transport, park
  <2>2. stale' \in {stale, stale \cup ({agent} \cap up)}
    BY DEF CaptureStep, Opens, Hear, Upload, Ends, Finish, Drop, Delegate, Run, Commit,
           Replay, Reply, FallBack, session, transport
  <2> QED BY <1>1, <2>1, <2>2
<1>4. \/ activity' = activity
      \/ agent \in up /\ \E audio : activity' = [activity EXCEPT ![agent] = audio]
  <2>1. CASE Hear
    BY <2>1 DEF Hear, Valid
  <2>2. CASE Upload \/ Finish
    BY <2>2 DEF Upload, Finish, BindAndFlush
  <2>3. CASE Commit \/ Replay
    BY <2>3 DEF Commit, Replay, CommitAudio, Valid
  <2>4. CASE \/ Opens \/ Drop \/ Delegate \/ Run \/ Reply \/ FallBack
             \/ \E how \in Endings : Ends(how)
    BY <2>4 DEF Opens, Drop, Delegate, Run, Reply, FallBack, Ends, session, transport
  <2> QED BY <2>1, <2>2, <2>3, <2>4 DEF CaptureStep
<1>5. DOMAIN activity' = Agents /\ \A k \in Agents \ loops : activity'[k] = {}
  BY <1>1, <1>4
<1>6. MayBegin
  <2>1. CASE Drop
    BY <1>2, <2>1, NothingToDiscard DEF Drop, DropNoise, MayBegin
  <2>2. CASE Commit
    BY <1>2, <2>2 DEF Commit, MayBegin, Discards
  <2>3. CASE Reply
    BY <1>2, <2>3 DEF Reply, Recycle, MayBegin, Discards
  <2>4. CASE \/ Opens \/ Hear \/ Upload \/ Finish \/ Delegate \/ Run \/ Replay \/ FallBack
             \/ \E how \in Endings : Ends(how)
    BY <2>4 DEF Opens, Hear, Upload, Finish, Delegate, Run, Replay, FallBack, Ends, session,
       MayBegin
  <2> QED BY <2>1, <2>2, <2>3, <2>4 DEF CaptureStep
<1> QED BY <1>3, <1>5, <1>6, QuietStep DEF MayBegin

LEMMA AnnounceKeeps ==
  ASSUME SessionInv, AnnounceStep
  PROVE  SessionInv'
<1>1. /\ UNCHANGED <<ends, agent, loops, up, parked>>
      /\ UNCHANGED <<stale, activity>>
  BY DEF AnnounceStep, AnnounceBegins, AnnounceReplaces, AnnounceRegisters,
     AnnounceSpeaks, AnnounceEnds, AnnounceStops, transport, park
<1>2. /\ stale \subseteq loops /\ DOMAIN activity = Agents
      /\ \A k \in Agents \ loops : activity[k] = {}
  BY DEF SessionInv, Shapes
<1>3. /\ {Background, Announcer} \subseteq 0 .. Committer
      /\ {"abandoned", "recycle"} \subseteq Reasons \ {"none"}
  BY SessionBounds DEF SessionBounds, Background, Committer, Announcer, Reasons
<1>4. MayBegin
  <2>1. CASE AnnounceReplaces
    BY <1>3, <2>1, NothingToDiscard DEF AnnounceReplaces, MayBegin
  <2>2. CASE AnnounceEnds
    BY <1>3, <2>2 DEF AnnounceEnds, Recycle, MayBegin, Discards
  <2>3. CASE AnnounceBegins \/ AnnounceRegisters \/ AnnounceSpeaks \/ AnnounceStops
    BY <2>3 DEF AnnounceBegins, AnnounceRegisters, AnnounceSpeaks, AnnounceStops, MayBegin
  <2> QED BY <2>1, <2>2, <2>3 DEF AnnounceStep
<1> QED BY <1>1, <1>2, <1>4, QuietStep DEF MayBegin

LEMMA SessionInvInit == Init => SessionInv
<1> SUFFICES ASSUME Init PROVE SessionInv
  OBVIOUS
<1> USE DEF Init, SessionInit
<1>1. Shapes
  BY DEF Shapes
<1>2. ~Rebuilding /\ rebuild = NoRebuild
  BY DEF Rebuilding, NoRebuild
<1>3. RebuildShape
  BY <1>2, SessionBounds
     DEF RebuildShape, NoRebuild, Reasons, Background, Committer, SessionBounds
<1>4. Owners /\ SessionsOwned /\ DownIsRepaired
  BY <1>2 DEF Owners, SessionsOwned, DownIsRepaired
<1> QED BY <1>1, <1>3, <1>4 DEF SessionInv

LEMMA SessionInvStep == SessionInv /\ [Next]_vars => SessionInv'
<1> SUFFICES ASSUME SessionInv, [Next]_vars PROVE SessionInv'
  OBVIOUS
<1>1. CASE SessionStep /\ Alone
  BY <1>1, SessionStepInv
<1>2. CASE RebuildEnds
  BY <1>2, PublishStep, RebuildFailsStep DEF RebuildEnds
<1>3. CASE PrepareStep
  BY <1>3, PrepareKeeps
<1>4. CASE CaptureStep
  BY <1>4, CaptureKeeps
<1>5. CASE AnnounceStep
  BY <1>5, AnnounceKeeps
<1>6. CASE UNCHANGED vars
  BY <1>6 DEF vars, session, ends, transport, park, SessionInv, Shapes, RebuildShape,
     Owners, SessionsOwned, DownIsRepaired, Rebuilding, Discards
<1> QED BY <1>1, <1>2, <1>3, <1>4, <1>5, <1>6 DEF Next

THEOREM SessionInvKept == Spec => []SessionInv
<1>1. Init => SessionInv
  BY SessionInvInit
<1>2. SessionInv /\ [Next]_vars => SessionInv'
  BY SessionInvStep
<1> QED BY <1>1, <1>2, PTL DEF Spec

(* No agent whose loops run is left open behind the orchestrator's back:   *)
(* it is the current one, or a stop or a rebuild is about to close it; and *)
(* a stopped orchestrator has none (_rebuild_locked, stop).                *)
THEOREM SessionsOwnedAlways == Spec => []SessionsOwned
<1>1. SessionInv => SessionsOwned
  BY DEF SessionInv
<1> QED BY <1>1, SessionInvKept, PTL

(* A session that is down and not parked is reconnected by the loops of    *)
(* its agent or by the retry loop of start.                                *)
THEOREM DownIsRepairedAlways == Spec => []DownIsRepaired
<1>1. SessionInv => DownIsRepaired
  BY DEF SessionInv
<1> QED BY <1>1, SessionInvKept, PTL
-----------------------------------------------------------------------------
(* The mark of the capture, the event of the announcement and the threads  *)
(* that wait for a rebuild.                                                *)
WaitsForIt ==
  Rebuilding =>
    /\ rebuild.by \in Threads => at[rebuild.by] = "rebuild"
    /\ rebuild.by = Committer => phase = "recover"

Standing ==
  /\ turn \in 0 .. MaxTurns /\ (phase # "idle" => turn # 0)
  /\ DOMAIN at = Threads
  /\ \A t \in Threads : t > turn => at[t] = "none"
  /\ inFlight \in BOOLEAN

Armed == at[Announcer] \in {"check", "speak"} => announce \in {"armed", "set"}

Marked ==
  (phase # "idle" /\ at[Announcer] \notin {"none", "speak"} /\ at[turn] # "mark")
    => inFlight

TurnInv == WaitsForIt /\ Standing /\ Armed /\ Marked /\ UserPreempts

LEMMA TurnInvInit == Init => TurnInv
<1> SUFFICES ASSUME Init PROVE TurnInv
  OBVIOUS
<1> USE DEF Init, SessionInit
<1>1. Standing
  <2>1. at = [w \in Threads |-> "none"] /\ turn = 0 /\ phase = "idle" /\ inFlight = FALSE
    OBVIOUS
  <2>2. 0 \in 0 .. MaxTurns
    BY SessionBounds DEF SessionBounds
  <2> QED BY <2>1, <2>2 DEF Standing
<1>2. at[Announcer] = "none"
  BY SessionBounds DEF SessionBounds, Announcer, Threads
<1>3. WaitsForIt /\ Armed /\ Marked /\ UserPreempts
  BY <1>2 DEF WaitsForIt, Rebuilding, NoRebuild, Armed, Marked, UserPreempts
<1> QED BY <1>1, <1>3 DEF TurnInv

(* Steps that move nobody, and neither begin nor end a rebuild.            *)
LEMMA TurnFrame ==
  ASSUME TurnInv, UNCHANGED <<turn, phase, at, inFlight, announce>>,
         \/ UNCHANGED rebuild
         \/ \E why \in Reasons : Begin(why, Background)
         \/ rebuild' = NoRebuild
  PROVE  TurnInv'
BY SessionBounds DEF SessionBounds, TurnInv, WaitsForIt, Standing, Armed, Marked,
   UserPreempts, NoRebuild, Rebuilding, Begin, Background, Committer, Threads

LEMMA TurnSessionStep ==
  ASSUME TurnInv, SessionStep, Alone
  PROVE  TurnInv'
<1>1. UNCHANGED <<turn, phase, at>>
  BY DEF Alone, capture
<1>2. UNCHANGED <<inFlight, announce>>
  BY DEF SessionStep, Heal, StartMakes, Lose, Outage, Restored, StartConnects, StopTakes,
     StopCloses, RetryTries, RetryEnds, ParkDecides, ParkBegins, ParkCloses, marks
<1>3. \/ UNCHANGED rebuild
      \/ \E why \in {"retry", "park"} : Begin(why, Background)
      \/ rebuild' = NoRebuild
  BY DEF SessionStep, Heal, StartMakes, Lose, Outage, Restored, StartConnects, StopTakes,
     StopCloses, RetryTries, RetryEnds, ParkDecides, ParkBegins, ParkCloses
<1> QED BY <1>1, <1>2, <1>3, TurnFrame DEF Reasons

LEMMA TurnRebuildEnds ==
  ASSUME TurnInv, RebuildEnds
  PROVE  TurnInv'
<1>1. PICK ok \in BOOLEAN :
        /\ Rebuilding /\ rebuild' = NoRebuild
        /\ UNCHANGED <<inFlight, announce>>
        /\ Resume(ok)
  BY DEF RebuildEnds, Publish, RebuildFails, marks, Rebuilding
<1> QED BY <1>1, SessionBounds
        DEF Resume, Move, SessionBounds, TurnInv, WaitsForIt, Standing, Armed, Marked,
            UserPreempts, NoRebuild, Rebuilding, Background, Committer, Announcer, Threads

LEMMA TurnPrepareStep ==
  ASSUME TurnInv, PrepareStep
  PROVE  TurnInv'
<1> USE SessionBounds DEF SessionBounds, TurnInv, WaitsForIt, Standing, Armed, Marked,
        UserPreempts, Rebuilding, Committer, Announcer, Threads
<1>1. ASSUME NEW t \in 1 .. MaxTurns, MarkTurn(t) PROVE TurnInv'
  BY <1>1 DEF MarkTurn, Move, capture
<1>2. ASSUME NEW t \in 1 .. MaxTurns, StopAnnouncement(t) PROVE TurnInv'
  BY <1>2 DEF StopAnnouncement, Move, capture
<1>3. ASSUME NEW w \in Threads, PrepareSession(w) PROVE TurnInv'
  BY <1>3 DEF PrepareSession, RebuildNow, Begin, Move, capture, marks
<1>4. ASSUME NEW w \in Threads, Join(w) PROVE TurnInv'
  BY <1>4 DEF Join, RebuildNow, Begin, Move, capture, marks
<1> QED BY <1>1, <1>2, <1>3, <1>4 DEF PrepareStep

(* The end of a capture, with or without a rebuild in the background.      *)
LEMMA TurnIdle ==
  ASSUME TurnInv, Idle, phase # "recover", UNCHANGED announce,
         UNCHANGED rebuild \/ \E why \in Reasons : Begin(why, Background)
  PROVE  TurnInv'
<1>1. /\ phase' = "idle" /\ inFlight' = FALSE /\ turn' = turn /\ at' = at
  BY DEF Idle
<1>2. Standing' /\ Armed' /\ Marked' /\ UserPreempts'
  BY <1>1 DEF TurnInv, Standing, Armed, Marked, UserPreempts
<1>3. WaitsForIt'
  BY <1>1, SessionBounds
     DEF SessionBounds, TurnInv, WaitsForIt, Rebuilding, Begin, Background, Committer, Threads
<1> QED BY <1>2, <1>3 DEF TurnInv

LEMMA TurnCaptureStep ==
  ASSUME TurnInv, CaptureStep
  PROVE  TurnInv'
<1>4. CASE \E how \in Endings : Ends(how)
  <2>1. PICK how \in Endings : Ends(how)
    BY <1>4
  <2>2. CASE how = "limit"
    BY <2>1, <2>2, TurnIdle DEF Ends
  <2>3. CASE how # "limit"
    <3>1. /\ phase = "capture" /\ phase' = "finish"
          /\ UNCHANGED <<turn, at, inFlight, announce, rebuild>>
      BY <2>1, <2>3 DEF Ends, session, marks
    <3> QED BY <3>1 DEF TurnInv, WaitsForIt, Standing, Armed, Marked, UserPreempts,
               Rebuilding
  <2> QED BY <2>2, <2>3
<1>6. CASE Drop
  <2>1. UNCHANGED rebuild \/ Begin("noise", Background)
    BY <1>6 DEF Drop, DropNoise
  <2> QED BY <1>6, <2>1, TurnIdle DEF Drop, DropNoise, Reasons
<1>10. CASE Reply
  BY <1>10, TurnIdle DEF Reply, Recycle, Reasons
<1>11. CASE FallBack
  BY <1>11, TurnIdle DEF FallBack
<1>12. CASE Delegate
  BY <1>12, TurnIdle DEF Delegate
<1> USE SessionBounds DEF SessionBounds, TurnInv, WaitsForIt, Standing, Armed, Marked,
        UserPreempts, Rebuilding, Committer, Background, Announcer, Threads
<1>1. CASE Opens
  BY <1>1 DEF Opens, Move, session, marks
<1>2. CASE Hear
  BY <1>2 DEF Hear, marks
<1>3. CASE Upload
  BY <1>3 DEF Upload
<1>5. CASE Finish
  BY <1>5 DEF Finish
<1>7. CASE Run
  BY <1>7 DEF Run, session, marks
<1>8. CASE Commit
  BY <1>8 DEF Commit, CommitAudio, Begin, marks
<1>9. CASE Replay
  BY <1>9 DEF Replay, CommitAudio
<1> QED BY <1>1, <1>2, <1>3, <1>4, <1>5, <1>6, <1>7, <1>8, <1>9, <1>10, <1>11,
        <1>12 DEF CaptureStep

LEMMA TurnAnnounceStep ==
  ASSUME TurnInv, AnnounceStep
  PROVE  TurnInv'
<1> USE SessionBounds DEF SessionBounds, TurnInv, WaitsForIt, Standing, Armed, Marked,
        UserPreempts, Rebuilding, Committer, Background, Announcer, Threads
<1>1. CASE AnnounceBegins
  BY <1>1 DEF AnnounceBegins, Move, capture, marks
<1>2. CASE AnnounceReplaces
  BY <1>2 DEF AnnounceReplaces, Begin, Move, capture, marks
<1>3. CASE AnnounceRegisters
  BY <1>3 DEF AnnounceRegisters, Move, capture
<1>4. CASE AnnounceSpeaks
  <2>1. CASE inFlight \/ agent \notin up
    BY <1>4, <2>1 DEF AnnounceSpeaks, Move, capture
  <2>2. CASE ~(inFlight \/ agent \notin up)
    <3>1. /\ at[Announcer] = "check" /\ inFlight' = TRUE
          /\ at' = [at EXCEPT ![Announcer] = "speak"]
          /\ UNCHANGED <<announce, rebuild, turn, phase>>
      BY <1>4, <2>2 DEF AnnounceSpeaks, Move, capture
    <3>2. phase = "idle" \/ at[turn] = "mark"
      BY <2>2, <3>1
    <3> QED BY <3>1, <3>2
  <2> QED BY <2>1, <2>2
<1>5. CASE AnnounceEnds
  <2>1. /\ at[Announcer] = "speak" /\ at' = [at EXCEPT ![Announcer] = "none"]
        /\ inFlight' = FALSE /\ announce' = "none" /\ UNCHANGED <<turn, phase>>
    BY <1>5 DEF AnnounceEnds, Move, capture
  <2>2. UNCHANGED rebuild \/ (~Rebuilding /\ rebuild'.by = Background)
    BY <1>5 DEF AnnounceEnds, Recycle, Begin
  <2>3. at'[Announcer] = "none"
    BY <2>1
  <2>4. Armed' /\ Marked' /\ UserPreempts'
    BY <2>3
  <2>5. Standing'
    BY <2>1
  <2>6. WaitsForIt'
    BY <2>1, <2>2
  <2> QED BY <2>4, <2>5, <2>6
<1>6. CASE AnnounceStops
  BY <1>6 DEF AnnounceStops, Move, capture
<1> QED BY <1>1, <1>2, <1>3, <1>4, <1>5, <1>6 DEF AnnounceStep

LEMMA TurnInvStep == TurnInv /\ [Next]_vars => TurnInv'
<1> SUFFICES ASSUME TurnInv, [Next]_vars PROVE TurnInv'
  OBVIOUS
<1>1. CASE SessionStep /\ Alone
  BY <1>1, TurnSessionStep
<1>2. CASE RebuildEnds
  BY <1>2, TurnRebuildEnds
<1>3. CASE PrepareStep
  BY <1>3, TurnPrepareStep
<1>4. CASE CaptureStep
  BY <1>4, TurnCaptureStep
<1>5. CASE AnnounceStep
  BY <1>5, TurnAnnounceStep
<1>6. CASE UNCHANGED vars
  BY <1>6, TurnFrame DEF vars, session, capture, marks
<1> QED BY <1>1, <1>2, <1>3, <1>4, <1>5, <1>6 DEF Next

(* The user wins over an announcement, wherever in its preparation the     *)
(* capture begins: an announcement that still speaks once the session of   *)
(* the capture is being prepared has been told to stop (prepare_turn marks *)
(* the turn first, announce registers its event first).                    *)
THEOREM UserPreemptsAlways == Spec => []UserPreempts
<1>1. Init => TurnInv
  BY TurnInvInit
<1>2. TurnInv /\ [Next]_vars => TurnInv'
  BY TurnInvStep
<1>3. TurnInv => UserPreempts
  BY DEF TurnInv
<1> QED BY <1>1, <1>2, <1>3, PTL DEF Spec

-----------------------------------------------------------------------------
(* The types.  What is recorded of a capture is of a turn that began, and  *)
(* so is a commit that waits for its replacement: Captured adds that to    *)
(* the types, because a flush writes the recording into the activity.      *)
Flags ==
  /\ started \in BOOLEAN /\ retrying \in BOOLEAN /\ retryStop \in BOOLEAN
  /\ parked \in BOOLEAN /\ resumeFailed \in BOOLEAN /\ parking \in BOOLEAN
  /\ inFlight \in BOOLEAN /\ online \in BOOLEAN

RebuildSet == [why : Reasons, by : 0 .. Committer, old : Agents \cup {None}]

Names ==
  /\ agent \in Agents \cup {None} /\ starting \in Agents \cup {None}
  /\ stopping \in Agents \cup {None}
  /\ rebuild \in RebuildSet
  /\ announce \in {"none", "armed", "set"}
  /\ bound \in [agent : Agents \cup {None}, gen : Nat]
  /\ left \in Nat

Transported ==
  /\ loops \subseteq Agents /\ up \subseteq loops /\ stale \subseteq Agents
  /\ gen \in [Agents -> Nat]
  /\ activity \in [Agents -> SUBSET Frames]

Captured ==
  /\ phase \in Phases /\ said \in Endings \cup {"none"}
  /\ turn \in 0 .. MaxTurns /\ frames \in 0 .. MaxFrames
  /\ begun \in BOOLEAN /\ deferred \in BOOLEAN /\ spoke \in BOOLEAN
  /\ at \in [Threads -> Places]
  /\ (phase # "idle" \/ rebuild.by = Committer) => turn > 0

Remembered ==
  /\ committed \in [turn : 0 .. MaxTurns, length : 0 .. MaxFrames, audio : SUBSET Frames,
                    bound : BOOLEAN]
  /\ spoilt \subseteq 1 .. MaxTurns

Typed == Flags /\ Names /\ Transported /\ Captured /\ Remembered

LEMMA TypedIsTypeOK == Typed => TypeOK
<1> SUFFICES ASSUME Typed PROVE TypeOK
  OBVIOUS
<1>1. \A b \in {started, retrying, retryStop, parked, resumeFailed, parking, inFlight,
               online} : b \in BOOLEAN
  BY Zenon DEF Typed, Flags
<1>2. SessionTypeOK
  BY <1>1 DEF Typed, Names, RebuildSet, Transported, SessionTypeOK
<1> QED BY <1>2 DEF Typed, Captured, Remembered, TypeOK

LEMMA TransportsTyped ==
  ASSUME Transported,
         NEW opened \in SUBSET Agents, NEW closed \in SUBSET (Agents \cup {None}),
         Transports(opened, closed)
  PROVE  Transported'
BY SessionBounds DEF Transported, Transports, None, Frames

LEMMA BeginTyped ==
  ASSUME Names, NEW why \in Reasons, NEW by \in 0 .. Committer, Begin(why, by)
  PROVE  rebuild' \in RebuildSet
BY DEF Names, Begin, RebuildSet

(* What a step leaves of the reservation, and where the threads are.       *)
ReservedTyped == rebuild' \in RebuildSet /\ (rebuild' = rebuild \/ rebuild'.by # Committer)
PreparedTyped == at' \in [Threads -> Places] /\ ReservedTyped

LEMMA NoRebuildTyped == NoRebuild \in RebuildSet
BY SessionBounds DEF NoRebuild, RebuildSet, Reasons, Background, Committer

(* The steps of the orchestrator.                                          *)
LEMMA TypedSession == Typed /\ SessionStep /\ Alone => Typed'
<1> SUFFICES ASSUME Typed, SessionStep, Alone PROVE Typed'
  OBVIOUS
<1> USE DEF Typed
<1>1. Captured' /\ Remembered'
  <2>1. Background # Committer
    BY SessionBounds DEF Background, Committer
  <2>2. UNCHANGED rebuild \/ rebuild'.by = Background
    <3>1. CASE RetryTries \/ ParkBegins \/ ParkCloses
      BY <3>1 DEF RetryTries, ParkBegins, ParkCloses, Begin, NoRebuild
    <3> QED BY <3>1 DEF SessionStep, Heal, StartMakes, Lose, Outage, Restored,
               StartConnects, StopTakes, StopCloses, RetryEnds, ParkDecides
  <2> QED BY <2>1, <2>2 DEF Alone, Captured, Remembered, capture, ghosts
<1>2. Flags'
  <2>1. CASE StartConnects
    BY <2>1 DEF StartConnects, Flags, park, marks, world
  <2>2. CASE ~StartConnects
    BY <2>2 DEF SessionStep, Flags, Heal, StartMakes, Lose, Outage, Restored, Spend,
       StopTakes, StopCloses, RetryTries, RetryEnds, ParkDecides, ParkBegins, ParkCloses,
       ends, park, marks, world
  <2> QED BY <2>1, <2>2
<1>3. Transported'
  <2>1. ASSUME NEW k \in Agents, Heal(k) PROVE Transported'
    BY <2>1, TransportsTyped DEF Heal
  <2>2. CASE StartConnects
    BY <2>2, TransportsTyped DEF StartConnects, transport, Names, Transported
  <2>3. CASE StopCloses \/ ParkCloses
    BY <2>3, TransportsTyped DEF StopCloses, ParkCloses, Names, RebuildSet
  <2>4. CASE Lose
    BY <2>4 DEF Lose, Transported
  <2> QED BY <2>1, <2>2, <2>3, <2>4 DEF SessionStep, Transported, transport, StartMakes,
             Outage, Restored, StopTakes, RetryTries, RetryEnds, ParkDecides, ParkBegins
<1>4. rebuild' \in RebuildSet
  <2>1. Background \in 0 .. Committer /\ {"park", "retry"} \subseteq Reasons
    BY SessionBounds DEF Background, Committer, Reasons
  <2>2. CASE RetryTries \/ ParkBegins
    BY <2>1, <2>2, BeginTyped DEF RetryTries, ParkBegins, Names, RebuildSet
  <2>3. CASE ParkCloses
    BY <2>3, NoRebuildTyped DEF ParkCloses
  <2> QED BY <2>2, <2>3 DEF SessionStep, RebuildSet, Names, StartMakes, Outage, Restored,
             Heal, Lose, StartConnects, StopCloses, StopTakes, RetryEnds, ParkDecides
<1>5. Names'
  <2>1. CASE Lose \/ Outage \/ StopTakes
    BY <2>1, <1>4 DEF Names, RebuildSet, Lose, Outage, StopTakes, Spend, ends, marks
  <2>2. \/ UNCHANGED <<agent, starting, stopping, marks, left>>
        \/ \E k \in Agents : StartMakes(k)
        \/ StartConnects \/ StopCloses \/ Lose \/ Outage \/ StopTakes
    BY DEF SessionStep, Heal, Restored, RetryTries, RetryEnds, ParkDecides, ParkBegins,
       ParkCloses, ends, marks, world
  <2> QED BY <2>1, <2>2, <1>4 DEF Names, RebuildSet, StartMakes, StartConnects,
             StopCloses, marks, world
<1> QED BY <1>1, <1>2, <1>3, <1>5


(* The end of a rebuild.                                                   *)
LEMMA TypedRebuildEnds == Typed /\ RebuildEnds => Typed'
<1> SUFFICES ASSUME Typed, RebuildEnds PROVE Typed'
  OBVIOUS
<1> USE DEF Typed
<1>1. \/ \E k \in Agents : Publish(k) /\ Resume(TRUE) /\ UNCHANGED spoilt
      \/ /\ RebuildFails /\ Resume(FALSE)
         /\ spoilt' = spoilt \cup IF agent' = None THEN {} ELSE {f[1] : f \in activity[agent]}
  BY DEF RebuildEnds, Publish, New
<1>2. rebuild' = NoRebuild
  BY <1>1 DEF Publish, RebuildFails
<1>3. Captured'
  <2>1. PICK ok \in BOOLEAN : Resume(ok)
    BY <1>1
  <2>2. Committer # Background /\ Background # None
    BY SessionBounds DEF Background, Committer, None
  <2>3. at' \in [Threads -> Places]
    BY <2>1 DEF Resume, Move, Captured, Places
  <2>4. phase' \in Phases /\ (phase' # "idle" => turn > 0)
    BY <2>1 DEF Resume, Captured, Phases
  <2> QED BY <2>1, <2>2, <2>3, <2>4, <1>2 DEF Resume, Captured, NoRebuild
<1>4. Transported'
  <2>1. Replaced(agent') \in SUBSET (Agents \cup {None})
    BY DEF Names, RebuildSet, Replaced
  <2> QED BY <1>1, <2>1, TransportsTyped DEF Publish, RebuildFails, Names
<1>5. Flags'
  BY <1>1 DEF Publish, RebuildFails, Flags, ends, marks, world
<1>6. Names'
  BY <1>1, <1>2, NoRebuildTyped DEF Publish, RebuildFails, Names, RebuildSet, ends, marks,
     world
<1>7. Remembered'
  <2>1. committed' = committed
    BY <1>1 DEF Resume
  <2>2. CASE UNCHANGED spoilt
    BY <2>1, <2>2 DEF Remembered
  <2>3. CASE /\ agent' # None /\ RebuildFails
             /\ spoilt' = spoilt \cup {f[1] : f \in activity[agent]}
    <3>1. agent \in Agents
      BY <2>3 DEF RebuildFails, Names
    <3>2. \A f \in activity[agent] : f[1] \in 1 .. MaxTurns
      BY <3>1 DEF Transported, Frames
    <3> QED BY <2>1, <2>3, <3>2 DEF Remembered
  <2> QED BY <1>1, <2>2, <2>3
<1> QED BY <1>3, <1>4, <1>5, <1>6, <1>7

(* The steps of the threads that prepare, of the captures and of the       *)
(* announcer change the session only in what these parts say.              *)
LEMMA TypedThreads ==
  ASSUME Typed, NEW w \in Threads, NEW place \in Places, Move(w, place)
  PROVE  at' \in [Threads -> Places]
BY DEF Typed, Captured, Move

LEMMA RebuildNowTyped ==
  ASSUME Typed, NEW w \in Threads, NEW why \in Reasons, RebuildNow(w, why)
  PROVE  PreparedTyped
<1> USE DEF PreparedTyped, ReservedTyped
<1>1. w \in 0 .. Committer /\ w # Committer
  BY SessionBounds DEF Threads, Committer
<1>2. {"done", "rebuild"} \subseteq Places
  BY DEF Places
<1> QED BY <1>1, <1>2, TypedThreads, BeginTyped DEF RebuildNow, Typed, Names, RebuildSet,
           Begin

LEMMA TypedPrepareStep == Typed /\ PrepareStep => Typed'
<1> SUFFICES ASSUME Typed, PrepareStep PROVE Typed'
  OBVIOUS
<1> USE DEF Typed, PreparedTyped, ReservedTyped
<1>1. ASSUME NEW w \in Threads, PrepareSession(w) \/ Join(w)
      PROVE  PreparedTyped
  BY <1>1, RebuildNowTyped, TypedThreads DEF PrepareSession, Join, Places, Reasons, Names,
     RebuildSet
<1>2. ASSUME NEW t \in 1 .. MaxTurns, MarkTurn(t) \/ StopAnnouncement(t)
      PROVE  at' \in [Threads -> Places] /\ rebuild' = rebuild
  <2>1. t \in Threads
    BY SessionBounds DEF Threads
  <2> QED BY <1>2, <2>1, TypedThreads DEF MarkTurn, StopAnnouncement, Places
<1>3. PreparedTyped
  BY <1>1, <1>2 DEF PrepareStep, Names, RebuildSet
<1>4. Flags'
  <2>1. CASE \E w \in Threads : Join(w)
    BY <2>1 DEF Join, Flags, ends, marks, world
  <2>2. CASE \E w \in Threads : PrepareSession(w)
    BY <2>2 DEF PrepareSession, Flags, ends, park, marks, world
  <2> QED BY <2>1, <2>2 DEF PrepareStep, MarkTurn, StopAnnouncement, Flags, ends, park,
             world
<1>5. Names'
  BY <1>3 DEF PrepareStep, PrepareSession, Join, MarkTurn, StopAnnouncement, Names,
     RebuildSet, ends, park, marks, world
<1>6. UNCHANGED <<capture, spoke, ghosts, transport>>
  BY DEF PrepareStep, PrepareSession, Join, MarkTurn, StopAnnouncement
<1> QED BY <1>3, <1>4, <1>5, <1>6 DEF Captured, Remembered, Transported, capture, ghosts,
           transport

LEMMA TypedAnnounceStep == Typed /\ AnnounceStep => Typed'
<1> SUFFICES ASSUME Typed, AnnounceStep PROVE Typed'
  OBVIOUS
<1> USE DEF Typed, ReservedTyped
<1>0. Announcer \in Threads /\ Announcer \in 0 .. Committer /\ Background \in 0 .. Committer
      /\ Announcer # Committer /\ Background # Committer
  BY SessionBounds DEF Announcer, Threads, Committer, Background
<1>1. at' \in [Threads -> Places]
  BY <1>0, TypedThreads DEF AnnounceStep, AnnounceBegins, AnnounceReplaces,
     AnnounceRegisters, AnnounceSpeaks, AnnounceEnds, AnnounceStops, Places
<1>2. ReservedTyped
  <2>1. \/ rebuild' = rebuild
        \/ \E why \in Reasons, by \in {Announcer, Background} : Begin(why, by)
    BY DEF AnnounceStep, AnnounceBegins, AnnounceReplaces, AnnounceRegisters,
       AnnounceSpeaks, AnnounceEnds, AnnounceStops, Recycle, Reasons
  <2> QED BY <1>0, <2>1, BeginTyped DEF Names, RebuildSet, Begin
<1>3. Flags' /\ spoke' \in BOOLEAN
  <2>1. UNCHANGED <<ends, park, online>>
    BY DEF AnnounceStep, AnnounceBegins, AnnounceReplaces, AnnounceRegisters,
       AnnounceSpeaks, AnnounceEnds, AnnounceStops, world
  <2>2. inFlight' \in {inFlight, TRUE, FALSE} /\ spoke' \in {spoke, TRUE}
    BY DEF AnnounceStep, AnnounceBegins, AnnounceReplaces, AnnounceRegisters,
       AnnounceSpeaks, AnnounceEnds, AnnounceStops, marks
  <2> QED BY <2>1, <2>2 DEF Flags, Captured, ends, park
<1>4. Names'
  <2>1. left' \in Nat
    BY DEF AnnounceStep, AnnounceBegins, AnnounceReplaces, AnnounceRegisters,
       AnnounceSpeaks, Spend, AnnounceEnds, AnnounceStops, Names, world
  <2>2. UNCHANGED <<ends, agent, bound>>
    BY DEF AnnounceStep, AnnounceBegins, AnnounceReplaces, AnnounceRegisters,
       AnnounceSpeaks, AnnounceEnds, AnnounceStops, marks
  <2>3. announce' \in {"none", "armed", announce}
    BY DEF AnnounceStep, AnnounceBegins, AnnounceReplaces, AnnounceRegisters,
       AnnounceSpeaks, AnnounceEnds, AnnounceStops, marks
  <2> QED BY <1>2, <2>1, <2>2, <2>3 DEF Names, RebuildSet, ends
<1>5. UNCHANGED <<capture, ghosts, transport>>
  BY DEF AnnounceStep, AnnounceBegins, AnnounceReplaces, AnnounceRegisters,
     AnnounceSpeaks, AnnounceEnds, AnnounceStops
<1> QED BY <1>1, <1>2, <1>3, <1>4, <1>5 DEF Captured, Remembered, Transported, capture,
           ghosts, transport


(* The steps of a capture.                                                 *)
LEMMA TypedCaptureRebuild ==
  ASSUME Typed, CaptureStep
  PROVE  /\ rebuild' \in RebuildSet
         /\ ((phase' # "idle" \/ rebuild'.by = Committer) => turn' > 0)
<1> USE DEF Typed
<1>1. \/ UNCHANGED <<rebuild, turn>> /\ (phase = "idle" => phase' = "idle")
      \/ Opens
      \/ /\ UNCHANGED turn /\ phase # "idle"
         /\ \E why \in Reasons, by \in {Background, Committer} : Begin(why, by)
  BY DEF CaptureStep, Opens, Hear, Upload, Finish, Drop, DropNoise, Delegate, Run, Commit,
     Replay, Reply, Recycle, FallBack, Ends, Idle, CommitAudio, Reasons, session
<1>2. CASE Opens
  BY <1>2 DEF Opens, session, Captured, Names, RebuildSet
<1>3. {Background, Committer} \subseteq 0 .. Committer
  BY SessionBounds DEF Background, Committer
<1> QED BY <1>1, <1>2, <1>3, BeginTyped DEF Names, RebuildSet, Captured

LEMMA TypedCaptureStep == Typed /\ CaptureStep => Typed'
<1> SUFFICES ASSUME Typed, CaptureStep PROVE Typed'
  OBVIOUS
<1> USE DEF Typed
<1>1. rebuild' \in RebuildSet /\ ((phase' # "idle" \/ rebuild'.by = Committer) => turn' > 0)
  BY TypedCaptureRebuild
<1>2. Flags' /\ begun' \in BOOLEAN /\ deferred' \in BOOLEAN /\ spoke' \in BOOLEAN
  <2>1. Flags' /\ begun' \in BOOLEAN /\ spoke' \in BOOLEAN
    <3>1. UNCHANGED <<ends, park, world>>
      BY DEF CaptureStep, Opens, Hear, Upload, Finish, Drop, Delegate, Run, Commit, Replay,
         Reply, FallBack, Ends, session
    <3>2. UNCHANGED inFlight \/ inFlight' = FALSE
      BY DEF CaptureStep, Opens, Hear, Upload, Finish, Drop, Delegate, Run, Commit, Replay,
         Reply, FallBack, Ends, session, marks, Idle
    <3>3. begun' \in BOOLEAN
      BY DEF CaptureStep, Opens, Hear, Upload, Finish, Drop, Delegate, Run, Commit, Replay,
         Reply, FallBack, Ends, Idle, Captured
    <3>4. spoke' \in BOOLEAN
      BY DEF CaptureStep, Opens, Hear, Upload, Finish, Drop, Delegate, Run, Commit, Replay,
         Reply, FallBack, Ends, Captured
    <3> QED BY <3>1, <3>2, <3>3, <3>4 DEF Flags, ends, park, world
  <2>2. CASE Hear
    BY <2>1, <2>2 DEF Hear, Captured
  <2>3. CASE Upload
    BY <2>1, <2>3 DEF Upload, Captured
  <2> QED BY <2>1, <2>2, <2>3 DEF CaptureStep, Opens, Finish, Drop, Delegate, Run, Commit,
             Replay, Reply, FallBack, Ends, Idle, Captured
<1>3. phase' \in Phases /\ said' \in Endings \cup {"none"}
  BY DEF CaptureStep, Opens, Hear, Upload, Finish, Drop, Delegate, Run, Commit, CommitAudio,
     Replay, Reply, FallBack, Ends, Idle, Captured, Phases
<1>4. turn' \in 0 .. MaxTurns /\ frames' \in 0 .. MaxFrames
  <2>1. CASE Opens \/ Hear
    BY <2>1, SessionBounds DEF Opens, Hear, Captured
  <2>2. \/ Opens \/ Hear
        \/ UNCHANGED turn /\ frames' \in {frames, 0}
    BY DEF CaptureStep, Upload, Finish, Drop, Delegate, Run, Commit, Replay, Reply, FallBack,
       Ends, Idle
  <2> QED BY <2>1, <2>2, SessionBounds DEF Captured
<1>5. at' \in [Threads -> Places]
  <2>1. CASE Opens
    BY <2>1, SessionBounds, TypedThreads DEF Opens, Captured, Threads, Places
  <2> QED BY <2>1 DEF CaptureStep, Hear, Upload, Finish, Drop, Delegate, Run, Commit, Replay,
             Reply, FallBack, Ends, Idle, Captured
<1>6. bound' \in [agent : Agents \cup {None}, gen : Nat]
  <2>1. CASE UNCHANGED bound \/ bound' = NoBinding
    BY <2>1 DEF Names, NoBinding
  <2>2. CASE agent \in up /\ bound' = [agent |-> agent, gen |-> gen[agent]]
    BY <2>2 DEF Transported
  <2> QED BY <2>1, <2>2 DEF CaptureStep, Opens, Hear, Upload, Finish, Drop, Delegate, Run,
             Commit, Replay, Reply, FallBack, Ends, Idle, BindAndFlush, session, marks
<1>7. \A n \in 0 .. MaxFrames : turn > 0 => Recorded(n) \subseteq Frames
  BY SessionBounds DEF Recorded, Frames, Captured
<1>8. Transported'
  <2>1. activity' \in [Agents -> SUBSET Frames]
    <3>1. CASE Hear
      <4>1. <<turn, frames + 1>> \in Frames
        BY <3>1, SessionBounds DEF Hear, Captured, Frames
      <4> QED BY <3>1, <4>1 DEF Hear, Transported
    <3>2. CASE UNCHANGED activity \/ activity' = [activity EXCEPT ![agent] = {}]
      BY <3>2 DEF Transported
    <3>3. CASE phase # "idle" /\ BindAndFlush
      BY <3>3, <1>7 DEF BindAndFlush, Transported, Captured
    <3> QED BY <3>1, <3>2, <3>3 DEF CaptureStep, Opens, Upload, Finish, Drop, Delegate, Run,
               Commit, CommitAudio, Replay, Reply, FallBack, Ends, Idle, session, transport
  <2>2. UNCHANGED <<loops, up, gen>> /\ stale' \subseteq Agents
    BY DEF CaptureStep, Opens, Hear, Upload, Finish, Drop, Delegate, Run, Commit, Replay,
       Reply, FallBack, Ends, session, transport, Transported
  <2> QED BY <2>1, <2>2 DEF Transported
<1>9. Names'
  <2>1. UNCHANGED <<ends, agent, announce, world>>
    BY DEF CaptureStep, Opens, Hear, Upload, Finish, Drop, Delegate, Run, Commit, Replay,
       Reply, FallBack, Ends, Idle, session, marks
  <2> QED BY <1>1, <1>6, <2>1 DEF Names, RebuildSet, ends, world
<1>10. Remembered'
  <2>1. CASE Commit \/ Replay
    <3>1. CASE UNCHANGED committed
      BY <2>1, <3>1 DEF Commit, Replay, Remembered
    <3>2. CASE \E audio \in SUBSET Frames, isBound \in BOOLEAN : CommitAudio(audio, isBound)
      <4>1. PICK audio \in SUBSET Frames, isBound \in BOOLEAN : CommitAudio(audio, isBound)
        BY <3>2
      <4>2. committed' = [turn |-> turn, length |-> frames, audio |-> audio, bound |-> isBound]
        BY <4>1 DEF CommitAudio
      <4> QED BY <2>1, <4>2 DEF Commit, Replay, Remembered, Captured
    <3>3. agent \in up => activity[agent] \in SUBSET Frames
      BY DEF Transported
    <3>4. phase # "idle" => Recorded(frames) \subseteq Frames
      BY <1>7 DEF Captured
    <3> QED BY <2>1, <3>1, <3>2, <3>3, <3>4 DEF Commit, Replay, Valid
  <2>2. NoCommit \in [turn : 0 .. MaxTurns, length : 0 .. MaxFrames, audio : SUBSET Frames,
                    bound : BOOLEAN]
    BY SessionBounds DEF NoCommit
  <2>3. ~Commit /\ ~Replay => UNCHANGED committed \/ committed' = NoCommit
    BY DEF CaptureStep, Opens, Hear, Upload, Finish, Drop, Delegate, Run, Reply, FallBack,
       Ends, Idle, ghosts
  <2>4. spoilt' \subseteq 1 .. MaxTurns
    <3>1. CASE Delegate
      BY <3>1, SessionBounds DEF Delegate, Captured, Remembered
    <3>2. CASE ~Delegate
      <4>1. UNCHANGED spoilt
        BY <3>2 DEF CaptureStep, Opens, Hear, Upload, Finish, Drop, Run, Commit, Replay,
           Reply, FallBack, Ends, ghosts
      <4> QED BY <4>1 DEF Remembered
    <3> QED BY <3>1, <3>2
  <2> QED BY <2>1, <2>2, <2>3, <2>4 DEF Remembered
<1> QED BY <1>1, <1>2, <1>3, <1>4, <1>5, <1>8, <1>9, <1>10 DEF Captured

(* The session, the captures and the announcer keep their types: what an   *)
(* activity holds and a commit sends are frames of captures that were      *)
(* opened (start_realtime_turn, _commit_turn_output), and no binding names *)
(* an agent that was never made (bind_audio_turn).                         *)
THEOREM TypeOKKept == Spec => []TypeOK
<1>1. Init => Typed
  <2> SUFFICES ASSUME Init PROVE Typed
    OBVIOUS
  <2>1. Flags
    BY DEF Init, SessionInit, Flags
  <2>2. Names
    BY SessionBounds, NoRebuildTyped DEF Init, SessionInit, Names, RebuildSet, NoBinding
  <2>3. Transported
    BY DEF Init, SessionInit, Transported
  <2>4. Captured
    <3>1. at \in [Threads -> Places]
      BY DEF Init, Places
    <3>2. rebuild.by # Committer
      BY SessionBounds DEF Init, SessionInit, NoRebuild, Background, Committer
    <3>3. turn \in 0 .. MaxTurns /\ frames \in 0 .. MaxFrames
      BY SessionBounds DEF Init
    <3>4. phase = "idle" /\ said = "none" /\ begun = FALSE /\ deferred = FALSE /\ spoke = FALSE
      BY DEF Init
    <3> QED BY <3>1, <3>2, <3>3, <3>4 DEF Captured, Phases
  <2>5. Remembered
    BY SessionBounds DEF Init, Remembered, NoCommit
  <2> QED BY <2>1, <2>2, <2>3, <2>4, <2>5 DEF Typed
<1>2. Typed /\ [Next]_vars => Typed'
  <2> SUFFICES ASSUME Typed, [Next]_vars PROVE Typed'
    OBVIOUS
  <2>1. CASE SessionStep /\ Alone
    BY <2>1, TypedSession
  <2>2. CASE RebuildEnds
    BY <2>2, TypedRebuildEnds
  <2>3. CASE PrepareStep
    BY <2>3, TypedPrepareStep
  <2>4. CASE CaptureStep
    BY <2>4, TypedCaptureStep
  <2>5. CASE AnnounceStep
    BY <2>5, TypedAnnounceStep
  <2>6. CASE UNCHANGED vars
    BY <2>6 DEF vars, session, capture, ends, transport, park, marks, world, ghosts,
       Typed, Flags, Names, Transported, Captured, Remembered
  <2> QED BY <2>1, <2>2, <2>3, <2>4, <2>5, <2>6 DEF Next
<1>3. Typed => TypeOK
  BY TypedIsTypeOK
<1> QED BY <1>1, <1>2, <1>3, PTL DEF Spec

-----------------------------------------------------------------------------

(***************************************************************************)
(* What the model hears in a committed turn, for any number of agents,     *)
(* captures, frames, outages and announcements.                            *)
(*                                                                         *)
(* A turn is pinned while the transport it was bound to is still the       *)
(* current one.  While a capture is open and its turn is pinned, the open  *)
(* activity holds what was recorded so far, except during a replacement:   *)
(* then frames are only kept.  A replacement that succeeds unpins the      *)
(* turn; one that fails puts it into spoilt.  And whenever somebody may    *)
(* commit, what else the activity holds is of spoilt turns.                *)
(***************************************************************************)

Open == {"capture", "finish", "run", "commit"}

Pinned == agent = bound.agent /\ agent \in up /\ gen[agent] = bound.gen

(* A transport that was bound never comes back under its number.           *)
Pins ==
  /\ gen \in [Agents -> Nat] /\ \A k \in loops : gen[k] # 0
  /\ bound \in [agent : Agents \cup {None}, gen : Nat]
  /\ bound # NoBinding => bound.agent # None
  /\ starting # None => bound.agent # starting
  /\ (agent = bound.agent /\ agent \in loops) => gen[agent] >= bound.gen

Phased ==
  /\ frames \in Nat
  /\ phase = "idle" => bound = NoBinding
  /\ bound # NoBinding => begun
  /\ deferred => begun
  /\ phase \in {"finish", "run", "commit"} => frames > 0
  /\ phase \in {"recover", "replay"} => bound # NoBinding
  /\ (phase = "capture" /\ bound # NoBinding /\ deferred) => ~Pinned

Whole ==
  (phase \in Open /\ Pinned) =>
     /\ <<turn, 1>> \in activity[agent]
     /\ \/ phase # "commit" /\ Rebuilding
        \/ turn \in spoilt
        \/ Recorded(frames) \subseteq activity[agent]

WholeInv == Pins /\ Phased /\ Whole

(* The audio in the activity that the open capture did not stream.         *)
Foreign ==
  {f \in activity[agent] :
     f[1] \notin spoilt /\ (f[1] # turn \/ phase \notin Open \/ ~begun)}

Clean == (agent \in up /\ (phase = "commit" \/ ~Rebuilding)) => Foreign = {}

-----------------------------------------------------------------------------
(* Facts of one state.                                                     *)
LEMMA ConnectedIsStarted ==
  ASSUME SessionInv, agent \in up
  PROVE  started /\ starting = None /\ agent \in Agents /\ agent # None
BY SessionBounds DEF SessionBounds, SessionInv, Shapes, Owners, SessionsOwned, None

LEMMA PinnedIsBound ==
  ASSUME SessionInv, WholeInv, Pinned
  PROVE  bound # NoBinding /\ Valid(bound)
BY ConnectedIsStarted DEF Pinned, NoBinding, Valid

-----------------------------------------------------------------------------
(* The steps that no capture takes.                                        *)

(* What such a step may do to a pinned turn: break the pin, or leave its   *)
(* activity alone; and no replacement ends without one of the two, or with *)
(* the turn in spoilt.                                                     *)
KeepsPin ==
  (phase \in Open /\ Pinned') =>
     /\ Pinned /\ agent' = agent /\ activity'[agent] = activity[agent]
     /\ (phase # "commit" /\ Rebuilding) => Rebuilding' \/ turn \in spoilt'

LEMMA WholeFrame ==
  ASSUME WholeInv, Pins', KeepsPin, spoilt \subseteq spoilt',
         UNCHANGED <<turn, frames, begun, deferred, bound>>,
         phase' = phase \/ (phase = "recover" /\ phase' \in {"replay", "over"})
  PROVE  WholeInv'
<1>1. Phased'
  BY DEF WholeInv, Phased, KeepsPin, Open
<1>2. Whole'
  <2> SUFFICES ASSUME phase' \in Open, Pinned'
               PROVE  /\ <<turn, 1>> \in activity'[agent']
                      /\ \/ phase' # "commit" /\ Rebuilding'
                         \/ turn \in spoilt'
                         \/ Recorded(frames) \subseteq activity'[agent']
    BY DEF Whole, Recorded
  <2>1. phase' = phase /\ Pinned /\ agent' = agent /\ activity'[agent] = activity[agent]
    BY DEF KeepsPin, Open
  <2> QED BY <2>1 DEF KeepsPin, WholeInv, Whole
<1> QED BY <1>1, <1>2 DEF WholeInv

(* Steps that at most begin a rebuild.                                     *)
LEMMA WholeQuiet ==
  ASSUME WholeInv,
         UNCHANGED <<agent, starting, loops, up, gen, activity, bound>>,
         UNCHANGED <<phase, turn, frames, begun, deferred, spoilt>>,
         Rebuilding => Rebuilding'
  PROVE  WholeInv'
<1>1. Pins'
  BY DEF WholeInv, Pins
<1>2. KeepsPin
  BY DEF KeepsPin, Pinned
<1> QED BY <1>1, <1>2, WholeFrame

(* Transports that open are counted, and whoever has loops has a count.    *)
LEMMA Counted ==
  ASSUME gen \in [Agents -> Nat], \A j \in loops : gen[j] # 0, loops \subseteq Agents,
         NEW opened \in SUBSET Agents, NEW closed, Transports(opened, closed)
  PROVE  gen' \in [Agents -> Nat] /\ \A j \in loops' : gen'[j] # 0
<1>1. /\ loops' = (loops \ closed) \cup opened
      /\ gen' = [k \in Agents |-> IF k \in opened THEN gen[k] + 1
                                 ELSE IF k \in closed THEN 0 ELSE gen[k]]
  BY DEF Transports
<1> QED BY <1>1

LEMMA WholePublish ==
  ASSUME SessionInv, WholeInv, NEW k \in Agents, Publish(k)
  PROVE  Pins' /\ ~Pinned'
<1> USE DEF WholeInv, Pins
<1>1. /\ agent' = k /\ bound.agent # k /\ bound' = bound /\ starting' = starting
      /\ Transports({k}, Replaced(k))
  BY DEF Publish, New, InUse, marks
<1>2. /\ gen' \in [Agents -> Nat] /\ \A j \in loops' : gen'[j] # 0
  BY <1>1, Counted DEF SessionInv, Shapes
<1> QED BY <1>1, <1>2 DEF Pinned

LEMMA WholeRebuildFails ==
  ASSUME SessionInv, WholeInv, RebuildFails,
         spoilt' = spoilt \cup IF agent' = None THEN {} ELSE {f[1] : f \in activity[agent]}
  PROVE  Pins' /\ KeepsPin
<1> USE DEF WholeInv
<1>1. /\ agent' \in {None, agent} /\ bound' = bound /\ starting' = starting
      /\ Transports({}, Replaced(agent'))
  BY DEF RebuildFails, marks, ends
<1>2. /\ gen' = [j \in Agents |-> IF j \in Replaced(agent') THEN 0 ELSE gen[j]]
      /\ loops' = loops \ Replaced(agent') /\ up' = up \ Replaced(agent')
      /\ activity' = [j \in Agents |-> IF j \in Replaced(agent') THEN {} ELSE activity[j]]
  BY <1>1 DEF Transports
<1>3. None \notin loops /\ loops \subseteq Agents /\ up \subseteq loops
  BY SessionBounds DEF SessionBounds, None, SessionInv, Shapes
<1>4. agent' \notin Replaced(agent')
  BY DEF Replaced
<1>5. Pins'
  BY <1>1, <1>2, <1>3, <1>4 DEF Pins
<1>6. ASSUME phase \in Open, Pinned' PROVE KeepsPin
  <2>1. agent' = agent /\ agent \in up /\ agent # None
    BY <1>1, <1>2, <1>3, <1>6 DEF Pinned
  <2>2. Pinned /\ activity'[agent] = activity[agent]
    BY <1>1, <1>2, <1>3, <1>4, <1>6, <2>1 DEF Pinned
  <2>3. <<turn, 1>> \in activity[agent]
    BY <1>6, <2>2 DEF Whole
  <2>4. turn \in {f[1] : f \in activity[agent]}
    BY <2>3
  <2> QED BY <2>1, <2>2, <2>4 DEF KeepsPin
<1> QED BY <1>5, <1>6 DEF KeepsPin

(* The steps of the session itself.                                        *)
LEMMA WholeHeal ==
  ASSUME SessionInv, WholeInv, NEW k \in Agents, Heal(k)
  PROVE  Pins' /\ KeepsPin
<1> USE DEF WholeInv, Pins
<1>1. /\ k \in loops \ up /\ agent' = agent /\ bound' = bound /\ starting' = starting
      /\ rebuild' = rebuild
      /\ loops' = loops /\ up' = up \cup {k}
      /\ gen' = [gen EXCEPT ![k] = @ + 1]
      /\ activity' = [j \in Agents |-> IF j = k THEN {} ELSE activity[j]]
  BY DEF Heal, Transports, marks, ends, SessionInv, Shapes
<1>2. Pins'
  BY <1>1 DEF SessionInv, Shapes
<1>3. Pinned' => k # agent
  BY <1>1 DEF Pinned
<1>4. (Pinned' => Pinned /\ activity'[agent] = activity[agent]) /\ Rebuilding' = Rebuilding
  BY <1>1, <1>3 DEF Pinned, SessionInv, Shapes, Rebuilding
<1> QED BY <1>1, <1>2, <1>4 DEF KeepsPin

LEMMA WholeEnds ==
  ASSUME SessionInv, WholeInv,
         (\E k \in Agents : StartMakes(k)) \/ StartConnects \/ StopTakes \/ StopCloses
           \/ ParkCloses
  PROVE  Pins' /\ ~Pinned'
<1>1. /\ Pins /\ up \subseteq loops /\ loops \subseteq Agents /\ None \notin Agents
      /\ starting \in Agents \cup {None}
  BY SessionBounds DEF SessionBounds, WholeInv, SessionInv, Shapes, None
<1>2. ASSUME NEW opened \in SUBSET Agents, NEW closed, Transports(opened, closed)
      PROVE  gen' \in [Agents -> Nat] /\ \A j \in loops' : gen'[j] # 0
  BY <1>1, <1>2, Counted DEF Pins
<1>3. CASE \E k \in Agents : StartMakes(k)
  <2>1. PICK k \in Agents : /\ agent' = k /\ starting' = k /\ k # bound.agent
                            /\ UNCHANGED <<loops, gen, bound>>
    BY <1>3 DEF StartMakes, New, InUse, transport, marks
  <2> QED BY <1>1, <2>1 DEF Pins, Pinned
<1>4. CASE StartConnects
  <2>1. /\ starting # None /\ starting' = None /\ agent' = agent /\ agent = starting
        /\ bound' = bound /\ bound.agent # starting
    BY <1>1, <1>4 DEF StartConnects, marks, Pins, SessionInv, Owners
  <2>2. gen' \in [Agents -> Nat] /\ \A j \in loops' : gen'[j] # 0
    <3>1. CASE Transports({starting}, {})
      BY <1>1, <1>2, <2>1, <3>1
    <3>2. CASE UNCHANGED transport
      BY <1>1, <3>2 DEF transport, Pins
    <3> QED BY <1>4, <3>1, <3>2 DEF StartConnects
  <2> QED BY <1>1, <2>1, <2>2 DEF Pins, Pinned
<1>5. CASE StopTakes
  <2>1. agent' = None /\ UNCHANGED <<starting, bound, loops, up, gen>>
    BY <1>5 DEF StopTakes, transport, marks
  <2> QED BY <1>1, <2>1 DEF Pins, Pinned
<1>6. CASE StopCloses
  <2>1. /\ agent' = None /\ starting' = starting /\ bound' = bound
        /\ Transports({}, {stopping})
    BY <1>6 DEF StopCloses, marks, SessionInv, Owners
  <2>2. loops' = loops \ {stopping} /\ up' = up \ {stopping}
    BY <2>1 DEF Transports
  <2>3. gen' \in [Agents -> Nat] /\ \A j \in loops' : gen'[j] # 0
    BY <1>2, <2>1
  <2> QED BY <1>1, <2>1, <2>2, <2>3 DEF Pins, Pinned
<1>7. CASE ParkCloses
  <2>1. /\ agent' = agent /\ starting' = starting /\ bound' = bound
        /\ Transports({}, {rebuild.old}) /\ agent \in {rebuild.old, None}
    BY <1>7 DEF ParkCloses, marks, ends, Rebuilding, SessionInv, RebuildShape
  <2>2. loops' = loops \ {rebuild.old} /\ up' = up \ {rebuild.old}
    BY <2>1 DEF Transports
  <2>3. gen' \in [Agents -> Nat] /\ \A j \in loops' : gen'[j] # 0
    BY <1>2, <2>1
  <2> QED BY <1>1, <2>1, <2>2, <2>3 DEF Pins, Pinned
<1> QED BY <1>3, <1>4, <1>5, <1>6, <1>7

LEMMA WholeSession ==
  ASSUME SessionInv, WholeInv, SessionStep, Alone
  PROVE  WholeInv'
<1>1. UNCHANGED <<phase, turn, frames, begun, deferred, spoilt, committed>>
  BY DEF Alone, capture, ghosts
<1>2. bound' = bound
  BY DEF SessionStep, Heal, StartMakes, Lose, Outage, Restored, StartConnects, StopTakes,
     StopCloses, RetryTries, RetryEnds, ParkDecides, ParkBegins, ParkCloses, marks
<1>3. CASE Outage \/ Restored \/ RetryTries \/ RetryEnds \/ ParkDecides \/ ParkBegins
  <2>1. UNCHANGED <<agent, starting, loops, up, gen, activity>>
    BY <1>3 DEF Outage, Restored, RetryTries, RetryEnds, ParkDecides, ParkBegins, ends,
       transport
  <2>2. Rebuilding => Rebuilding'
    BY <1>3 DEF Outage, Restored, RetryTries, RetryEnds, ParkDecides, ParkBegins, Begin,
       Rebuilding
  <2> QED BY <1>1, <1>2, <2>1, <2>2, WholeQuiet
<1>4. CASE Lose
  <2>1. Pins' /\ ~Pinned'
    BY <1>4 DEF Lose, ends, marks, WholeInv, Pins, Pinned
  <2> QED BY <1>1, <1>2, <2>1, WholeFrame DEF KeepsPin
<1>5. CASE \E k \in Agents : Heal(k)
  BY <1>1, <1>2, <1>5, WholeHeal, WholeFrame
<1>6. CASE (\E k \in Agents : StartMakes(k)) \/ StartConnects \/ StopTakes \/ StopCloses
           \/ ParkCloses
  BY <1>1, <1>2, <1>6, WholeEnds, WholeFrame DEF KeepsPin
<1> QED BY <1>3, <1>4, <1>5, <1>6 DEF SessionStep

LEMMA WholeRebuildEnds ==
  ASSUME SessionInv, WaitsForIt, WholeInv, RebuildEnds
  PROVE  WholeInv'
<1>1. PICK ok \in BOOLEAN : Resume(ok)
  BY DEF RebuildEnds
<1>2. rebuild.by = Committer => phase = "recover"
  BY DEF RebuildEnds, Publish, RebuildFails, WaitsForIt, Rebuilding
<1>3. UNCHANGED <<turn, frames, begun, deferred>>
  BY <1>1 DEF Resume
<1>4. phase' = phase \/ (phase = "recover" /\ phase' \in {"replay", "over"})
  <2>1. phase' = IF rebuild.by = Committer THEN IF ok THEN "replay" ELSE "over" ELSE phase
    BY <1>1 DEF Resume
  <2> QED BY <1>2, <2>1
<1>5. CASE \E k \in Agents : Publish(k) /\ Resume(TRUE) /\ UNCHANGED spoilt
  <2>1. Pins' /\ ~Pinned' /\ bound' = bound
    BY <1>5, WholePublish DEF Publish, marks
  <2> QED BY <1>3, <1>4, <1>5, <2>1, WholeFrame DEF KeepsPin
<1>6. CASE RebuildFails /\ Resume(FALSE)
  <2>1. spoilt' = spoilt \cup IF agent' = None THEN {} ELSE {f[1] : f \in activity[agent]}
    BY <1>6 DEF RebuildEnds, RebuildFails, Publish, Cancelled
  <2>2. Pins' /\ KeepsPin /\ bound' = bound
    BY <1>6, <2>1, WholeRebuildFails DEF RebuildFails, marks
  <2> QED BY <1>3, <1>4, <2>1, <2>2, WholeFrame
<1> QED BY <1>5, <1>6 DEF RebuildEnds

(* The steps of the threads that prepare a session and of the announcer.   *)
LEMMA AsideIsQuiet ==
  ASSUME PrepareStep \/ AnnounceStep
  PROVE  /\ UNCHANGED <<agent, starting, loops, up, gen, activity, bound>>
         /\ UNCHANGED <<phase, turn, frames, begun, deferred, spoilt, committed>>
         /\ Rebuilding => Rebuilding'
<1>1. CASE PrepareStep
  <2>1. /\ UNCHANGED <<agent, starting, loops, up, gen, activity, bound>>
        /\ UNCHANGED <<phase, turn, frames, begun, deferred, spoilt, committed>>
    BY <1>1 DEF PrepareStep, MarkTurn, StopAnnouncement, PrepareSession, Join, ends,
       transport, marks, capture, ghosts
  <2>2. UNCHANGED rebuild \/ \E w, why : Begin(why, w)
    BY <1>1 DEF PrepareStep, MarkTurn, StopAnnouncement, PrepareSession, Join, RebuildNow
  <2> QED BY <2>1, <2>2 DEF Begin, Rebuilding
<1>2. CASE AnnounceStep
  <2>1. /\ UNCHANGED <<agent, starting, loops, up, gen, activity, bound>>
        /\ UNCHANGED <<phase, turn, frames, begun, deferred, spoilt, committed>>
    BY <1>2 DEF AnnounceStep, AnnounceBegins, AnnounceReplaces, AnnounceRegisters,
       AnnounceSpeaks, AnnounceEnds, AnnounceStops, ends, transport, marks, capture, ghosts
  <2>2. UNCHANGED rebuild \/ \E w, why : Begin(why, w)
    BY <1>2 DEF AnnounceStep, AnnounceBegins, AnnounceReplaces, AnnounceRegisters,
       AnnounceSpeaks, AnnounceEnds, AnnounceStops, Recycle
  <2> QED BY <2>1, <2>2 DEF Begin, Rebuilding
<1> QED BY <1>1, <1>2

-----------------------------------------------------------------------------
(* The capture.                                                            *)

(* Nothing is pinned to an idle capture.                                   *)
LEMMA WholeIdle ==
  ASSUME SessionInv, WholeInv, Idle, UNCHANGED <<agent, starting, loops, gen>>
  PROVE  WholeInv'
<1>1. /\ phase' = "idle" /\ bound' = NoBinding /\ frames' = 0 /\ begun' = FALSE
      /\ deferred' = FALSE
  BY DEF Idle
<1>2. Pins'
  <2>1. None \notin Agents
    BY SessionBounds DEF SessionBounds, None
  <2> QED BY <1>1, <2>1 DEF NoBinding, WholeInv, Pins, None, SessionInv, Shapes
<1> QED BY <1>1, <1>2 DEF WholeInv, Phased, Whole, Open

(* bind_audio_turn of a connected agent.                                   *)
LEMMA BindPins ==
  ASSUME SessionInv, WholeInv, agent \in up, UNCHANGED <<agent, starting, loops, gen>>,
         bound' = [agent |-> agent, gen |-> gen[agent]]
  PROVE  Pins' /\ bound' # NoBinding
<1>1. starting = None /\ agent \in Agents /\ agent # None
  BY ConnectedIsStarted
<1> QED BY <1>1 DEF WholeInv, Pins, NoBinding

LEMMA WholeHear ==
  ASSUME SessionInv, WholeInv, Hear
  PROVE  WholeInv'
<1> USE DEF WholeInv
<1> DEFINE streams == begun /\ ~deferred /\ Available
           goes    == IF bound = NoBinding THEN agent \in up ELSE Valid(bound)
<1>1. /\ phase = "capture" /\ phase' = "capture" /\ frames' = frames + 1
      /\ UNCHANGED <<agent, starting, loops, up, gen, rebuild, bound, turn, begun, spoilt>>
      /\ activity' = IF streams /\ goes
                     THEN [activity EXCEPT ![agent] = @ \cup {<<turn, frames + 1>>}]
                     ELSE activity
      /\ deferred' = (deferred \/ (streams /\ ~goes /\ bound # NoBinding))
  BY DEF Hear, ends, marks, ghosts
<1>2. Pins'
  BY <1>1 DEF Pins
<1>3. Pinned' <=> Pinned
  BY <1>1 DEF Pinned
<1>4. Pinned => ~deferred /\ begun /\ goes
  BY <1>1, PinnedIsBound DEF Phased
<1>5. Phased'
  <2>1. deferred' => begun
    BY <1>1 DEF Phased
  <2>2. Pinned => ~deferred'
    BY <1>1, <1>4
  <2> QED BY <1>1, <1>3, <2>1, <2>2 DEF Phased
<1>6. Whole'
  <2> SUFFICES ASSUME Pinned
               PROVE  /\ <<turn, 1>> \in activity'[agent]
                      /\ \/ Rebuilding
                         \/ turn \in spoilt
                         \/ {turn} \X (1 .. (frames + 1)) \subseteq activity'[agent]
    BY <1>1, <1>3 DEF Whole, Recorded, Rebuilding
  <2>1. agent \in Agents /\ agent # None /\ started /\ agent \in up
    BY ConnectedIsStarted DEF Pinned
  <2>2. Rebuilding \/ streams
    BY <1>4, <2>1 DEF Available
  <2>3. DOMAIN activity = Agents
    BY DEF SessionInv, Shapes
  <2>4. activity[agent] \subseteq activity'[agent]
    BY <1>1, <2>1, <2>3
  <2>5. CASE streams
    <3>1. activity'[agent] = activity[agent] \cup {<<turn, frames + 1>>}
      BY <1>1, <1>4, <2>1, <2>3, <2>5
    <3>2. 1 .. (frames + 1) = (1 .. frames) \cup {frames + 1}
      BY DEF Phased
    <3> QED BY <1>1, <3>1, <3>2 DEF Whole, Open, Recorded, Available
  <2> QED BY <1>1, <2>2, <2>4, <2>5 DEF Whole, Open
<1> QED BY <1>2, <1>5, <1>6

(* start_realtime_turn, or the flush of a turn that was put off.           *)
LEMMA WholeBinds ==
  ASSUME SessionInv, WholeInv, agent \in up, BindAndFlush,
         UNCHANGED <<agent, starting, loops, up, gen, turn, frames>>,
         frames > 0, begun', phase' \in {"capture", "finish", "run"},
         phase' = "capture" => ~deferred'
  PROVE  WholeInv'
<1>1. /\ bound' = [agent |-> agent, gen |-> gen[agent]]
      /\ activity' = [activity EXCEPT ![agent] = @ \cup Recorded(frames)]
  BY DEF BindAndFlush
<1>2. Pins' /\ bound' # NoBinding
  BY <1>1, BindPins
<1>3. Phased'
  BY <1>2 DEF WholeInv, Phased
<1>4. agent \in Agents /\ DOMAIN activity = Agents
  BY ConnectedIsStarted DEF SessionInv, Shapes
<1>5. Recorded(frames) \subseteq activity'[agent] /\ <<turn, 1>> \in Recorded(frames)
  BY <1>1, <1>4 DEF WholeInv, Phased, Recorded
<1>6. Whole'
  BY <1>5 DEF Whole, Recorded
<1> QED BY <1>2, <1>3, <1>6 DEF WholeInv

(* A step of the capture that binds and streams nothing.                   *)
LEMMA WholeMoves ==
  ASSUME SessionInv, WholeInv,
         UNCHANGED <<agent, starting, loops, up, gen, activity, bound, rebuild>>,
         UNCHANGED <<turn, frames, spoilt>>,
         phase \in Open, phase' \in Open, phase' # "capture",
         frames > 0, begun => begun', deferred' => begun', bound # NoBinding => begun',
         phase' = "commit" => phase = "commit" \/ ~Rebuilding
  PROVE  WholeInv'
<1>1. Pins' /\ (Pinned' <=> Pinned) /\ (Rebuilding' <=> Rebuilding)
  BY DEF WholeInv, Pins, Pinned, Rebuilding
<1>2. Phased'
  BY DEF WholeInv, Phased, Open
<1>3. Whole'
  BY <1>1 DEF WholeInv, Whole, Recorded
<1> QED BY <1>1, <1>2, <1>3 DEF WholeInv

LEMMA WholeUpload ==
  ASSUME SessionInv, WholeInv, Upload
  PROVE  WholeInv'
<1>1. /\ UNCHANGED <<agent, starting, loops, up, gen, rebuild, phase, turn, frames, spoilt>>
      /\ phase \in {"capture", "finish"} /\ ~begun /\ frames > 0 /\ begun' = TRUE
  BY DEF Upload, ends, ghosts
<1>2. CASE Available /\ agent \in up
  BY <1>1, <1>2, WholeBinds DEF Upload, WholeInv, Phased
<1>3. CASE ~(Available /\ agent \in up)
  <2>1. UNCHANGED <<bound, activity>> /\ bound = NoBinding
    BY <1>1, <1>3 DEF Upload, WholeInv, Phased
  <2>2. Pins'
    BY <1>1, <2>1 DEF WholeInv, Pins
  <2>3. ~Pinned'
    BY <1>1, <2>1, PinnedIsBound DEF Pinned
  <2> QED BY <1>1, <2>1, <2>2, <2>3 DEF WholeInv, Phased, Whole
<1> QED BY <1>2, <1>3

LEMMA WholeCommits ==
  ASSUME SessionInv, WholeInv, Commit \/ Replay
  PROVE  WholeInv'
<1>1. /\ UNCHANGED <<agent, starting, loops, up, gen, turn, frames, begun, deferred>>
      /\ phase' \in {"reply", "over"} \/ (phase' = "recover" /\ bound' # NoBinding)
  BY DEF Commit, Replay, CommitAudio, ends, marks
<1>2. Pins' /\ (bound' # NoBinding => begun)
  <2>1. CASE UNCHANGED bound
    BY <1>1, <2>1 DEF WholeInv, Pins, Phased
  <2>2. CASE bound' # bound
    <3>1. /\ phase = "replay" /\ agent \in up
          /\ bound' = [agent |-> agent, gen |-> gen[agent]]
      BY <2>2 DEF Commit, Replay, marks
    <3>2. begun
      BY <3>1 DEF WholeInv, Phased
    <3> QED BY <1>1, <3>1, <3>2, BindPins
  <2> QED BY <2>1, <2>2
<1>3. Phased'
  BY <1>1, <1>2 DEF WholeInv, Phased
<1> QED BY <1>1, <1>2, <1>3 DEF WholeInv, Whole, Open

LEMMA WholeCapture ==
  ASSUME SessionInv, WholeInv, CaptureStep
  PROVE  WholeInv'
<1>1. CASE Opens
  <2>1. /\ UNCHANGED <<agent, starting, loops, up, gen, bound, frames, begun, deferred>>
        /\ phase = "idle" /\ phase' = "capture"
    BY <1>1 DEF Opens, session, ends, transport, marks
  <2>2. Pins' /\ bound' = NoBinding
    BY <2>1 DEF WholeInv, Pins, Phased
  <2>3. ~Pinned'
    BY <2>1, <2>2, PinnedIsBound DEF Pinned
  <2> QED BY <2>1, <2>2, <2>3 DEF WholeInv, Phased, Whole
<1>2. CASE Hear
  BY <1>2, WholeHear
<1>3. CASE Upload
  BY <1>3, WholeUpload
<1>4. CASE \E how \in Endings : Ends(how)
  <2>1. PICK how \in Endings : Ends(how)
    BY <1>4
  <2>2. CASE how = "limit"
    BY <2>1, <2>2, WholeIdle DEF Ends, ends, transport
  <2>3. CASE how # "limit"
    <3>1. /\ UNCHANGED <<agent, starting, loops, up, gen, activity, bound, rebuild>>
          /\ UNCHANGED <<turn, frames, begun, deferred, spoilt>>
          /\ phase = "capture" /\ phase' = "finish" /\ frames > 0
      BY <2>1, <2>3 DEF Ends, session, ends, transport, marks
    <3> QED BY <3>1, WholeMoves DEF WholeInv, Phased, Open
  <2> QED BY <2>2, <2>3
<1>5. CASE Finish
  <2>1. /\ UNCHANGED <<agent, starting, loops, up, gen, rebuild>>
        /\ UNCHANGED <<turn, frames, begun, deferred, spoilt>>
        /\ phase = "finish" /\ phase' = "run" /\ frames > 0
    BY <1>5 DEF Finish, ends, ghosts, WholeInv, Phased
  <2>2. CASE agent \in up /\ begun /\ BindAndFlush
    BY <2>1, <2>2, WholeBinds
  <2>3. CASE UNCHANGED <<bound, activity>>
    BY <2>1, <2>3, WholeMoves DEF WholeInv, Phased, Open
  <2> QED BY <1>5, <2>2, <2>3 DEF Finish
<1>6. CASE Run
  <2>1. /\ UNCHANGED <<agent, starting, loops, up, gen, activity, bound, rebuild>>
        /\ UNCHANGED <<turn, frames, begun, deferred, spoilt>>
        /\ phase = "run" /\ phase' = "commit" /\ ~Rebuilding
    BY <1>6 DEF Run, session, ends, transport, marks, ghosts, Available
  <2> QED BY <2>1, WholeMoves DEF WholeInv, Phased, Open
<1>7. CASE Commit \/ Replay
  BY <1>7, WholeCommits
<1>8. CASE Drop \/ Delegate \/ Reply \/ FallBack
  BY <1>8, WholeIdle DEF Drop, Delegate, Reply, FallBack, ends, transport
<1> QED BY <1>1, <1>2, <1>3, <1>4, <1>5, <1>6, <1>7, <1>8 DEF CaptureStep

-----------------------------------------------------------------------------
LEMMA WholeInvInit == Init => WholeInv
<1> SUFFICES ASSUME Init PROVE WholeInv
  OBVIOUS
<1> USE DEF Init, SessionInit
<1>1. Pins
  <2>1. None \notin Agents
    BY SessionBounds DEF SessionBounds, None
  <2> QED BY <2>1 DEF Pins, NoBinding, None
<1>2. Phased
  BY DEF Phased
<1>3. Whole
  BY DEF Whole, Open
<1> QED BY <1>1, <1>2, <1>3 DEF WholeInv

LEMMA WholeInvStep == SessionInv /\ WaitsForIt /\ WholeInv /\ [Next]_vars => WholeInv'
<1> SUFFICES ASSUME SessionInv, WaitsForIt, WholeInv, [Next]_vars
             PROVE  WholeInv'
  OBVIOUS
<1>1. CASE SessionStep /\ Alone
  BY <1>1, WholeSession
<1>2. CASE RebuildEnds
  BY <1>2, WholeRebuildEnds
<1>3. CASE PrepareStep \/ AnnounceStep
  BY <1>3, AsideIsQuiet, WholeQuiet
<1>4. CASE CaptureStep
  BY <1>4, WholeCapture
<1>5. CASE UNCHANGED vars
  <2>1. /\ UNCHANGED <<agent, starting, loops, up, gen, activity, bound>>
        /\ UNCHANGED <<phase, turn, frames, begun, deferred, spoilt, rebuild>>
    BY <1>5 DEF vars, session, ends, transport, marks, capture, ghosts
  <2> QED BY <2>1, WholeQuiet DEF Rebuilding
<1> QED BY <1>1, <1>2, <1>3, <1>4, <1>5 DEF Next

(* What is committed: nothing new, nothing, or the audio of a commit.      *)
LEMMA CommitShape ==
  ASSUME [Next]_vars
  PROVE  \/ committed' = committed
         \/ committed' = NoCommit
         \/ Commit \/ Replay
<1>1. CASE SessionStep /\ Alone
  BY <1>1 DEF Alone, ghosts
<1>2. CASE RebuildEnds
  BY <1>2 DEF RebuildEnds, Resume
<1>3. CASE PrepareStep \/ AnnounceStep
  BY <1>3, AsideIsQuiet
<1>4. CASE CaptureStep
  BY <1>4 DEF CaptureStep, Opens, Hear, Upload, Ends, Finish, Drop, Delegate, Run, Reply,
     FallBack, Idle, ghosts
<1>5. CASE UNCHANGED vars
  BY <1>5 DEF vars, ghosts
<1> QED BY <1>1, <1>2, <1>3, <1>4, <1>5 DEF Next

LEMMA SpoiltGrows ==
  ASSUME [Next]_vars
  PROVE  spoilt \subseteq spoilt'
<1>1. CASE SessionStep /\ Alone
  BY <1>1 DEF Alone, ghosts
<1>2. CASE RebuildEnds
  BY <1>2 DEF RebuildEnds
<1>3. CASE PrepareStep \/ AnnounceStep
  BY <1>3, AsideIsQuiet
<1>4. CASE CaptureStep
  BY <1>4 DEF CaptureStep, Opens, Hear, Upload, Ends, Finish, Drop, Delegate, Run, Commit,
     Replay, Reply, FallBack, ghosts
<1>5. CASE UNCHANGED vars
  BY <1>5 DEF vars, ghosts
<1> QED BY <1>1, <1>2, <1>3, <1>4, <1>5 DEF Next

LEMMA BoundCommitStep ==
  SessionInv /\ WholeInv /\ BoundTurnIsWhole /\ [Next]_vars => BoundTurnIsWhole'
<1> SUFFICES ASSUME SessionInv, WholeInv, BoundTurnIsWhole, [Next]_vars
             PROVE  BoundTurnIsWhole'
  OBVIOUS
<1>1. CASE committed' = committed
  BY <1>1, SpoiltGrows DEF BoundTurnIsWhole
<1>2. CASE committed' = NoCommit
  BY <1>2 DEF BoundTurnIsWhole, NoCommit
<1>3. CASE Commit /\ committed' # committed
  <2>1. \/ committed' = [turn |-> turn, length |-> frames, audio |-> activity[agent],
                         bound |-> FALSE]
        \/ /\ committed' = [turn |-> turn, length |-> frames, audio |-> activity[agent],
                            bound |-> TRUE]
           /\ Valid(bound)
    BY <1>3 DEF Commit, CommitAudio
  <2>2. Valid(bound) => turn \in spoilt \/ Recorded(frames) \subseteq activity[agent]
    BY <1>3 DEF Commit, Valid, WholeInv, Whole, Open, Pinned
  <2> QED BY <2>1, <2>2, SpoiltGrows DEF BoundTurnIsWhole, Recorded
<1>4. CASE Replay /\ committed' # committed
  <2>1. committed' = [turn |-> turn, length |-> frames,
                      audio |-> activity[agent] \cup Recorded(frames), bound |-> TRUE]
    BY <1>4 DEF Replay, CommitAudio
  <2> QED BY <2>1 DEF BoundTurnIsWhole, Recorded
<1> QED BY <1>1, <1>2, <1>3, <1>4, CommitShape

THEOREM WholeInvKept == Spec => [](SessionInv /\ TurnInv /\ WholeInv)
<1>1. Init => SessionInv /\ TurnInv /\ WholeInv
  BY SessionInvInit, TurnInvInit, WholeInvInit
<1>2. SessionInv /\ TurnInv /\ WholeInv /\ [Next]_vars => (SessionInv /\ TurnInv /\ WholeInv)'
  BY SessionInvStep, TurnInvStep, WholeInvStep DEF TurnInv
<1> QED BY <1>1, <1>2, PTL DEF Spec

(* What a bound turn commits is the whole utterance, through every         *)
(* reconnect and replacement of the session (bind_audio_turn,              *)
(* _validate_audio_turn), unless a replacement failed while it streamed.   *)
THEOREM BoundTurnIsWholeAlways == Spec => []BoundTurnIsWhole
<1>1. Init => BoundTurnIsWhole
  BY DEF Init, BoundTurnIsWhole, NoCommit
<1>2. SessionInv /\ TurnInv /\ WholeInv /\ BoundTurnIsWhole /\ [Next]_vars
        => BoundTurnIsWhole'
  BY BoundCommitStep
<1> QED BY <1>1, <1>2, WholeInvKept, PTL DEF Spec

-----------------------------------------------------------------------------
(* Nobody else's audio.                                                    *)

(* A step that keeps the agent, adds to its activity only what the open    *)
(* capture streams, and calls no more audio foreign than before.           *)
LEMMA CleanFrame ==
  ASSUME Clean, UNCHANGED <<agent, up, turn>>, spoilt \subseteq spoilt',
         activity'[agent] \subseteq activity[agent] \cup
           (IF phase' \in Open /\ begun' THEN Recorded(frames') ELSE {}),
         (phase' \in Open /\ begun') \/ phase \notin Open \/ ~begun,
         phase' = "commit" => phase = "commit" \/ ~Rebuilding,
         phase' = "commit" \/ (Rebuilding => Rebuilding')
  PROVE  Clean'
<1> SUFFICES ASSUME agent \in up, phase' = "commit" \/ ~Rebuilding'
             PROVE  Foreign' = {}
  BY DEF Clean
<1>1. Foreign = {}
  BY DEF Clean
<1>2. \A f \in activity[agent] :
        f[1] \in spoilt \/ (f[1] = turn /\ phase \in Open /\ begun)
  BY <1>1 DEF Foreign
<1>3. \A f \in activity'[agent] :
        f[1] \in spoilt' \/ (f[1] = turn /\ phase' \in Open /\ begun')
  <2> TAKE f \in activity'[agent]
  <2>1. CASE f \in activity[agent]
    BY <1>2, <2>1
  <2>2. CASE f \in Recorded(frames') /\ phase' \in Open /\ begun'
    <3>1. f[1] = turn
      BY <2>2 DEF Recorded
    <3> QED BY <2>2, <3>1
  <2> QED BY <2>1, <2>2
<1> QED BY <1>3 DEF Foreign

LEMMA CleanRebuildEnds ==
  ASSUME SessionInv, Clean, RebuildEnds
  PROVE  Clean'
<1>1. CASE \E k \in Agents : Publish(k)
  <2>1. PICK k \in Agents : agent' = k /\ Transports({k}, Replaced(k))
    BY <1>1 DEF Publish
  <2>2. activity'[k] = {}
    BY <2>1 DEF Transports
  <2> QED BY <2>1, <2>2 DEF Clean, Foreign
<1>2. CASE RebuildFails
  <2>1. spoilt' = spoilt \cup IF agent' = None THEN {} ELSE {f[1] : f \in activity[agent]}
    BY <1>2 DEF RebuildEnds, RebuildFails, Publish, Cancelled
  <2>2. agent' \in {None, agent} /\ Transports({}, Replaced(agent'))
    BY <1>2 DEF RebuildFails
  <2>3. up' \subseteq up /\ up \subseteq Agents /\ None \notin Agents
    BY <2>2, SessionBounds DEF SessionBounds, None, Transports, SessionInv, Shapes
  <2>4. SUFFICES ASSUME agent' = agent, agent \in up, agent # None
                 PROVE  Foreign' = {}
    BY <2>2, <2>3 DEF Clean
  <2>5. activity'[agent] = activity[agent]
    BY <2>2, <2>3, <2>4 DEF Transports, Replaced
  <2>6. \A f \in activity'[agent] : f[1] \in spoilt'
    BY <2>1, <2>4, <2>5
  <2> QED BY <2>4, <2>6 DEF Foreign
<1> QED BY <1>1, <1>2 DEF RebuildEnds

LEMMA CleanSession ==
  ASSUME SessionInv, Clean, SessionStep, Alone
  PROVE  Clean'
<1>1. UNCHANGED <<phase, turn, frames, begun, spoilt>>
  BY DEF Alone, capture, ghosts
<1>2. None \notin up /\ up \subseteq loops /\ loops \subseteq Agents
  BY SessionBounds DEF SessionBounds, None, SessionInv, Shapes
<1>3. CASE Outage \/ Restored \/ RetryTries \/ RetryEnds \/ ParkDecides \/ ParkBegins
  <2>1. UNCHANGED <<agent, up, activity>>
    BY <1>3 DEF Outage, Restored, RetryTries, RetryEnds, ParkDecides, ParkBegins, ends,
       transport
  <2>2. Rebuilding => Rebuilding'
    BY <1>3 DEF Outage, Restored, RetryTries, RetryEnds, ParkDecides, ParkBegins, Begin,
       Rebuilding
  <2> QED BY <1>1, <2>1, <2>2, CleanFrame
<1>4. CASE \E k \in Agents : Heal(k)
  <2>1. PICK k \in Agents : /\ agent' = agent /\ rebuild' = rebuild /\ k \in loops \ up
                            /\ up' = up \cup {k}
                            /\ activity' = [j \in Agents |-> IF j = k THEN {} ELSE activity[j]]
    BY <1>4 DEF Heal, Transports
  <2>2. CASE agent = k
    BY <2>1, <2>2 DEF Clean, Foreign
  <2>3. CASE agent # k
    <3>1. agent \in up' => agent \in up /\ activity'[agent] = activity[agent]
      BY <1>2, <2>1, <2>3
    <3> QED BY <1>1, <2>1, <3>1 DEF Clean, Foreign, Rebuilding
  <2> QED BY <2>2, <2>3
<1>5. CASE StartConnects
  <2>1. agent' = agent /\ agent = starting /\ agent \in Agents /\ agent \notin up
    BY <1>2, <1>5 DEF StartConnects, SessionInv, Shapes, Owners
  <2>2. CASE Transports({starting}, {})
    <3>1. activity'[agent'] = {}
      BY <2>1, <2>2 DEF Transports
    <3> QED BY <3>1 DEF Clean, Foreign
  <2>3. CASE UNCHANGED transport
    BY <2>1, <2>3 DEF transport, Clean
  <2> QED BY <1>5, <2>2, <2>3 DEF StartConnects
<1>6. CASE Lose \/ (\E k \in Agents : StartMakes(k)) \/ StopTakes \/ StopCloses \/ ParkCloses
  <2>1. agent' \notin up'
    <3>1. CASE Lose
      BY <3>1 DEF Lose
    <3>2. CASE \E k \in Agents : StartMakes(k)
      BY <1>2, <3>2 DEF StartMakes, New, InUse, transport
    <3>3. CASE StopTakes
      BY <1>2, <3>3 DEF StopTakes, transport
    <3>4. CASE StopCloses
      BY <1>2, <3>4 DEF StopCloses, Transports, SessionInv, Owners
    <3>5. CASE ParkCloses
      BY <1>2, <3>5 DEF ParkCloses, Transports, SessionInv, RebuildShape, Rebuilding
    <3> QED BY <1>6, <3>1, <3>2, <3>3, <3>4, <3>5
  <2> QED BY <2>1 DEF Clean
<1> QED BY <1>3, <1>4, <1>5, <1>6 DEF SessionStep

(* What a delegated turn leaves in the activity is of that turn.           *)
LEMMA CleanDelegate ==
  ASSUME Clean, Delegate
  PROVE  Clean'
<1>1. /\ UNCHANGED <<agent, up, activity, rebuild>> /\ phase = "run" /\ phase' = "idle"
      /\ spoilt' = spoilt \cup {turn}
  BY DEF Delegate, Idle, transport
<1> SUFFICES ASSUME agent \in up, ~Rebuilding
             PROVE  Foreign' = {}
  BY <1>1 DEF Clean, Rebuilding
<1>2. \A f \in activity[agent] : f[1] \in spoilt \cup {turn}
  BY DEF Clean, Foreign
<1> QED BY <1>1, <1>2 DEF Foreign

(* The end of a capture that committed nothing: what it streamed is being  *)
(* discarded, or it streamed nothing into a session that lives.            *)
LEMMA CleanDrop ==
  ASSUME SessionInv, Clean, Drop
  PROVE  Clean'
<1>1. /\ UNCHANGED <<agent, up, activity, spoilt>>
      /\ turn' = turn /\ phase = "run" /\ phase' = "idle"
  BY DEF Drop, DropNoise, Idle, ends, transport
<1> SUFFICES ASSUME agent \in up, ~Rebuilding'
             PROVE  Foreign' = {}
  BY <1>1 DEF Clean
<1>2. UNCHANGED rebuild /\ ~Rebuilding
  BY DEF Drop, DropNoise, Begin, Rebuilding
<1>3. Available
  BY <1>2, ConnectedIsStarted DEF Available
<1>4. ~begun \/ activity[agent] = {}
  BY <1>2, <1>3 DEF Drop, DropNoise, Begin, Rebuilding
<1>5. Foreign = {}
  BY <1>2 DEF Clean
<1> QED BY <1>1, <1>4, <1>5 DEF Foreign

LEMMA CleanCommits ==
  ASSUME SessionInv, Clean, Commit \/ Replay
  PROVE  Clean'
<1>1. UNCHANGED <<agent, up, turn, spoilt>> /\ phase' \in {"reply", "recover", "over"}
  BY DEF Commit, Replay, CommitAudio
<1> SUFFICES ASSUME agent \in up, ~Rebuilding'
             PROVE  Foreign' = {}
  BY <1>1 DEF Clean
<1>2. CASE activity' = [activity EXCEPT ![agent] = {}]
  <2>1. activity'[agent] = {}
    BY <1>2, ConnectedIsStarted DEF SessionInv, Shapes
  <2> QED BY <1>1, <2>1 DEF Foreign
<1>3. CASE Replay /\ activity' = activity /\ UNCHANGED rebuild
  <2>1. Foreign = {} /\ phase \notin Open
    BY <1>3 DEF Clean, Replay, Rebuilding, Open
  <2> QED BY <1>1, <1>3, <2>1 DEF Foreign
<1>4. Commit => activity' = [activity EXCEPT ![agent] = {}]
  BY ConnectedIsStarted DEF Commit, CommitAudio, Begin, Rebuilding
<1> QED BY <1>2, <1>3, <1>4 DEF Replay, CommitAudio

LEMMA CleanCapture ==
  ASSUME SessionInv, WholeInv, Clean, CaptureStep, "limit" \notin Endings
  PROVE  Clean'
<1>1. CASE Opens
  <2>1. /\ UNCHANGED <<agent, up, activity, rebuild, begun, spoilt>>
        /\ phase = "idle" /\ phase' = "capture"
    BY <1>1 DEF Opens, session, transport, ghosts
  <2> QED BY <2>1 DEF Clean, Foreign, Rebuilding, Open, WholeInv, Phased
<1>2. CASE Hear
  <2>1. /\ UNCHANGED <<agent, up, rebuild, phase, turn, begun, spoilt>>
        /\ phase = "capture" /\ frames' = frames + 1 /\ frames \in Nat
    BY <1>2 DEF Hear, ghosts, WholeInv, Phased
  <2>2. activity'[agent] \subseteq activity[agent] \cup (IF begun THEN Recorded(frames') ELSE {})
    <3>1. CASE activity' = activity
      BY <3>1
    <3>2. CASE begun /\ activity' = [activity EXCEPT ![agent] = @ \cup {<<turn, frames + 1>>}]
      <4>1. activity'[agent] \subseteq activity[agent] \cup {<<turn, frames + 1>>}
        BY <3>2
      <4>2. <<turn, frames + 1>> \in Recorded(frames')
        BY <2>1 DEF Recorded
      <4> QED BY <3>2, <4>1, <4>2
    <3> QED BY <1>2, <3>1, <3>2 DEF Hear
  <2> QED BY <2>1, <2>2, CleanFrame DEF Open, Rebuilding
<1>3. CASE Upload
  <2>1. /\ UNCHANGED <<agent, up, rebuild, phase, turn, frames, spoilt>>
        /\ phase \in {"capture", "finish"} /\ begun' = TRUE
    BY <1>3 DEF Upload, ghosts
  <2>2. activity'[agent] \subseteq activity[agent] \cup Recorded(frames')
    <3>1. CASE agent \in up /\ BindAndFlush
      <4>1. agent \in DOMAIN activity
        BY <3>1, ConnectedIsStarted DEF SessionInv, Shapes
      <4> QED BY <2>1, <3>1, <4>1 DEF BindAndFlush, Recorded
    <3>2. CASE activity' = activity
      BY <3>2
    <3> QED BY <1>3, <3>1, <3>2 DEF Upload
  <2> QED BY <2>1, <2>2, CleanFrame DEF Open, Rebuilding
<1>4. CASE \E how \in Endings : Ends(how)
  <2>1. PICK how \in Endings : Ends(how)
    BY <1>4
  <2>2. /\ UNCHANGED <<agent, up, activity, rebuild, turn, begun, spoilt>>
        /\ phase = "capture" /\ phase' = "finish"
    BY <2>1 DEF Ends, session, transport
  <2> QED BY <2>2 DEF Clean, Foreign, Rebuilding, Open
<1>5. CASE Finish
  <2>1. /\ UNCHANGED <<agent, up, rebuild, turn, begun, frames, spoilt>>
        /\ phase = "finish" /\ phase' = "run"
    BY <1>5 DEF Finish, ghosts
  <2>2. CASE begun /\ activity' = [activity EXCEPT ![agent] = @ \cup Recorded(frames)]
    <3>1. activity'[agent] \subseteq activity[agent] \cup Recorded(frames')
      BY <2>1, <2>2 DEF Recorded
    <3> QED BY <2>1, <2>2, <3>1, CleanFrame DEF Open, Rebuilding
  <2>3. CASE activity' = activity
    BY <2>1, <2>3 DEF Clean, Foreign, Rebuilding, Open
  <2> QED BY <1>5, <2>2, <2>3 DEF Finish, BindAndFlush
<1>6. CASE Run
  <2>1. /\ UNCHANGED <<agent, up, activity, turn, begun, spoilt>> /\ ~Rebuilding
        /\ phase = "run" /\ phase' = "commit"
    BY <1>6 DEF Run, session, transport, ghosts, Available
  <2> QED BY <2>1 DEF Clean, Foreign, Open
<1>7. CASE Drop
  BY <1>7, CleanDrop
<1>8. CASE Commit \/ Replay
  BY <1>8, CleanCommits
<1>10. CASE Delegate
  BY <1>10, CleanDelegate
<1>9. CASE Reply \/ FallBack
  <2>1. /\ UNCHANGED <<agent, up, activity, turn, spoilt>>
        /\ phase \in {"reply", "over"} /\ phase' = "idle"
    BY <1>9 DEF Reply, FallBack, Idle, ends, transport
  <2>2. Rebuilding => Rebuilding'
    BY <1>9 DEF Reply, FallBack, Recycle, Begin, Rebuilding
  <2> QED BY <2>1, <2>2 DEF Clean, Foreign, Open
<1> QED BY <1>1, <1>2, <1>3, <1>4, <1>5, <1>6, <1>7, <1>8, <1>9, <1>10 DEF CaptureStep

LEMMA CleanStep ==
  ASSUME "limit" \notin Endings
  PROVE  SessionInv /\ WholeInv /\ Clean /\ [Next]_vars => Clean'
<1> SUFFICES ASSUME SessionInv, WholeInv, Clean, [Next]_vars
             PROVE  Clean'
  OBVIOUS
<1>1. CASE SessionStep /\ Alone
  BY <1>1, CleanSession
<1>2. CASE RebuildEnds
  BY <1>2, CleanRebuildEnds
<1>3. CASE PrepareStep \/ AnnounceStep
  BY <1>3, AsideIsQuiet, CleanFrame
<1>4. CASE CaptureStep
  BY <1>4, CleanCapture
<1>5. CASE UNCHANGED vars
  BY <1>5 DEF vars, session, transport, capture, ghosts, Clean, Foreign, Rebuilding
<1> QED BY <1>1, <1>2, <1>3, <1>4, <1>5 DEF Next

LEMMA OwnCommitStep ==
  SessionInv /\ Clean /\ OnlyOwnAudio /\ [Next]_vars => OnlyOwnAudio'
<1> SUFFICES ASSUME SessionInv, Clean, OnlyOwnAudio, [Next]_vars
             PROVE  OnlyOwnAudio'
  OBVIOUS
<1>1. CASE committed' = committed
  BY <1>1, SpoiltGrows DEF OnlyOwnAudio
<1>2. CASE committed' = NoCommit
  BY <1>2 DEF OnlyOwnAudio, NoCommit
<1>3. CASE (Commit \/ Replay) /\ committed' # committed
  <2>1. /\ agent \in up /\ (phase = "commit" \/ ~Rebuilding)
        /\ committed'.turn = turn
        /\ committed'.audio \subseteq activity[agent] \cup Recorded(frames)
    BY <1>3 DEF Commit, Replay, CommitAudio, Valid, Available
  <2>2. \A f \in activity[agent] : f[1] = turn \/ f[1] \in spoilt
    BY <2>1 DEF Clean, Foreign
  <2>3. \A f \in Recorded(frames) : f[1] = turn
    BY DEF Recorded
  <2> QED BY <2>1, <2>2, <2>3, SpoiltGrows DEF OnlyOwnAudio
<1> QED BY <1>1, <1>2, <1>3, CommitShape

(* Where no capture runs into its limit, the model never hears what an     *)
(* earlier turn streamed and did not commit (discard_open_activity and the *)
(* rebuilds), unless that turn met a replacement that failed or was        *)
(* delegated for a harness follow-up (run_realtime_turn).                  *)
THEOREM OnlyOwnAudioAlways ==
  ASSUME "limit" \notin Endings
  PROVE  Spec => []OnlyOwnAudio
<1>1. Init => Clean /\ OnlyOwnAudio
  BY DEF Init, SessionInit, Clean, OnlyOwnAudio, NoCommit
<1>2. /\ SessionInv /\ TurnInv /\ WholeInv /\ Clean /\ OnlyOwnAudio /\ [Next]_vars
      => (Clean /\ OnlyOwnAudio)'
  BY CleanStep, OwnCommitStep
<1> QED BY <1>1, <1>2, WholeInvKept, PTL DEF Spec

=============================================================================
