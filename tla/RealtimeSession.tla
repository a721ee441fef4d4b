-------------------------- MODULE RealtimeSession --------------------------
(***************************************************************************)
(* The session of the realtime voice agent: RealtimeOrchestrator of        *)
(* hal/realtime/orchestrator.py with the provider agents it creates        *)
(* (hal/realtime/voice_agent/base.py, gemini_live.py).  One agent object   *)
(* is current.  It may lose its transport and reconnect by itself; every   *)
(* other repair is a rebuild: a thread takes the rebuild reservation,      *)
(* connects a new agent, publishes it if the orchestrator still runs, and  *)
(* closes the old one in the background.  A watchdog parks a session       *)
(* nobody uses.  The turns that use the session are in RealtimeTurn.       *)
(*                                                                         *)
(* Two overlaps are left out: a stop that meets a start still connecting,  *)
(* and a start that meets a rebuild begun before the stop.  start takes no *)
(* lock, so neither is kept apart by this code.                            *)
(***************************************************************************)
EXTENDS Naturals, FiniteSets

CONSTANTS
  Agents,      \* agent objects; one that nobody refers to is used again
  MaxTurns,    \* bound: captures
  MaxFrames,   \* bound: audio frames of a capture
  Budget       \* bound: outages, lost transports, stops, announcements

ASSUME SessionBounds ==
  /\ Agents \subseteq Nat \ {0} /\ IsFiniteSet(Agents)
  /\ MaxTurns \in Nat /\ MaxFrames \in Nat
  /\ Budget \in Nat

VARIABLES
  started,       \* _started
  agent,         \* _agent, 0 when it is None
  starting,      \* the agent a start is connecting, or 0
  stopping,      \* the agent a stop still has to disconnect, or 0
  retrying,      \* the initial-connect retry loop is alive
  retryStop,     \* _connect_retry_stop
  loops,         \* the agents whose send and receive loops run
  up,            \* the agents that are connected
  gen,           \* per agent: which of its transports this is
  activity,      \* per agent: the audio in its open activity
  stale,         \* the agents with requires_fresh_session
  rebuild,       \* who holds the rebuild reservation, why, and the agent replaced
  parked,        \* _idle_parked
  resumeFailed,  \* _park_resume_failed
  parking,       \* the watchdog found the session idle and goes on to park it
  inFlight,      \* _turn_in_flight
  announce,      \* _announce_stop: "none", or the event of the announcement
  bound,         \* the AudioTurnBinding of the capture
  online,        \* a connect to the provider succeeds
  left           \* what is left of the budget

ends      == <<started, starting, stopping, retrying, retryStop>>
transport == <<loops, up, gen, activity, stale>>
park      == <<parked, resumeFailed, parking>>
marks     == <<inFlight, announce, bound>>
world     == <<online, left>>
session   == <<ends, agent, transport, rebuild, park, marks, world>>

None == 0
Frames == (1 .. MaxTurns) \X (1 .. MaxFrames)
NoBinding == [agent |-> None, gen |-> 0]

(* Who may hold the reservation: the announcer, the preparation thread of  *)
(* a capture (its number), a background thread, or the commit of a turn.   *)
Announcer  == 0
Background == MaxTurns + 1
Committer  == MaxTurns + 2

Reasons == {"none", "park", "retry", "resume", "fresh", "idle", "noise", "recycle",
            "recover", "abandoned"}
NoRebuild == [why |-> "none", by |-> Background, old |-> None]
Rebuilding == rebuild.why # "none"

SessionTypeOK ==
  /\ \A b \in {started, retrying, retryStop, parked, resumeFailed, parking, inFlight, online} :
       b \in BOOLEAN
  /\ {agent, starting, stopping} \subseteq Agents \cup {None}
  /\ loops \subseteq Agents /\ up \subseteq loops /\ stale \subseteq Agents
  /\ gen \in [Agents -> Nat]
  /\ activity \in [Agents -> SUBSET Frames]
  /\ rebuild \in [why : Reasons, by : 0 .. Committer, old : Agents \cup {None}]
  /\ announce \in {"none", "armed", "set"}
  /\ bound \in [agent : Agents \cup {None}, gen : Nat]
  /\ left \in Nat

SessionInit ==
  /\ started = FALSE /\ agent = None /\ starting = None /\ stopping = None
  /\ retrying = FALSE /\ retryStop = FALSE
  /\ loops = {} /\ up = {} /\ stale = {}
  /\ gen = [k \in Agents |-> 0]
  /\ activity = [k \in Agents |-> {}]
  /\ rebuild = NoRebuild
  /\ parked = FALSE /\ resumeFailed = FALSE /\ parking = FALSE
  /\ inFlight = FALSE /\ announce = "none" /\ bound = NoBinding
  /\ online = TRUE /\ left = Budget

(* The property `available`.                                               *)
Available ==
  /\ started /\ agent # None /\ ~Rebuilding
  /\ agent \in up \/ (parked /\ ~resumeFailed)

(* Mutant: a binding is compared with the agent only, not with its         *)
(* transport.                                                              *)
ValidAgent(b) == started /\ agent = b.agent /\ agent \in up

(* _validate_audio_turn.                                                   *)
Valid(b) == started /\ agent = b.agent /\ agent \in up /\ gen[agent] = b.gen

Spend == left > 0 /\ left' = left - 1

-----------------------------------------------------------------------------
(* Transports.                                                             *)

InUse == {agent, starting, stopping, rebuild.old, bound.agent} \cup loops

(* _make_agent: an object nobody refers to.                                *)
New(k) == k \in Agents \ InUse /\ \A j \in Agents \ InUse : k <= j

(* Mutant: an agent that is disconnected still says it is connected.       *)
TransportsUp(opened, closed) ==
  /\ loops' = (loops \ closed) \cup opened
  /\ up' = up \cup opened
  /\ gen' = [k \in Agents |-> IF k \in opened THEN gen[k] + 1
                              ELSE IF k \in closed THEN 0 ELSE gen[k]]
  /\ activity' = [k \in Agents |-> IF k \in opened \cup closed THEN {} ELSE activity[k]]
  /\ stale' = stale \ (opened \cup closed)

(* Agents that connect, and agents that are disconnected for good: their   *)
(* loops end and do not reconnect.                                         *)
Transports(opened, closed) ==
  /\ loops' = (loops \ closed) \cup opened
  /\ up' = (up \ closed) \cup opened
  /\ gen' = [k \in Agents |-> IF k \in opened THEN gen[k] + 1
                              ELSE IF k \in closed THEN 0 ELSE gen[k]]
  /\ activity' = [k \in Agents |-> IF k \in opened \cup closed THEN {} ELSE activity[k]]
  /\ stale' = stale \ (opened \cup closed)

(* The transport of the current agent closes.                              *)
Lose ==
  /\ agent \in up
  /\ Spend
  /\ up' = up \ {agent}
  /\ UNCHANGED <<ends, agent, loops, gen, activity, stale, rebuild, park, marks, online>>

(* _ensure_connected of the loops: a new transport without an activity.    *)
Heal(k) ==
  /\ k \in loops \ up
  /\ online
  /\ Transports({k}, {})
  /\ UNCHANGED <<ends, agent, rebuild, park, marks, world>>

Outage ==
  /\ online /\ Spend
  /\ online' = FALSE
  /\ UNCHANGED <<ends, agent, transport, rebuild, park, marks>>

Restored ==
  /\ ~online
  /\ online' = TRUE
  /\ UNCHANGED <<ends, agent, transport, rebuild, park, marks, left>>

-----------------------------------------------------------------------------
(* Rebuilds.                                                               *)

(* _begin_rebuild, and the agent _rebuild_locked is about to replace.      *)
Begin(why, by) ==
  /\ ~Rebuilding
  /\ rebuild' = [why |-> why, by |-> by, old |-> agent]

(* The rebuilds with discard_old_on_failure.                               *)
Discards(why) == why \in {"fresh", "noise", "abandoned"}

(* Mutant: the replaced agent is not closed.                               *)
ReplacedNone(current) == {}

(* _disconnect_in_background: nobody else refers to the replaced agent.    *)
Replaced(current) == {rebuild.old} \ {None, current}

Cancelled == ~started \/ (rebuild.why = "retry" /\ retryStop)

(* The new agent connected and becomes the current one.                    *)
Publish(k) ==
  /\ rebuild.why \notin {"none", "park"}
  /\ online /\ ~Cancelled
  /\ New(k)
  /\ Transports({k}, Replaced(k))
  /\ agent' = k
  /\ parked' = FALSE /\ resumeFailed' = FALSE
  /\ rebuild' = NoRebuild
  /\ retrying' = (retrying /\ rebuild.why # "retry")
  /\ UNCHANGED <<started, starting, stopping, retryStop, parking, marks, world>>

(* The connect failed, or the orchestrator stopped meanwhile.  A resume    *)
(* that fails stays parked and is reported unavailable.                    *)
RebuildFails ==
  /\ rebuild.why \notin {"none", "park"}
  /\ ~online \/ Cancelled
  /\ agent' = IF Discards(rebuild.why) THEN None ELSE agent
  /\ Transports({}, Replaced(agent'))
  /\ resumeFailed' = (resumeFailed \/ rebuild.why = "resume")
  /\ rebuild' = NoRebuild
  /\ UNCHANGED <<ends, parked, parking, marks, world>>

-----------------------------------------------------------------------------
(* start, stop and the initial retry loop.                                 *)

(* start, up to the agent it has made.                                     *)
StartMakes(k) ==
  /\ ~started /\ starting = None /\ stopping = None /\ ~Rebuilding
  /\ New(k)
  /\ agent' = k /\ starting' = k
  /\ retryStop' = FALSE
  /\ UNCHANGED <<started, stopping, retrying, transport, rebuild, park, marks, world>>

(* Mutant: a first connect that fails starts no retry loop.                *)
StartConnectsOnce ==
  /\ starting # None
  /\ IF online THEN Transports({starting}, {}) ELSE UNCHANGED transport
  /\ started' = TRUE
  /\ starting' = None
  /\ UNCHANGED <<stopping, retrying, retryStop, agent, rebuild, park, marks, world>>

(* The first connect of start, which fails while the provider is away.     *)
StartConnects ==
  /\ starting # None
  /\ IF online THEN Transports({starting}, {}) ELSE UNCHANGED transport
  /\ started' = TRUE
  /\ starting' = None
  /\ UNCHANGED <<stopping, retryStop, agent, rebuild, park, marks, world>>
  /\ retrying' = (retrying \/ ~Available')

(* stop, up to the summaries it writes before it disconnects.              *)
StopTakes ==
  /\ started /\ stopping = None
  /\ Spend
  /\ started' = FALSE
  /\ stopping' = agent /\ agent' = None
  /\ retryStop' = TRUE
  /\ parked' = FALSE
  /\ UNCHANGED <<starting, retrying, transport, rebuild, resumeFailed, parking,
                 marks, online>>

StopCloses ==
  /\ stopping # None
  /\ Transports({}, {stopping})
  /\ stopping' = None
  /\ UNCHANGED <<started, starting, retrying, retryStop, agent, rebuild, park,
                 marks, world>>

(* One attempt of _connect_retry_loop.                                     *)
RetryTries ==
  /\ retrying /\ ~retryStop
  /\ Begin("retry", Background)
  /\ UNCHANGED <<ends, agent, transport, park, marks, world>>

RetryEnds ==
  /\ retrying /\ retryStop /\ rebuild.why # "retry"
  /\ retrying' = FALSE
  /\ UNCHANGED <<started, starting, stopping, retryStop, agent, transport, rebuild,
                 park, marks, world>>

-----------------------------------------------------------------------------
(* Parking.                                                                *)

(* _maybe_park_idle_session: the session was idle for long enough, and no  *)
(* turn was marked within the last TURN_IN_FLIGHT_MAX_S; an older mark, of *)
(* a capture that lasts or of one that is gone, does not count.            *)
ParkDecides ==
  /\ started /\ ~parked /\ ~parking /\ agent \in up /\ ~Rebuilding
  /\ \E recent \in BOOLEAN : ~(inFlight /\ recent)
  /\ parking' = TRUE
  /\ UNCHANGED <<ends, agent, transport, rebuild, parked, resumeFailed, marks, world>>

(* _park_idle_session takes the reservation, or gives up.                  *)
ParkBegins ==
  /\ parking
  /\ parking' = FALSE
  /\ IF Rebuilding \/ agent = None
     THEN UNCHANGED rebuild
     ELSE Begin("park", Background)
  /\ UNCHANGED <<ends, agent, transport, parked, resumeFailed, marks, world>>

ParkCloses ==
  /\ rebuild.why = "park"
  /\ Transports({}, {rebuild.old})
  /\ parked' = TRUE /\ resumeFailed' = FALSE
  /\ rebuild' = NoRebuild
  /\ UNCHANGED <<ends, agent, parking, marks, world>>

-----------------------------------------------------------------------------
(* The steps of the orchestrator that no turn waits for.                   *)
SessionStep ==
  \/ \E k \in Agents : Heal(k) \/ StartMakes(k)
  \/ Lose \/ Outage \/ Restored
  \/ StartConnects \/ StopTakes \/ StopCloses
  \/ RetryTries \/ RetryEnds
  \/ ParkDecides \/ ParkBegins \/ ParkCloses

-----------------------------------------------------------------------------
(* No session is left open behind the orchestrator's back: an agent whose  *)
(* loops run, and that would reconnect for ever and be billed, is the      *)
(* current one, or some thread is about to disconnect it                   *)
(* (_rebuild_locked, stop); and a stopped orchestrator has no agent.       *)
SessionsOwned ==
  /\ loops \subseteq {agent, stopping, rebuild.old}
  /\ agent # None => started \/ starting # None

(* A session that is down has somebody who brings it back: the loops of    *)
(* the agent, or the retry loop of a start that could not connect.  It is  *)
(* not so only while it is parked for the next turn to resume, and after   *)
(* the replacement of a contaminated session could not connect, which      *)
(* leaves no agent.                                                        *)
DownIsRepaired ==
  (started /\ agent # None /\ agent \notin up /\ ~parked)
    => agent \in loops \/ (retrying /\ ~retryStop)
=============================================================================
