--------------------------- MODULE ScheduleRunner ---------------------------
(***************************************************************************)
(* Scheduled tasks on the device (system/schedule): the store of rows, the *)
(* ticker that fires them, "Run now", schedule.sync, which replaces the    *)
(* whole list, and timezone.set, which replaces it by what it has just     *)
(* read.  Each runs in its own goroutine; only single Store operations are *)
(* atomic (one mutex, one file), and each can fail without an effect.      *)
(*                                                                         *)
(* Time is counted in ticks of the runner.  A wall-clock cadence is the    *)
(* set of its true instants in a zone, of which a zone is an offset, and   *)
(* JitterOffset a constant of the cadence.                                 *)
(***************************************************************************)
EXTENDS Integers, FiniteSets

CONSTANTS
  Ids,        \* schedule ids
  Cadences,   \* the cadences of the rows the backend sends
  Lists,      \* the lists of a schedule.sync: Ids -> fresh row or None
  Zones,      \* offsets of the device's time zones
  Window,     \* runnerCatchUpWindow
  MaxTime,    \* bound on the clock
  Budget,     \* bounds on syncs, zone changes, runs, crashes, write faults,
              \* failed sends, turns of the user and connector changes
  Never,      \* the zero time
  None        \* an absent row

Kinds == {"sync", "zone", "run", "crash", "fault", "failure", "user", "connector"}

VARIABLES
  rows,       \* Store: the schedules
  zone,       \* Store: the timezone
  now,        \* the clock
  turns,      \* whose turns keep the gateway busy
  installed,  \* whether the connectors that tasks require are installed
  runner,     \* Runner.tick and fire
  manual,     \* RunNow
  syncs,      \* SyncSchedules, called for "mqtt" and for "zone"
  fired,      \* messages accepted per task and occurrence of the ticker
  acked,      \* per task: the occurrence that fails now, how often its failure was
              \* reported in a row, and how often the task was deleted
  used        \* what has been used of the budget

storeV == <<rows, zone>>
procV  == <<runner, manual, syncs>>
ghostV == <<fired, acked>>
worldV == <<now, turns, installed>>
vars   == <<storeV, procV, ghostV, worldV, used>>

Cadence == [kind : {"clock", "interval", "once"}, times : SUBSET (0 .. MaxTime), every : Nat,
            jitter : Int, requires : BOOLEAN]
Time == Int \cup {Never}
Row == [cad : Cadences, on : BOOLEAN, next : Time,
        status : {"none", "success", "failure", "skipped"}, failed : Time]

ASSUME CadencesAssumption == Cadences \subseteq Cadence /\ Zones \subseteq Int
ASSUME NoneAssumption == None \notin Row
Fresh(row) == row.next = Never /\ row.status = "none" /\ row.failed = Never

ASSUME ListsAssumption ==
  \A l \in Lists : /\ l \in [Ids -> Row \cup {None}]
                   /\ \A i \in Ids : l[i] # None => Fresh(l[i])
ASSUME BudgetAssumption ==
  Window \in Nat /\ MaxTime \in Nat /\ Budget \in [Kinds -> Nat]

(* minInterval floors an interval; maxJitter is a sixth of the window. *)
ASSUME PaceAssumption ==
  \A c \in Cadences : c.every > 0 /\ c.jitter >= 0 - Window

-----------------------------------------------------------------------------
(* The arithmetic of spec.go.                                              *)

(* NextRunForDevice: the first instant after a time, zero when there is    *)
(* none, and the jitter of a wall-clock cadence.  "once" is an absolute    *)
(* instant; a "manual" cadence has none.                                   *)
NextRun(c, after, z) ==
  LET clock == c.kind = "clock"
      later == {t \in c.times : t + (IF clock THEN z ELSE 0) > after}
      first == CHOOSE t \in later : \A u \in later : t <= u
  IN
  CASE c.kind = "interval" -> after + c.every
    [] c.kind # "interval" /\ later = {} -> Never
    [] OTHER -> IF clock THEN first + z + c.jitter ELSE first

(* Mutant: the stored time is taken for the unjittered instant. *)
DejitterAnchorNot(c, at) == at

(* Mutant: the jitter is added once more. *)
DejitterAnchorTwice(c, at) == IF c.kind = "clock" THEN at + c.jitter ELSE at

DejitterAnchor(c, at) == IF c.kind = "clock" THEN at - c.jitter ELSE at

Instants == (0 - MaxTime) .. MaxTime   \* the occurrences that can come due

NoAck == [at |-> Never, n |-> 0, gone |-> 0]
Idle == [step |-> "idle", id |-> None, result |-> "none"]
NoRows == [i \in Ids |-> None]
IdleRunner == [step |-> "idle", id |-> None, result |-> "none",
               snap |-> NoRows, at |-> 0, tz |-> 0]
IdleSync == [step |-> "idle", list |-> NoRows, zone |-> 0, at |-> 0, todo |-> {}]

Init ==
  /\ rows = NoRows /\ zone = 0 /\ now = 0 /\ turns = {} /\ installed = TRUE
  /\ runner = IdleRunner /\ manual = Idle
  /\ syncs = [p \in {"mqtt", "zone"} |-> IdleSync]
  /\ fired = [i \in Ids |-> [at \in Instants |-> 0]]
  /\ acked = [i \in Ids |-> NoAck]
  /\ used = [x \in Kinds |-> 0]

Spend(x) == used[x] < Budget[x] /\ used' = [used EXCEPT ![x] = @ + 1]

(* Store.mutate: one row, if it still exists, in one write that can fail.  *)
Mutate(i, row) ==
  \/ /\ rows' = IF rows[i] = None THEN rows ELSE [rows EXCEPT ![i] = row]
     /\ UNCHANGED used
  \/ rows[i] # None /\ Spend("fault") /\ UNCHANGED rows

SetNextRun(i, at) == Mutate(i, [rows[i] EXCEPT !.next = at])

-----------------------------------------------------------------------------
(* The ticker: tick loads the list and, under another lock, the timezone;  *)
(* then it serves the due rows of that snapshot one at a time.             *)

Due(row, at) == row # None /\ row.on /\ row.next # Never /\ row.next <= at

TickLoad ==
  /\ runner.step = "idle"
  /\ \E i \in Ids : Due(rows[i], now)
  /\ runner' = [IdleRunner EXCEPT !.step = "zone", !.at = now,
                  !.snap = [i \in Ids |-> IF Due(rows[i], now) THEN rows[i] ELSE None]]
  /\ UNCHANGED <<storeV, manual, syncs, ghostV, worldV, used>>

TickZone ==
  /\ runner.step = "zone"
  /\ runner' = [runner EXCEPT !.step = "scan", !.tz = zone]
  /\ UNCHANGED <<storeV, manual, syncs, ghostV, worldV, used>>

(* Mutant: the row is read again after the tick took its snapshot. *)
SnapAgain == rows[runner.id]

Snap == runner.snap[runner.id]
Served(r, i) == LET left == [r.snap EXCEPT ![i] = None] IN
                IF left = NoRows THEN IdleRunner
                ELSE [r EXCEPT !.step = "scan", !.id = None, !.result = "none", !.snap = left]

Missing(row) == row.cad.requires /\ ~installed

(* Mutant: a stale row is passed over where it is. *)
ReanchorNothing(i) ==
  /\ runner.step = "scan" /\ runner.snap[i] # None
  /\ runner.at - runner.snap[i].next > Window
  /\ runner' = Served(runner, i)
  /\ UNCHANGED <<storeV, manual, syncs, ghostV, worldV, used>>

(* Too stale: reanchor.                                                    *)
Reanchor(i) ==
  /\ runner.step = "scan" /\ runner.snap[i] # None
  /\ runner.at - runner.snap[i].next > Window
  /\ SetNextRun(i, NextRun(runner.snap[i].cad, runner.at, runner.tz))
  /\ runner' = Served(runner, i)
  /\ UNCHANGED <<zone, manual, syncs, ghostV, worldV>>

(* The connectors are checked before the gateway, which defers when busy.  *)
Consider(i) ==
  /\ runner.step = "scan" /\ runner.snap[i] # None
  /\ runner.at - runner.snap[i].next <= Window
  /\ runner' = CASE Missing(runner.snap[i]) -> [runner EXCEPT !.step = "record", !.id = i, !.result = "skipped"]
                 [] ~Missing(runner.snap[i]) /\ turns # {} -> Served(runner, i)
                 [] OTHER -> [runner EXCEPT !.step = "send", !.id = i]
  /\ UNCHANGED <<storeV, manual, syncs, ghostV, worldV, used>>

(* send: the gateway accepts the message and starts a turn, or fails.      *)
Send ==
  /\ runner.step = "send"
  /\ \/ /\ runner' = [runner EXCEPT !.step = "record", !.result = "success"]
        /\ turns' = turns \cup {"tick"}
        /\ fired' = [fired EXCEPT ![runner.id][Snap.next] = @ + 1]
        /\ UNCHANGED used
     \/ /\ runner' = [runner EXCEPT !.step = "record", !.result = "failure"]
        /\ Spend("failure") /\ UNCHANGED <<turns, fired>>
  /\ UNCHANGED <<storeV, manual, syncs, acked, now, installed>>

(* SetLastFailedRun keeps the occurrence; RecordRunResult consumes it.     *)
Record ==
  /\ runner.step = "record"
  /\ LET i == runner.id
         next == NextRun(Snap.cad, DejitterAnchor(Snap.cad, Snap.next), runner.tz)
     IN IF runner.result = "failure"
        THEN Mutate(i, [rows[i] EXCEPT !.status = "failure", !.failed = Snap.next])
        ELSE Mutate(i, [rows[i] EXCEPT !.status = runner.result, !.next = next, !.failed = Never])
  /\ acked' = IF runner.result = "failure" /\ acked[runner.id].at = Snap.next
              THEN acked
              ELSE [acked EXCEPT ![runner.id].at = Never, ![runner.id].n = 0]
  /\ runner' = [runner EXCEPT !.step = "report"]
  /\ UNCHANGED <<zone, manual, syncs, fired, worldV>>

AlreadyAcked(row) == row.status = "failure" /\ row.failed = row.next

(* A failure is acked once per occurrence, as far as the snapshot knows.   *)
Report ==
  /\ runner.step = "report"
  /\ acked' = IF runner.result = "failure" /\ ~AlreadyAcked(Snap)
              THEN [acked EXCEPT ![runner.id].at = Snap.next, ![runner.id].n = @ + 1]
              ELSE acked
  /\ runner' = Served(runner, runner.id)
  /\ UNCHANGED <<storeV, manual, syncs, fired, worldV, used>>

-----------------------------------------------------------------------------
(* RunNow, for the button in the app or on the device.                     *)

RunNow(i) ==
  /\ manual.step = "idle" /\ rows[i] # None
  /\ Spend("run")
  /\ \/ /\ Missing(rows[i])
        /\ manual' = [step |-> "record", id |-> i, result |-> "skipped"]
     \/ /\ ~Missing(rows[i]) /\ turns = {}
        /\ manual' = [step |-> "send", id |-> i, result |-> "none"]
  /\ UNCHANGED <<storeV, runner, syncs, ghostV, worldV>>

RunSend ==
  /\ manual.step = "send"
  /\ \/ /\ manual' = [manual EXCEPT !.step = "record", !.result = "success"]
        /\ turns' = turns \cup {"manual"} /\ UNCHANGED used
     \/ /\ manual' = [manual EXCEPT !.step = "record", !.result = "failure"]
        /\ Spend("failure") /\ UNCHANGED turns
  /\ UNCHANGED <<storeV, runner, syncs, ghostV, now, installed>>

(* SetLastRun, and the report that always follows. *)
RunRecord ==
  /\ manual.step = "record"
  /\ Mutate(manual.id, [rows[manual.id] EXCEPT !.status = manual.result])
  /\ manual' = Idle
  /\ UNCHANGED <<zone, runner, syncs, ghostV, worldV>>

-----------------------------------------------------------------------------
(* schedule.sync and timezone.set.                                         *)

MqttSync(l, z) ==
  /\ syncs["mqtt"].step = "idle" /\ Spend("sync")
  /\ syncs' = [syncs EXCEPT !["mqtt"] =
                 [IdleSync EXCEPT !.step = "replace", !.list = l, !.zone = z, !.at = now]]
  /\ UNCHANGED <<storeV, runner, manual, ghostV, worldV>>

(* SetTimezone, when it changes the stored zone; then the list is read.    *)
ZoneSet(z) ==
  /\ syncs["zone"].step = "idle" /\ zone # z /\ Spend("zone")
  /\ zone' = z
  /\ syncs' = [syncs EXCEPT !["zone"] = [IdleSync EXCEPT !.step = "load", !.zone = z]]
  /\ UNCHANGED <<rows, runner, manual, ghostV, worldV>>

ZoneLoad ==
  /\ syncs["zone"].step = "load"
  /\ syncs' = [syncs EXCEPT !["zone"] =
                 IF rows = NoRows THEN IdleSync
                 ELSE [@ EXCEPT !.step = "replace", !.list = rows, !.at = now]]
  /\ UNCHANGED <<storeV, runner, manual, ghostV, worldV, used>>

(* Mutant: a replaced list starts with a clean history. *)
CarriedNothing(next, prior) == next

(* carryLocalBookkeeping fills in what the new list leaves zero.           *)
Carried(next, prior) ==
  [i \in Ids |->
    IF next[i] = None \/ prior[i] = None THEN next[i]
    ELSE [next[i] EXCEPT
            !.status = IF @ = "none" THEN prior[i].status ELSE @,
            !.failed = IF @ = Never THEN prior[i].failed ELSE @]]

FirstRun(s, i) == NextRun(s.list[i].cad, s.at, s.zone)

(* SyncSchedules: one write for list and zone, then one per computed row.  *)
Replace(p) ==
  LET s    == syncs[p]
      todo == {i \in Ids : s.list[i] # None /\ s.list[i].on /\ FirstRun(s, i) # Never}
  IN
  /\ s.step = "replace"
  /\ \/ /\ rows' = Carried(s.list, rows) /\ zone' = s.zone
        /\ syncs' = [syncs EXCEPT ![p] = IF todo = {} THEN IdleSync
                                         ELSE [@ EXCEPT !.step = "seed", !.todo = todo]]
        /\ acked' = [i \in Ids |-> IF rows[i] # None /\ s.list[i] = None
                                 THEN [acked[i] EXCEPT !.gone = @ + 1] ELSE acked[i]]
        /\ UNCHANGED used
     \/ Spend("fault") /\ syncs' = [syncs EXCEPT ![p] = IdleSync] /\ UNCHANGED <<storeV, acked>>
  /\ UNCHANGED <<runner, manual, fired, worldV>>

Seed(p, i) ==
  /\ syncs[p].step = "seed" /\ i \in syncs[p].todo
  /\ SetNextRun(i, FirstRun(syncs[p], i))
  /\ syncs' = IF syncs[p].todo = {i} THEN [syncs EXCEPT ![p] = IdleSync]
              ELSE [syncs EXCEPT ![p].todo = @ \ {i}]
  /\ UNCHANGED <<zone, runner, manual, ghostV, worldV>>

-----------------------------------------------------------------------------

Advance ==
  /\ now < MaxTime /\ now' = now + 1
  /\ UNCHANGED <<storeV, procV, ghostV, turns, installed, used>>

UserTurn ==
  /\ "user" \notin turns /\ Spend("user") /\ turns' = turns \cup {"user"}
  /\ UNCHANGED <<storeV, procV, ghostV, now, installed>>

TurnEnds ==
  /\ turns # {}
  /\ \E x \in turns : turns' = turns \ {x}
  /\ UNCHANGED <<storeV, procV, ghostV, now, installed, used>>

ConnectorChanges ==
  /\ Spend("connector") /\ installed' = ~installed
  /\ UNCHANGED <<storeV, procV, ghostV, now, turns>>

Crash ==
  /\ Spend("crash")
  /\ runner' = IdleRunner /\ manual' = Idle
  /\ syncs' = [p \in DOMAIN syncs |-> IdleSync] /\ turns' = {}
  /\ UNCHANGED <<storeV, ghostV, now, installed>>

Ticker == TickLoad \/ TickZone \/ Send \/ Record \/ Report
          \/ \E i \in Ids : Reanchor(i) \/ Consider(i)
Button == RunSend \/ RunRecord \/ \E i \in Ids : RunNow(i)
Downlink ==
  \/ ZoneLoad \/ \E l \in Lists, z \in Zones : MqttSync(l, z)
  \/ \E z \in Zones : ZoneSet(z)
  \/ \E p \in DOMAIN syncs : Replace(p)
  \/ \E p \in DOMAIN syncs, i \in Ids : Seed(p, i)
World == Advance \/ UserTurn \/ TurnEnds \/ ConnectorChanges \/ Crash

Next == Ticker \/ Button \/ Downlink \/ World

Spec == Init /\ [][Next]_vars

(* The loops of the runner and of a sync run on, and every turn ends.      *)
Fairness ==
  /\ WF_vars(Ticker) /\ WF_vars(TurnEnds)
  /\ WF_vars(\E p \in DOMAIN syncs : Replace(p))
  /\ WF_vars(\E p \in DOMAIN syncs, i \in Ids : Seed(p, i))

FairSpec == Spec /\ Fairness

-----------------------------------------------------------------------------

(* Every variable has its type.                                            *)
TypeOK ==
  /\ rows \in [Ids -> Row \cup {None}] /\ zone \in Zones \cup {0} /\ now \in 0 .. MaxTime
  /\ turns \subseteq {"tick", "manual", "user"} /\ installed \in BOOLEAN
  /\ runner.step \in {"idle", "zone", "scan", "send", "record", "report"}
  /\ runner.snap \in [Ids -> Row \cup {None}]
  /\ (runner.step \in {"send", "record", "report"}) => Due(Snap, runner.at)
  /\ manual \in [step : {"idle", "send", "record"}, id : Ids \cup {None},
                 result : {"none", "success", "failure", "skipped"}]
  /\ \A p \in DOMAIN syncs :
       /\ syncs[p].step \in {"idle", "load", "replace", "seed"}
       /\ syncs[p].list \in [Ids -> Row \cup {None}]
       /\ syncs[p].todo \subseteq {i \in Ids : syncs[p].list[i] # None}
  /\ fired \in [Ids -> [Instants -> Nat]] /\ acked \in [Ids -> [at : Time, n : Nat, gone : Nat]]
  /\ used \in [Kinds -> Nat] /\ \A x \in Kinds : used[x] <= Budget[x]

(***************************************************************************)
(* The ticker sends the message of an occurrence once per list it comes    *)
(* from.  A second message has to be paid for by a restart, a failed write *)
(* or a later sync, and two more by a change of zone, which first writes   *)
(* the list back as it read it and then computes it anew.  The clock, the  *)
(* jitter, retries, deferrals and "Run now" never repeat an occurrence.    *)
(***************************************************************************)
FiredOnce ==
  \A i \in Ids, at \in Instants :
    fired[i][at] <= used["sync"] + used["crash"] + used["fault"] + 2 * used["zone"]

(***************************************************************************)
(* While the list stays, the next run of a row only moves forward: jitter  *)
(* never brings back the occurrence that was just consumed, and neither    *)
(* do failed sends, failed writes or "Run now" (the list arrives once).    *)
(***************************************************************************)
NextOnlyForward ==
  [][\A i \in Ids :
       (/\ rows[i] # None /\ rows[i].next # Never
        /\ rows'[i] # None /\ rows'[i].next # Never) => rows'[i].next >= rows[i].next]_rows

(***************************************************************************)
(* A failure is acked only the first time for a given occurrence           *)
(* (Runner.fire), through any number of retries, restarts and syncs.  One  *)
(* more ack has to be paid for by what loses the memory of the first: a    *)
(* failed write, a "Run now" between two retries, a change of zone, which  *)
(* writes back the list as it was, or a task deleted and created again.    *)
(***************************************************************************)
FailureAckedOnce ==
  \A i \in Ids :
    acked[i].n <= 1 + acked[i].gone + used["fault"] + used["run"] + used["zone"]

(***************************************************************************)
(* A row that is due is fired, skipped, reanchored, disabled or removed in *)
(* the end, whatever failed, was busy, was restarted or was replaced.      *)
(***************************************************************************)
DueIsResolved == \A i \in Ids : Due(rows[i], now) ~> ~Due(rows[i], now)

=============================================================================
