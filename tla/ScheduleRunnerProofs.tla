------------------------ MODULE ScheduleRunnerProofs ------------------------
(***************************************************************************)
(* The types of ScheduleRunner, that an occurrence is fired once and that  *)
(* its failure is acked once, for any tasks, cadences, lists, zones and    *)
(* budgets; and that the next run of a task only moves forward on a device *)
(* whose list arrives once and whose zone stays.                           *)
(***************************************************************************)
EXTENDS ScheduleRunner, WellFoundedInduction, TLAPS

Rows == [Ids -> Row \cup {None}]
Results == {"none", "success", "failure", "skipped"}
Busy == {"send", "record", "report"}

RunnerType ==
  /\ runner \in [step : {"idle", "zone", "scan"} \cup Busy, id : Ids \cup {None},
                 result : Results, snap : Rows, at : 0 .. MaxTime, tz : Int]
  /\ \A i \in Ids : runner.snap[i] # None => Due(runner.snap[i], runner.at)
  /\ runner.step \in Busy => runner.id \in Ids /\ runner.snap[runner.id] # None

ManualType ==
  /\ manual \in [step : {"idle", "send", "record"}, id : Ids \cup {None}, result : Results]
  /\ manual.step # "idle" => manual.id \in Ids

SyncRecord == [step : {"idle", "load", "replace", "seed"}, list : Rows,
               zone : Zones \cup {0}, at : 0 .. MaxTime, todo : SUBSET Ids]

SyncsType ==
  /\ syncs \in [{"mqtt", "zone"} -> SyncRecord]
  /\ \A p \in {"mqtt", "zone"} : \A i \in syncs[p].todo :
       syncs[p].step = "seed" /\ syncs[p].list[i] # None

StoreType == rows \in Rows /\ zone \in Zones \cup {0}

GhostType ==
  /\ fired \in [Ids -> [Instants -> Nat]]
  /\ acked \in [Ids -> [at : Time, n : Nat, gone : Nat]]

WorldType ==
  /\ now \in 0 .. MaxTime /\ turns \subseteq {"tick", "manual", "user"}
  /\ installed \in BOOLEAN

UsedType == used \in [Kinds -> Nat] /\ \A x \in Kinds : used[x] <= Budget[x]

TypeInv ==
  /\ StoreType /\ RunnerType /\ ManualType /\ SyncsType /\ GhostType /\ WorldType
  /\ UsedType

LEMMA TypeInvTypes == TypeInv => TypeOK
BY DEF TypeInv, TypeOK, StoreType, RunnerType, ManualType, SyncsType, SyncRecord,
   GhostType, WorldType, UsedType, Rows, Results, Busy, Snap

-----------------------------------------------------------------------------
(* The next run of a cadence is later than the time it is computed from,   *)
(* but for the jitter.                                                     *)
Jitter(c) == IF c.kind = "clock" THEN c.jitter ELSE 0

LEMMA NextRunLater ==
  ASSUME NEW c \in Cadences, NEW after \in Int, NEW z \in Int
  PROVE  \/ NextRun(c, after, z) = Never
         \/ NextRun(c, after, z) \in Int /\ NextRun(c, after, z) > after + Jitter(c)
<1> DEFINE clock == c.kind = "clock"
           later == {t \in c.times : t + (IF clock THEN z ELSE 0) > after}
           first == CHOOSE t \in later : \A u \in later : t <= u
<1>1. /\ c.kind \in {"clock", "interval", "once"} /\ c.every \in Nat /\ c.jitter \in Int
      /\ later \in SUBSET Nat /\ c.every > 0
  BY CadencesAssumption, BudgetAssumption, PaceAssumption DEF Cadence
<1>2. CASE c.kind = "interval"
  BY <1>1, <1>2 DEF NextRun, Jitter
<1>3. CASE c.kind # "interval" /\ later = {}
  BY <1>3 DEF NextRun
<1>4. CASE c.kind # "interval" /\ later # {}
  <2>1. \E t \in later : \A u \in later : t <= u
    <3>1. IsWellFoundedOn(OpToRel(<, Nat), Nat)
      BY NatLessThanWellFounded
    <3>2. \E t \in later : \A u \in later : ~ (<<u, t>> \in OpToRel(<, Nat))
      <4> HIDE DEF later
      <4> QED BY <1>1, <1>4, <3>1, WFMin
    <3>3. \A u, t \in Nat : u < t => <<u, t>> \in OpToRel(<, Nat)
      <4> TAKE u, t \in Nat
      <4>1. <<u, t>> \in Nat \X Nat /\ <<u, t>>[1] = u /\ <<u, t>>[2] = t
        OBVIOUS
      <4> QED BY <4>1, Zenon DEF OpToRel
    <3>4. PICK t \in later : \A u \in later : ~ (<<u, t>> \in OpToRel(<, Nat))
      BY <3>2
    <3>5. \A u \in later : ~ (u < t)
      BY <1>1, <3>3, <3>4
    <3> QED BY <1>1, <3>5
  <2>2. first \in later
    BY <2>1
  <2>3. first \in Nat /\ first + (IF clock THEN z ELSE 0) > after
    BY <1>1, <2>2
  <2>4. NextRun(c, after, z) = IF clock THEN first + z + c.jitter ELSE first
    BY <1>4 DEF NextRun
  <2> HIDE DEF first, later
  <2> QED BY <1>1, <2>3, <2>4 DEF Jitter
<1> QED BY <1>2, <1>3, <1>4

LEMMA NextRunType ==
  ASSUME NEW c \in Cadences, NEW after \in Int, NEW z \in Int
  PROVE  NextRun(c, after, z) \in Time
BY NextRunLater DEF Time

LEMMA RowFields ==
  ASSUME NEW r \in Row
  PROVE  /\ r.cad \in Cadences /\ r.next \in Time
         /\ \A at \in Time : [r EXCEPT !.next = at] \in Row
         /\ \A status \in Results : [r EXCEPT !.status = status] \in Row
         /\ \A status \in Results, at \in Time :
              [r EXCEPT !.status = status, !.failed = at] \in Row
         /\ \A status \in Results, at \in Time :
              [r EXCEPT !.status = status, !.next = at, !.failed = Never] \in Row
BY DEF Row, Results, Time

LEMMA SpendType ==
  ASSUME UsedType, NEW x \in Kinds, Spend(x)
  PROVE  UsedType'
<1>1. used' = [used EXCEPT ![x] = used[x] + 1] /\ used[x] < Budget[x] /\ used \in [Kinds -> Nat]
  BY DEF UsedType, Spend
<1>2. used'[x] = used[x] + 1 /\ \A y \in Kinds \ {x} : used'[y] = used[y]
  BY <1>1
<1>3. used[x] \in Nat /\ Budget[x] \in Nat
  BY <1>1, BudgetAssumption
<1>4. used'[x] \in Nat /\ used'[x] <= Budget[x]
  BY <1>1, <1>2, <1>3
<1> QED BY <1>1, <1>2, <1>4 DEF UsedType

LEMMA MutateType ==
  ASSUME UsedType, rows \in Rows, NEW i \in Ids, NEW row,
         rows[i] # None => row \in Row, Mutate(i, row)
  PROVE  rows' \in Rows /\ UsedType'
<1>1. CASE rows' = (IF rows[i] = None THEN rows ELSE [rows EXCEPT ![i] = row]) /\ UNCHANGED used
  BY <1>1 DEF Rows, UsedType
<1>2. CASE Spend("fault") /\ UNCHANGED rows
  BY <1>2, SpendType DEF Kinds
<1> QED BY <1>1, <1>2 DEF Mutate

-----------------------------------------------------------------------------
(* The ticker.                                                             *)
LEMMA ServedType ==
  ASSUME RunnerType, NEW i \in Ids, runner' = Served(runner, i)
  PROVE  RunnerType'
<1> DEFINE left == [runner.snap EXCEPT ![i] = None]
<1>1. left \in Rows /\ \A j \in Ids : left[j] # None => Due(left[j], runner.at)
  BY DEF RunnerType, Rows
<1>2. CASE left = NoRows
  <2>1. runner' = IdleRunner
    BY <1>2 DEF Served
  <2>2. IdleRunner \in [step : {"idle", "zone", "scan"} \cup Busy, id : Ids \cup {None},
                        result : Results, snap : Rows, at : 0 .. MaxTime, tz : Int]
    BY BudgetAssumption DEF IdleRunner, NoRows, Rows, Results
  <2> QED BY <2>1, <2>2 DEF RunnerType, IdleRunner, NoRows, Busy
<1>3. CASE left # NoRows
  <2>1. runner' = [runner EXCEPT !.step = "scan", !.id = None, !.result = "none", !.snap = left]
    BY <1>3 DEF Served
  <2> HIDE DEF left
  <2> QED BY <1>1, <2>1 DEF RunnerType, Busy, Results
<1> QED BY <1>2, <1>3

(* The snapshot that is being served is a due row.                         *)
LEMMA SnapType ==
  ASSUME RunnerType, NEW i \in Ids, runner.snap[i] # None
  PROVE  /\ runner.snap[i] \in Row /\ runner.snap[i].next \in Int
         /\ runner.at \in Int /\ runner.tz \in Int
BY DEF RunnerType, Rows, Due, Row, Time

LEMMA AnchorType ==
  ASSUME NEW r \in Row, r.next \in Int
  PROVE  r.cad \in Cadences /\ DejitterAnchor(r.cad, r.next) \in Int
BY CadencesAssumption DEF Row, Cadence, DejitterAnchor

(* The next runs that the ticker and the syncs compute. *)
LEMMA SnapRuns ==
  ASSUME TypeInv, NEW i \in Ids, runner.snap[i] # None
  PROVE  LET row == runner.snap[i] IN
         /\ NextRun(row.cad, runner.at, runner.tz) \in Time
         /\ NextRun(row.cad, DejitterAnchor(row.cad, row.next), runner.tz) \in Time
<1>1. RunnerType
  BY DEF TypeInv
<1>2. /\ runner.snap[i] \in Row /\ runner.snap[i].next \in Int
      /\ runner.at \in Int /\ runner.tz \in Int
  BY <1>1, SnapType
<1> QED BY <1>2, AnchorType, NextRunType

LEMMA FirstRuns ==
  ASSUME TypeInv, NEW p \in {"mqtt", "zone"}, NEW i \in syncs[p].todo
  PROVE  i \in Ids /\ FirstRun(syncs[p], i) \in Time
<1> DEFINE s == syncs[p]
<1>1. s \in SyncRecord /\ s.list[i] # None
  BY DEF TypeInv, SyncsType
<1>2. i \in Ids /\ s.list \in Rows /\ s.at \in 0 .. MaxTime /\ s.zone \in Zones \cup {0}
  BY <1>1 DEF SyncRecord
<1>3. s.at \in Int /\ s.zone \in Int
  <2>1. 0 .. MaxTime \subseteq Int /\ Zones \cup {0} \subseteq Int
    BY CadencesAssumption, BudgetAssumption
  <2> QED BY <1>2, <2>1
<1>4. s.list[i] \in Row
  BY <1>1, <1>2 DEF Rows
<1> QED BY <1>2, <1>3, <1>4, RowFields, NextRunType DEF FirstRun

LEMMA TickerTypes ==
  ASSUME TypeInv, Ticker
  PROVE  TypeInv'
<1> USE DEF TypeInv
<1>1. CASE TickLoad
  <2> DEFINE due == [i \in Ids |-> IF Due(rows[i], now) THEN rows[i] ELSE None]
  <2>1. runner' = [step |-> "zone", id |-> None, result |-> "none", snap |-> due, at |-> now,
                   tz |-> 0]
    BY <1>1 DEF TickLoad, IdleRunner
  <2>2. due \in Rows /\ \A i \in Ids : due[i] # None => Due(due[i], now)
    BY DEF StoreType, Rows
  <2>3. RunnerType'
    <3> HIDE DEF due
    <3> QED BY <2>1, <2>2 DEF RunnerType, WorldType, Results, Busy
  <2> QED BY <1>1, <2>3 DEF TickLoad, storeV, ghostV, worldV, StoreType, ManualType,
             SyncsType, GhostType, WorldType, UsedType
<1>2. CASE TickZone
  <2>1. zone \in Int
    BY CadencesAssumption DEF StoreType
  <2>2. RunnerType'
    BY <1>2, <2>1 DEF TickZone, RunnerType, Busy
  <2> QED BY <1>2, <2>2 DEF TickZone, storeV, ghostV, worldV, StoreType, ManualType,
             SyncsType, GhostType, WorldType, UsedType
<1>3. ASSUME NEW i \in Ids, Reanchor(i) PROVE TypeInv'
  <2>1. /\ runner.snap[i] # None /\ runner' = Served(runner, i)
        /\ SetNextRun(i, NextRun(runner.snap[i].cad, runner.at, runner.tz))
        /\ UNCHANGED <<zone, manual, syncs, ghostV, worldV>>
    BY <1>3 DEF Reanchor
  <2>2. RunnerType'
    BY <2>1, ServedType
  <2>3. NextRun(runner.snap[i].cad, runner.at, runner.tz) \in Time
    BY <2>1, SnapRuns
  <2>4. rows' \in Rows /\ UsedType'
    <3>1. rows \in Rows /\ (rows[i] # None => rows[i] \in Row)
      BY DEF StoreType, Rows
    <3> QED BY <2>1, <2>3, <3>1, RowFields, MutateType DEF SetNextRun
  <2> QED BY <2>1, <2>2, <2>4 DEF ghostV, worldV, StoreType, ManualType, SyncsType,
        GhostType, WorldType
<1>4. ASSUME NEW i \in Ids, Consider(i) PROVE TypeInv'
  <2>1. RunnerType'
    <3>1. CASE runner' = Served(runner, i)
      BY <3>1, ServedType
    <3>2. CASE runner' = [runner EXCEPT !.step = "record", !.id = i, !.result = "skipped"]
      BY <1>4, <3>2 DEF Consider, RunnerType, Busy, Results
    <3>3. CASE runner' = [runner EXCEPT !.step = "send", !.id = i]
      BY <1>4, <3>3 DEF Consider, RunnerType, Busy, Results
    <3> QED BY <1>4, <3>1, <3>2, <3>3 DEF Consider
  <2> QED BY <1>4, <2>1 DEF Consider, storeV, ghostV, worldV, StoreType, ManualType,
        SyncsType, GhostType, WorldType, UsedType
<1>5. CASE Send
  <2>1. RunnerType'
    BY <1>5 DEF Send, RunnerType, Busy, Results
  <2>2. fired' \in [Ids -> [Instants -> Nat]]
    <3>1. CASE fired' = [fired EXCEPT ![runner.id][Snap.next] = @ + 1]
      <4>1. fired \in [Ids -> [Instants -> Nat]] /\ runner.id \in Ids
        BY <1>5 DEF Send, GhostType, RunnerType, Busy
      <4>2. \A f \in [Instants -> Nat] : \A x : [f EXCEPT ![x] = f[x] + 1] \in [Instants -> Nat]
        <5> TAKE f \in [Instants -> Nat]
        <5> TAKE x
        <5>1. CASE x \in Instants
          BY <5>1
        <5>2. CASE x \notin Instants
          BY <5>2
        <5> QED BY <5>1, <5>2
      <4> QED BY <3>1, <4>1, <4>2
    <3> QED BY <1>5, <3>1 DEF Send, GhostType
  <2>3. UsedType' /\ turns' \subseteq {"tick", "manual", "user"}
    BY <1>5, SpendType DEF Send, Kinds, UsedType, WorldType
  <2> QED BY <1>5, <2>1, <2>2, <2>3 DEF Send, storeV, StoreType, ManualType, SyncsType,
        GhostType, WorldType
<1>6. CASE Record
  <2> DEFINE i == runner.id
             next == NextRun(Snap.cad, DejitterAnchor(Snap.cad, Snap.next), runner.tz)
  <2>1. i \in Ids /\ Snap # None /\ runner.step = "record"
    BY <1>6 DEF Record, RunnerType, Busy, Snap
  <2>2. next \in Time /\ Snap.next \in Time
    BY <2>1, SnapType, SnapRuns DEF Snap, Time
  <2>3. rows \in Rows /\ (rows[i] # None => rows[i] \in Row)
    BY <2>1 DEF StoreType, Rows
  <2>4. runner.result \in Results
    BY DEF RunnerType
  <2>5. rows' \in Rows /\ UsedType'
    <3>1. CASE Mutate(i, [rows[i] EXCEPT !.status = "failure", !.failed = Snap.next])
      BY <2>1, <2>2, <2>3, <3>1, RowFields, MutateType DEF Results
    <3>2. CASE Mutate(i, [rows[i] EXCEPT !.status = runner.result, !.next = next,
                                         !.failed = Never])
      BY <2>1, <2>2, <2>3, <2>4, <3>2, RowFields, MutateType
    <3> QED BY <1>6, <3>1, <3>2 DEF Record
  <2>6. GhostType'
    BY <1>6, <2>1 DEF Record, GhostType, Time
  <2>7. RunnerType'
    BY <1>6, <2>1 DEF Record, RunnerType, Busy, Snap
  <2> QED BY <1>6, <2>5, <2>6, <2>7 DEF Record, worldV, StoreType, ManualType, SyncsType,
        WorldType
<1>7. CASE Report
  <2>1. runner.id \in Ids /\ Snap # None
    BY <1>7 DEF Report, RunnerType, Busy, Snap
  <2>2. RunnerType'
    BY <1>7, <2>1, ServedType DEF Report
  <2>3. Snap.next \in Time
    BY <2>1, SnapType DEF Snap, Time
  <2>4. GhostType'
    BY <1>7, <2>1, <2>3 DEF Report, GhostType
  <2> QED BY <1>7, <2>2, <2>4 DEF Report, storeV, worldV, StoreType, ManualType,
             SyncsType, WorldType, UsedType
<1> QED BY <1>1, <1>2, <1>3, <1>4, <1>5, <1>6, <1>7 DEF Ticker

-----------------------------------------------------------------------------
(* Run now, the syncs, and the world.                                      *)
LEMMA ButtonTypes ==
  ASSUME TypeInv, Button
  PROVE  TypeInv'
<1> USE DEF TypeInv
<1>1. ASSUME NEW i \in Ids, RunNow(i) PROVE TypeInv'
  <2>1. ManualType' /\ UsedType'
    BY <1>1, SpendType DEF RunNow, ManualType, Results, Kinds
  <2> QED BY <1>1, <2>1 DEF RunNow, storeV, ghostV, worldV, StoreType, RunnerType,
             SyncsType, GhostType, WorldType
<1>2. CASE RunSend
  <2>1. ManualType' /\ UsedType'
    BY <1>2, SpendType DEF RunSend, ManualType, UsedType, Results, Kinds
  <2> QED BY <1>2, <2>1 DEF RunSend, storeV, ghostV, StoreType, RunnerType, SyncsType,
        GhostType, WorldType
<1>3. CASE RunRecord
  <2>1. manual.id \in Ids /\ manual.result \in Results
    BY <1>3 DEF RunRecord, ManualType
  <2>2. rows \in Rows /\ (rows[manual.id] # None => rows[manual.id] \in Row)
    BY <2>1 DEF StoreType, Rows
  <2>3. rows' \in Rows /\ UsedType'
    BY <1>3, <2>1, <2>2, RowFields, MutateType DEF RunRecord
  <2>4. ManualType'
    BY <1>3 DEF RunRecord, ManualType, Idle, Results
  <2> QED BY <1>3, <2>3, <2>4 DEF RunRecord, ghostV, worldV, StoreType, RunnerType,
             SyncsType, GhostType, WorldType
<1> QED BY <1>1, <1>2, <1>3 DEF Button

LEMMA IdleSyncType == IdleSync \in SyncRecord /\ IdleSync.todo = {}
<1>1. NoRows \in Rows
  BY DEF NoRows, Rows
<1> QED BY <1>1, BudgetAssumption DEF IdleSync, SyncRecord

(* One sync moves to a record of the right shape.                          *)
LEMMA SyncMoves ==
  ASSUME SyncsType, NEW p \in {"mqtt", "zone"}, NEW s \in SyncRecord,
         syncs' = [syncs EXCEPT ![p] = s],
         \A i \in s.todo : s.step = "seed" /\ s.list[i] # None
  PROVE  SyncsType'
BY DEF SyncsType

LEMMA DownlinkTypes ==
  ASSUME TypeInv, Downlink
  PROVE  TypeInv'
<1> USE DEF TypeInv
<1>0. /\ DOMAIN syncs = {"mqtt", "zone"} /\ rows \in Rows /\ now \in 0 .. MaxTime
      /\ \A p \in {"mqtt", "zone"} : syncs[p] \in SyncRecord
  BY DEF SyncsType, StoreType, WorldType
<1>1. ASSUME NEW l \in Lists, NEW z \in Zones, MqttSync(l, z) PROVE TypeInv'
  <2> DEFINE s == [IdleSync EXCEPT !.step = "replace", !.list = l, !.zone = z, !.at = now]
  <2>1. s \in SyncRecord /\ s.todo = {}
    BY <1>0, IdleSyncType, ListsAssumption DEF SyncRecord, Rows
  <2>2. SyncsType'
    <3>1. syncs' = [syncs EXCEPT !["mqtt"] = s]
      BY <1>1 DEF MqttSync
    <3> HIDE DEF s
    <3> QED BY <2>1, <3>1, SyncMoves
  <2>3. UsedType'
    BY <1>1, SpendType DEF MqttSync, Kinds
  <2> QED BY <1>1, <2>2, <2>3 DEF MqttSync, storeV, ghostV, worldV, StoreType, RunnerType,
        ManualType, GhostType, WorldType
<1>2. ASSUME NEW z \in Zones, ZoneSet(z) PROVE TypeInv'
  <2> DEFINE s == [IdleSync EXCEPT !.step = "load", !.zone = z]
  <2>1. s \in SyncRecord /\ s.todo = {}
    BY IdleSyncType DEF SyncRecord
  <2>2. SyncsType'
    <3>1. syncs' = [syncs EXCEPT !["zone"] = s]
      BY <1>2 DEF ZoneSet
    <3> HIDE DEF s
    <3> QED BY <2>1, <3>1, SyncMoves
  <2>3. UsedType'
    BY <1>2, SpendType DEF ZoneSet, Kinds
  <2> QED BY <1>2, <2>2, <2>3 DEF ZoneSet, ghostV, worldV, StoreType, RunnerType,
        ManualType, GhostType, WorldType
<1>3. CASE ZoneLoad
  <2>1. SyncsType'
    <3>1. CASE syncs' = [syncs EXCEPT !["zone"] = IdleSync]
      BY <3>1, IdleSyncType, SyncMoves
    <3>2. CASE syncs' = [syncs EXCEPT !["zone"] =
                           [@ EXCEPT !.step = "replace", !.list = rows, !.at = now]]
      <4> DEFINE s == [syncs["zone"] EXCEPT !.step = "replace", !.list = rows, !.at = now]
      <4>1. syncs["zone"].step = "load" /\ syncs["zone"].todo = {}
        BY <1>0, <1>3 DEF ZoneLoad, SyncsType
      <4>2. s \in SyncRecord /\ s.todo = {}
        BY <1>0, <4>1 DEF SyncRecord
      <4>3. syncs' = [syncs EXCEPT !["zone"] = s]
        BY <3>2
      <4> HIDE DEF s
      <4> QED BY <4>2, <4>3, SyncMoves
    <3> QED BY <1>3, <3>1, <3>2 DEF ZoneLoad
  <2> QED BY <1>3, <2>1 DEF ZoneLoad, storeV, ghostV, worldV, StoreType, RunnerType,
        ManualType, GhostType, WorldType, UsedType
<1>4. ASSUME NEW p \in DOMAIN syncs, Replace(p) PROVE TypeInv'
  <2> DEFINE s == syncs[p]
             todo == {i \in Ids : s.list[i] # None /\ s.list[i].on /\ FirstRun(s, i) # Never}
  <2>1. p \in {"mqtt", "zone"} /\ s \in SyncRecord
    BY <1>0
  <2>2. CASE /\ rows' = Carried(s.list, rows) /\ zone' = s.zone
             /\ syncs' = [syncs EXCEPT ![p] = IF todo = {} THEN IdleSync
                                              ELSE [@ EXCEPT !.step = "seed", !.todo = todo]]
             /\ acked' = [i \in Ids |-> IF rows[i] # None /\ s.list[i] = None
                                       THEN [acked[i] EXCEPT !.gone = @ + 1] ELSE acked[i]]
             /\ UNCHANGED used
    <3>1. Carried(s.list, rows) \in Rows
      <4>1. ASSUME NEW i \in Ids, s.list[i] # None, rows[i] # None
            PROVE  [s.list[i] EXCEPT
                     !.status = IF @ = "none" THEN rows[i].status ELSE @,
                     !.failed = IF @ = Never THEN rows[i].failed ELSE @] \in Row
        <5>1. s.list[i] \in Row /\ rows[i] \in Row
          BY <1>0, <2>1, <4>1 DEF SyncRecord, Rows
        <5> QED BY <5>1 DEF Row
      <4>2. \A i \in Ids : s.list[i] \in Row \cup {None}
        BY <2>1 DEF SyncRecord, Rows
      <4> QED BY <4>1, <4>2 DEF Carried, Rows
    <3>2. SyncsType'
      <4>1. CASE todo = {}
        BY <2>1, <2>2, <4>1, IdleSyncType, SyncMoves
      <4>2. CASE todo # {}
        <5>1. syncs' = [syncs EXCEPT ![p] = [s EXCEPT !.step = "seed", !.todo = todo]]
          BY <2>2, <4>2
        <5>2. todo \subseteq Ids /\ \A i \in todo : s.list[i] # None
          OBVIOUS
        <5> HIDE DEF todo
        <5>3. [s EXCEPT !.step = "seed", !.todo = todo] \in SyncRecord
          BY <2>1, <5>2 DEF SyncRecord
        <5> DEFINE t == [s EXCEPT !.step = "seed", !.todo = todo]
        <5>4. t.step = "seed" /\ t.todo = todo /\ t.list = s.list
          BY <2>1 DEF SyncRecord
        <5>5. t \in SyncRecord /\ syncs' = [syncs EXCEPT ![p] = t]
          BY <5>1, <5>3
        <5> HIDE DEF t
        <5> QED BY <2>1, <5>2, <5>4, <5>5, SyncMoves
      <4> QED BY <4>1, <4>2
    <3>3. zone' \in Zones \cup {0}
      BY <2>1, <2>2 DEF SyncRecord
    <3>4. GhostType'
      BY <1>4, <2>2 DEF Replace, GhostType
    <3> QED BY <1>4, <2>2, <3>1, <3>2, <3>3, <3>4 DEF Replace, worldV, StoreType,
               RunnerType, ManualType, WorldType, UsedType
  <2>3. CASE Spend("fault") /\ syncs' = [syncs EXCEPT ![p] = IdleSync]
             /\ UNCHANGED <<storeV, acked>>
    <3>1. SyncsType' /\ UsedType'
      BY <2>1, <2>3, IdleSyncType, SyncMoves, SpendType DEF Kinds
    <3> QED BY <1>4, <2>3, <3>1 DEF Replace, storeV, worldV, StoreType, RunnerType,
          ManualType, GhostType, WorldType
  <2> QED BY <1>4, <2>2, <2>3 DEF Replace
<1>5. ASSUME NEW p \in DOMAIN syncs, NEW i \in Ids, Seed(p, i) PROVE TypeInv'
  <2> DEFINE s == syncs[p]
  <2>1. p \in {"mqtt", "zone"} /\ s \in SyncRecord /\ i \in s.todo /\ s.list[i] # None
    BY <1>0, <1>5 DEF Seed, SyncsType
  <2>2. FirstRun(s, i) \in Time
    BY <2>1, FirstRuns
  <2>3. rows' \in Rows /\ UsedType'
    <3>1. rows[i] # None => rows[i] \in Row
      BY <1>0 DEF Rows
    <3> QED BY <1>0, <1>5, <2>2, <3>1, RowFields, MutateType DEF Seed, SetNextRun
  <2>4. SyncsType'
    <3>1. CASE syncs' = [syncs EXCEPT ![p] = IdleSync]
      BY <2>1, <3>1, IdleSyncType, SyncMoves
    <3> DEFINE t == [s EXCEPT !.todo = s.todo \ {i}]
    <3>2. t \in SyncRecord /\ t.step = s.step /\ t.list = s.list /\ t.todo = s.todo \ {i}
      BY <2>1 DEF SyncRecord
    <3>3. \A j \in t.todo : t.step = "seed" /\ t.list[j] # None
      BY <2>1, <3>2 DEF SyncsType
    <3>4. CASE syncs' = [syncs EXCEPT ![p] = t]
      <4> HIDE DEF t
      <4> QED BY <2>1, <3>2, <3>3, <3>4, SyncMoves
    <3> QED BY <1>5, <3>1, <3>4 DEF Seed
  <2> QED BY <1>5, <2>3, <2>4 DEF Seed, ghostV, worldV, StoreType, RunnerType, ManualType,
        GhostType, WorldType
<1> QED BY <1>1, <1>2, <1>3, <1>4, <1>5 DEF Downlink

LEMMA WorldTypes ==
  ASSUME TypeInv, World
  PROVE  TypeInv'
<1> USE DEF TypeInv
<1>1. CASE Advance
  BY <1>1, BudgetAssumption DEF Advance, storeV, procV, ghostV, StoreType, RunnerType,
     ManualType, SyncsType, GhostType, WorldType, UsedType
<1>2. CASE UserTurn \/ ConnectorChanges
  <2>1. UsedType' /\ WorldType'
    BY <1>2, SpendType DEF UserTurn, ConnectorChanges, Kinds, WorldType
  <2> QED BY <1>2, <2>1 DEF UserTurn, ConnectorChanges, storeV, procV, ghostV, StoreType,
        RunnerType, ManualType, SyncsType, GhostType
<1>3. CASE TurnEnds
  BY <1>3 DEF TurnEnds, storeV, procV, ghostV, StoreType, RunnerType, ManualType,
     SyncsType, GhostType, WorldType, UsedType
<1>4. CASE Crash
  <2>1. UsedType'
    BY <1>4, SpendType DEF Crash, Kinds
  <2>2. RunnerType'
    <3>1. NoRows \in Rows /\ \A i \in Ids : NoRows[i] = None
      BY DEF NoRows, Rows
    <3> QED BY <1>4, <3>1, BudgetAssumption DEF Crash, IdleRunner, RunnerType, Busy,
               Results
  <2>3. ManualType' /\ SyncsType'
    BY <1>4, IdleSyncType DEF Crash, Idle, ManualType, SyncsType, Results
  <2> QED BY <1>4, <2>1, <2>2, <2>3 DEF Crash, storeV, ghostV, StoreType, GhostType,
             WorldType
<1> QED BY <1>1, <1>2, <1>3, <1>4 DEF World

LEMMA TypeInvInit == Init => TypeInv
<1> SUFFICES ASSUME Init PROVE TypeInv
  OBVIOUS
<1>1. NoRows \in Rows /\ \A i \in Ids : NoRows[i] = None
  BY DEF NoRows, Rows
<1>2. StoreType /\ WorldType
  BY <1>1, BudgetAssumption DEF Init, StoreType, WorldType
<1>3. RunnerType /\ ManualType
  BY <1>1, BudgetAssumption DEF Init, IdleRunner, Idle, RunnerType, ManualType, Busy,
     Results
<1>4. SyncsType
  BY IdleSyncType DEF Init, SyncsType
<1>5. GhostType
  BY DEF Init, GhostType, NoAck, Time
<1>6. UsedType
  BY BudgetAssumption DEF Init, UsedType
<1> QED BY <1>2, <1>3, <1>4, <1>5, <1>6 DEF TypeInv

LEMMA TypeInvStep == TypeInv /\ [Next]_vars => TypeInv'
<1> SUFFICES ASSUME TypeInv, [Next]_vars PROVE TypeInv'
  OBVIOUS
<1>1. CASE UNCHANGED vars
  BY <1>1 DEF vars, storeV, procV, ghostV, worldV, TypeInv, StoreType, RunnerType,
     ManualType, SyncsType, GhostType, WorldType, UsedType
<1> QED BY <1>1, TickerTypes, ButtonTypes, DownlinkTypes, WorldTypes DEF Next

(* Every variable keeps its type, for any lists and cadences (Store,       *)
(* Runner, SyncSchedules); what the ticker serves is a row that was due.   *)
THEOREM TypeOKKept == Spec => []TypeOK
BY TypeInvInit, TypeInvStep, TypeInvTypes, PTL DEF Spec

-----------------------------------------------------------------------------
(***************************************************************************)
(* A failure is acked once.  What is known of a failed occurrence is in    *)
(* the row; Spare counts what a lost memory has been paid with and not     *)
(* yet used: a zone change or a "Run now" that is still on its way will    *)
(* overwrite the row once, a deletion has.                                 *)
(***************************************************************************)
ZonePending == IF syncs["zone"].step \in {"load", "replace"} THEN 1 ELSE 0
RunPending  == IF manual.step = "idle" THEN 0 ELSE 1

Spare(i) == acked[i].gone + used["fault"] + (used["run"] - RunPending)
            + (used["zone"] - ZonePending)

(* Whether a row remembers that the occurrence failed. *)
Known(row, at) ==
  IF row # None /\ row.status = "failure" /\ row.failed = at THEN 1 ELSE 0

PendingPaid == ZonePending <= used["zone"] /\ RunPending <= used["run"]

ListIsFresh ==
  syncs["mqtt"].step = "replace" =>
    \A i \in Ids : syncs["mqtt"].list[i] # None => Fresh(syncs["mqtt"].list[i])

Unacked(i)   == runner.snap[i] # None /\ ~AlreadyAcked(runner.snap[i])
Reporting(i) == runner.step = "report" /\ runner.id = i /\ runner.result = "failure"

AckPaid(i) == acked[i].n = 0 \/ acked[i].n <= Spare(i) + Known(rows[i], acked[i].at)

(* What the ticker took for a failure nobody has been told of. *)
SnapPaid(i) ==
  Unacked(i) /\ runner.snap[i].next = acked[i].at => acked[i].n <= Spare(i)

(* The row was deleted under the ticker's snapshot. *)
GonePaid(i) ==
  Unacked(i) /\ rows[i] = None =>
    /\ acked[i].gone >= 1
    /\ runner.snap[i].next = acked[i].at => acked[i].n + 1 <= Spare(i)

(* The report that comes next is paid for already. *)
ReportPaid(i) ==
  Unacked(i) /\ Reporting(i) =>
    acked[i].n + 1 <= Spare(i) + Known(rows[i], runner.snap[i].next)

Paid(i) == AckPaid(i) /\ SnapPaid(i) /\ GonePaid(i) /\ ReportPaid(i)

AckInv == TypeInv /\ PendingPaid /\ ListIsFresh /\ \A i \in Ids : Paid(i)

LEMMA SpareTypes ==
  ASSUME TypeInv, NEW i \in Ids
  PROVE  /\ used["fault"] \in Nat /\ used["run"] \in Nat /\ used["zone"] \in Nat
         /\ acked[i].n \in Nat /\ acked[i].gone \in Nat
         /\ ZonePending \in {0, 1} /\ RunPending \in {0, 1} /\ Spare(i) \in Int
         /\ \A row, at : Known(row, at) \in {0, 1}
<1>1. used["fault"] \in Nat /\ used["run"] \in Nat /\ used["zone"] \in Nat
  BY DEF TypeInv, UsedType, Kinds
<1>2. acked[i].n \in Nat /\ acked[i].gone \in Nat
  BY DEF TypeInv, GhostType
<1>3. ZonePending \in {0, 1} /\ RunPending \in {0, 1}
  BY DEF ZonePending, RunPending
<1> QED BY <1>1, <1>2, <1>3 DEF Spare, Known

LEMMA SpareIsPaid ==
  ASSUME TypeInv, PendingPaid, NEW i \in Ids
  PROVE  Spare(i) >= acked[i].gone
BY SpareTypes DEF PendingPaid, Spare

LEMMA SpendFact ==
  ASSUME TypeInv, NEW x \in Kinds, Spend(x)
  PROVE  used'[x] = used[x] + 1 /\ \A y \in Kinds \ {x} : used'[y] = used[y]
BY DEF TypeInv, UsedType, Spend

(* The row of a task stays, and what it knows. *)
RowKept(i) ==
  /\ rows'[i] = None => rows[i] = None
  /\ \A at \in Time : Known(rows'[i], at) >= Known(rows[i], at)

(* A step that reports nothing keeps the account of a task when it keeps   *)
(* the row, or when it pays for the memory that is lost.                   *)
LEMMA QuietStep ==
  ASSUME TypeInv, TypeInv', NEW i \in Ids, Paid(i),
         acked'[i].n = acked[i].n, acked'[i].at = acked[i].at,
         acked'[i].gone >= acked[i].gone,
         runner'.snap[i] = runner.snap[i] \/ runner'.snap[i] = None,
         Reporting(i)' => Reporting(i),
         \/ Spare(i)' >= Spare(i) /\ RowKept(i)
         \/ /\ Spare(i)' >= Spare(i) + 1
            /\ rows'[i] = None /\ rows[i] # None => acked'[i].gone >= 1
  PROVE  Paid(i)'
<1>1. /\ acked[i].n \in Nat /\ acked[i].gone \in Nat /\ acked'[i].gone \in Nat
      /\ Spare(i) \in Int /\ Spare(i)' \in Int
      /\ \A row, at : Known(row, at) \in {0, 1}
  <2>1. acked'[i].gone \in Nat
    BY DEF TypeInv, GhostType
  <2>2. Spare(i)' \in Int
    <3>1. used'["fault"] \in Nat /\ used'["run"] \in Nat /\ used'["zone"] \in Nat
      BY DEF TypeInv, UsedType, Kinds
    <3>2. ZonePending' \in {0, 1} /\ RunPending' \in {0, 1}
      BY DEF ZonePending, RunPending
    <3> QED BY <2>1, <3>1, <3>2 DEF Spare
  <2> QED BY <2>1, <2>2, SpareTypes
<1>2. acked[i].at \in Time /\ (runner.snap[i] # None => runner.snap[i].next \in Time)
  BY DEF TypeInv, GhostType, RunnerType, Rows, Row
<1>3. /\ Unacked(i)' => Unacked(i) /\ runner'.snap[i] = runner.snap[i]
  BY DEF Unacked
<1>4. AckPaid(i)'
  BY <1>1, <1>2 DEF Paid, AckPaid, RowKept
<1>5. SnapPaid(i)'
  BY <1>1, <1>3 DEF Paid, SnapPaid
<1>6. GonePaid(i)'
  BY <1>1, <1>3 DEF Paid, SnapPaid, GonePaid, RowKept
<1>7. ReportPaid(i)'
  BY <1>1, <1>2, <1>3 DEF Paid, ReportPaid, RowKept, Unacked
<1> QED BY <1>4, <1>5, <1>6, <1>7 DEF Paid

-----------------------------------------------------------------------------
(* A write of one row that keeps what the row knows is paid for when it    *)
(* fails, and keeps every row.                                             *)
LEMMA MutateFact ==
  ASSUME TypeInv, NEW i \in Ids, NEW j \in Ids, NEW row, Mutate(j, row),
         rows[j] # None => row # None
  PROVE  /\ rows'[i] = None => rows[i] = None
         /\ i # j \/ rows[i] = None => rows'[i] = rows[i]
         /\ \/ UNCHANGED used /\ (rows[j] # None => rows'[j] = row)
            \/ /\ UNCHANGED rows /\ used'["fault"] = used["fault"] + 1
               /\ used'["run"] = used["run"] /\ used'["zone"] = used["zone"]
<1>1. rows \in [Ids -> Row \cup {None}]
  BY DEF TypeInv, StoreType, Rows
<1>2. CASE /\ rows' = IF rows[j] = None THEN rows ELSE [rows EXCEPT ![j] = row]
           /\ UNCHANGED used
  BY <1>1, <1>2
<1>3. CASE rows[j] # None /\ Spend("fault") /\ UNCHANGED rows
  BY <1>3, SpendFact DEF Kinds
<1> QED BY <1>2, <1>3 DEF Mutate

(* A new next run leaves what the row knows. *)
LEMMA SetNextRunFact ==
  ASSUME TypeInv, NEW i \in Ids, NEW j \in Ids, NEW at \in Time, SetNextRun(j, at)
  PROVE  /\ RowKept(i) /\ used'["run"] = used["run"] /\ used'["zone"] = used["zone"]
         /\ used'["fault"] \in {used["fault"], used["fault"] + 1}
<1> DEFINE row == [rows[j] EXCEPT !.next = at]
<1>1. rows[j] # None => /\ row # None /\ row.status = rows[j].status
                        /\ row.failed = rows[j].failed
  <2>1. rows[j] # None => rows[j] \in Row
    BY DEF TypeInv, StoreType, Rows
  <2>2. rows[j] \in Row => row.status = rows[j].status /\ row.failed = rows[j].failed
    BY DEF Row
  <2>3. rows[j] \in Row => row # None
    BY RowFields, NoneAssumption
  <2> QED BY <2>1, <2>2, <2>3
<1> HIDE DEF row
<1>2. Mutate(j, row)
  BY DEF SetNextRun, row
<1>3. RowKept(i)
  <2>1. rows'[i] = None => rows[i] = None
    BY <1>1, <1>2, MutateFact
  <2>2. ASSUME NEW x \in Time PROVE Known(rows'[i], x) >= Known(rows[i], x)
    BY <1>1, <1>2, MutateFact DEF Known
  <2> QED BY <2>1, <2>2 DEF RowKept
<1> QED BY <1>1, <1>2, <1>3, MutateFact

-----------------------------------------------------------------------------
(* What a step of the ticker costs.                                        *)
LEMMA MutateCost ==
  ASSUME TypeInv, NEW j, NEW row, Mutate(j, row)
  PROVE  /\ used'["run"] = used["run"] /\ used'["zone"] = used["zone"]
         /\ used'["sync"] = used["sync"] /\ used'["crash"] = used["crash"]
         /\ used'["fault"] \in {used["fault"], used["fault"] + 1}
BY SpendFact DEF Mutate, Kinds

LEMMA TickerCost ==
  ASSUME TypeInv, Ticker
  PROVE  /\ UNCHANGED <<manual, syncs>>
         /\ used'["run"] = used["run"] /\ used'["zone"] = used["zone"]
         /\ used'["sync"] = used["sync"] /\ used'["crash"] = used["crash"]
         /\ used'["fault"] \in {used["fault"], used["fault"] + 1}
<1>1. CASE TickLoad \/ TickZone \/ Report \/ \E i \in Ids : Consider(i)
  <2>1. UNCHANGED <<manual, syncs, used>>
    BY <1>1 DEF TickLoad, TickZone, Report, Consider
  <2> QED BY <2>1
<1>2. CASE Send
  BY <1>2, SpendFact DEF Send, Kinds
<1>3. CASE Record \/ \E i \in Ids : Reanchor(i)
  <2>1. UNCHANGED <<manual, syncs>> /\ \E j, row : Mutate(j, row)
    BY <1>3 DEF Record, Reanchor, SetNextRun
  <2> QED BY <2>1, MutateCost
<1> QED BY <1>1, <1>2, <1>3 DEF Ticker

LEMMA TickerPending ==
  ASSUME AckInv, TypeInv', Ticker, NEW i \in Ids
  PROVE  /\ PendingPaid' /\ ListIsFresh'
         /\ acked'[i].gone = acked[i].gone =>
              Spare(i)' = Spare(i) + (used'["fault"] - used["fault"])
<1>1. TypeInv
  BY DEF AckInv
<1>2. /\ UNCHANGED <<manual, syncs>>
      /\ used'["run"] = used["run"] /\ used'["zone"] = used["zone"]
  BY <1>1, TickerCost
<1>3. ZonePending' = ZonePending /\ RunPending' = RunPending
  BY <1>2 DEF ZonePending, RunPending
<1>4. PendingPaid' /\ ListIsFresh'
  BY <1>2, <1>3 DEF AckInv, PendingPaid, ListIsFresh
<1>5. /\ used["fault"] \in Nat /\ used["run"] \in Nat /\ used["zone"] \in Nat
      /\ ZonePending \in {0, 1} /\ RunPending \in {0, 1} /\ acked[i].gone \in Nat
      /\ used'["fault"] \in Nat
  BY <1>1, SpareTypes, TickerCost
<1> QED BY <1>2, <1>3, <1>4, <1>5 DEF Spare

(* The ticker lets go of the row it has served, and of no other. *)
LEMMA ServedFact ==
  ASSUME TypeInv, NEW i \in Ids, NEW j \in Ids, runner' = Served(runner, j)
  PROVE  /\ runner'.step \in {"idle", "scan"}
         /\ runner'.snap[i] = None \/ (i # j /\ runner'.snap[i] = runner.snap[i])
<1> DEFINE left == [runner.snap EXCEPT ![j] = None]
<1>1. left[j] = None /\ (i # j => left[i] = runner.snap[i])
  BY DEF TypeInv, RunnerType, Rows
<1>2. CASE left = NoRows
  <2>1. runner' = IdleRunner
    BY <1>2 DEF Served
  <2> QED BY <2>1 DEF IdleRunner, NoRows
<1>3. CASE left # NoRows
  <2>1. runner' = [runner EXCEPT !.step = "scan", !.id = None, !.result = "none", !.snap = left]
    BY <1>3 DEF Served
  <2> HIDE DEF left
  <2>2. runner'.step = "scan" /\ runner'.snap = left
    BY <2>1 DEF TypeInv, RunnerType
  <2> QED BY <1>1, <2>2
<1> QED BY <1>2, <1>3

LEMMA TickerPaid ==
  ASSUME AckInv, TypeInv', Ticker, NEW i \in Ids
  PROVE  Paid(i)'
<1>1. TypeInv /\ PendingPaid /\ Paid(i)
  BY DEF AckInv
<1>2. /\ acked'[i].gone = acked[i].gone =>
           Spare(i)' = Spare(i) + (used'["fault"] - used["fault"])
      /\ used["fault"] \in Nat /\ used'["fault"] \in {used["fault"], used["fault"] + 1}
      /\ Spare(i) \in Int /\ acked[i].n \in Nat /\ acked[i].gone \in Nat
  BY <1>1, TickerPending, TickerCost, SpareTypes
<1>3. CASE TickLoad
  <2>1. /\ UNCHANGED <<rows, acked, used>> /\ runner'.step = "zone"
        /\ runner'.snap[i] = IF Due(rows[i], now) THEN rows[i] ELSE None
    BY <1>3 DEF TickLoad, IdleRunner, storeV, ghostV
  <2>2. Spare(i)' = Spare(i) /\ Spare(i) >= 0
    BY <1>1, <1>2, <2>1, SpareIsPaid
  <2>3. AckPaid(i)' /\ ReportPaid(i)' /\ GonePaid(i)'
    BY <1>1, <2>1, <2>2 DEF Paid, AckPaid, ReportPaid, GonePaid, Reporting, Unacked
  <2>4. SnapPaid(i)'
    <3>1. ASSUME Unacked(i)', rows[i].next = acked[i].at
          PROVE  Known(rows[i], acked[i].at) = 0
      BY <2>1, <3>1 DEF Unacked, AlreadyAcked, Known
    <3> QED BY <1>1, <1>2, <2>1, <2>2, <3>1 DEF Paid, AckPaid, SnapPaid, Unacked
  <2> QED BY <2>3, <2>4 DEF Paid
<1>4. CASE TickZone \/ Send \/ \E j \in Ids : Consider(j)
  <2>1. UNCHANGED <<rows, acked>>
    BY <1>4 DEF TickZone, Send, Consider, storeV, ghostV
  <2>2. /\ runner'.step # "report"
        /\ runner'.snap[i] = runner.snap[i] \/ runner'.snap[i] = None
    <3>1. CASE TickZone \/ Send
      BY <1>1, <3>1 DEF TickZone, Send, RunnerType, TypeInv
    <3>2. ASSUME NEW j \in Ids, Consider(j), runner' # Served(runner, j)
          PROVE  runner'.step # "report" /\ runner'.snap[i] = runner.snap[i]
      <4>1. runner' = CASE Missing(runner.snap[j]) ->
                             [runner EXCEPT !.step = "record", !.id = j, !.result = "skipped"]
                        [] ~Missing(runner.snap[j]) /\ turns # {} -> Served(runner, j)
                        [] OTHER -> [runner EXCEPT !.step = "send", !.id = j]
        BY <3>2 DEF Consider
      <4>2. \/ runner' = [runner EXCEPT !.step = "record", !.id = j, !.result = "skipped"]
            \/ runner' = [runner EXCEPT !.step = "send", !.id = j]
        BY <3>2, <4>1
      <4> QED BY <1>1, <4>2 DEF RunnerType, TypeInv
    <3> QED BY <1>1, <1>4, <3>1, <3>2, ServedFact
  <2>3. RowKept(i)
    BY <1>1, <2>1, SpareTypes DEF RowKept
  <2>4. Spare(i)' >= Spare(i)
    BY <1>2, <2>1
  <2> QED BY <1>1, <1>2, <2>1, <2>2, <2>3, <2>4, QuietStep DEF Reporting
<1>5. ASSUME NEW j \in Ids, Reanchor(j) PROVE Paid(i)'
  <2>1. /\ runner.snap[j] # None /\ UNCHANGED acked /\ runner' = Served(runner, j)
        /\ SetNextRun(j, NextRun(runner.snap[j].cad, runner.at, runner.tz))
    BY <1>5 DEF Reanchor, ghostV
  <2>2. RowKept(i)
    BY <1>1, <2>1, SnapRuns, SetNextRunFact
  <2>3. /\ runner'.step # "report"
        /\ runner'.snap[i] = runner.snap[i] \/ runner'.snap[i] = None
    BY <1>1, <2>1, ServedFact
  <2> QED BY <1>1, <1>2, <2>1, <2>2, <2>3, QuietStep DEF Reporting
<1>6. CASE Record
  <2> DEFINE j == runner.id
             x == Snap.next
             next == NextRun(Snap.cad, DejitterAnchor(Snap.cad, x), runner.tz)
             fails == [rows[j] EXCEPT !.status = "failure", !.failed = x]
             ends == [rows[j] EXCEPT !.status = runner.result, !.next = next, !.failed = Never]
  <2>1. /\ j \in Ids /\ Snap # None /\ Snap = runner.snap[j] /\ x \in Int
        /\ x \in Time /\ next \in Time /\ runner.result \in Results
    <3>1. runner.id \in Ids /\ runner.snap[runner.id] # None
      BY <1>1, <1>6 DEF Record, TypeInv, RunnerType, Busy
    <3> QED BY <1>1, <3>1, SnapType, SnapRuns DEF Snap, Time, TypeInv, RunnerType
  <2>2. rows[j] # None => rows[j] \in Row
    BY <1>1, <2>1 DEF TypeInv, StoreType, Rows
  <2>3. /\ rows[j] # None => /\ fails # None /\ ends # None
                             /\ fails.status = "failure" /\ fails.failed = x
    <3>1. rows[j] \in Row => fails \in Row /\ ends \in Row
      BY <2>1, RowFields DEF Results
    <3>2. rows[j] \in Row => fails.status = "failure" /\ fails.failed = x
      BY DEF Row
    <3> QED BY <2>2, <3>1, <3>2, NoneAssumption
  <2> HIDE DEF fails, ends, next
  <2>4. /\ runner'.step = "report" /\ runner'.snap = runner.snap /\ runner'.id = j
        /\ runner'.result = runner.result
    BY <1>1, <1>6 DEF Record, TypeInv, RunnerType
  <2>5. /\ runner.result = "failure" => Mutate(j, fails)
        /\ runner.result # "failure" => Mutate(j, ends)
        /\ acked' = IF runner.result = "failure" /\ acked[j].at = x THEN acked
                    ELSE [acked EXCEPT ![j].at = Never, ![j].n = 0]
    BY <1>6 DEF Record, fails, ends, next
  <2>6. acked'[i].gone = acked[i].gone /\ (i # j => acked'[i] = acked[i])
    BY <1>1, <2>1, <2>5 DEF TypeInv, GhostType
  <2>7. rows'[i] = None => rows[i] = None
    BY <1>1, <2>1, <2>3, <2>5, MutateFact
  <2>8. CASE i # j
    <3>1. rows'[i] = rows[i]
      BY <1>1, <2>1, <2>3, <2>5, <2>8, MutateFact
    <3>2. RowKept(i)
      BY <1>1, <3>1, SpareTypes DEF RowKept
    <3>3. ~Reporting(i)'
      BY <2>4, <2>8 DEF Reporting
    <3> QED BY <1>1, <1>2, <2>4, <2>6, <2>8, <3>2, <3>3, QuietStep
  <2>9. CASE i = j /\ (runner.result # "failure" \/ acked[i].at # x)
    <3>1. acked'[i].n = 0 /\ acked'[i].at = Never
      BY <1>1, <2>1, <2>5, <2>9 DEF TypeInv, GhostType
    <3>2. AckPaid(i)'
      BY <3>1 DEF AckPaid
    <3>3. Spare(i)' = Spare(i) + (used'["fault"] - used["fault"]) /\ Spare(i) >= acked[i].gone
      BY <1>1, <1>2, <2>6, SpareIsPaid
    <3>4. SnapPaid(i)'
      BY <1>2, <3>1, <3>3 DEF SnapPaid
    <3>5. GonePaid(i)'
      BY <1>1, <1>2, <2>4, <2>6, <2>7, <3>1, <3>3 DEF Paid, GonePaid, Unacked
    <3>6. ReportPaid(i)'
      <4>1. SUFFICES ASSUME Unacked(i), runner.result = "failure"
                     PROVE  acked'[i].n + 1 <= Spare(i)' + Known(rows'[i], x)
        BY <2>1, <2>4, <2>9 DEF ReportPaid, Unacked, Reporting
      <4>2. CASE rows[i] = None
        BY <1>1, <1>2, <3>1, <3>3, <4>1, <4>2, SpareTypes DEF Paid, GonePaid
      <4>3. CASE rows[i] # None
        <5>1. \/ rows'[i] = fails \/ used'["fault"] = used["fault"] + 1
          BY <1>1, <2>1, <2>3, <2>5, <2>9, <4>1, <4>3, MutateFact
        <5>2. fails # None /\ Known(fails, x) = 1
          BY <2>3, <2>9, <4>3 DEF Known
        <5> QED BY <1>2, <3>1, <3>3, <5>1, <5>2, SpareTypes, <1>1
      <4> QED BY <4>2, <4>3
    <3> QED BY <3>2, <3>4, <3>5, <3>6 DEF Paid
  <2>10. CASE i = j /\ runner.result = "failure" /\ acked[i].at = x
    <3>1. acked' = acked /\ Mutate(j, fails)
      BY <2>5, <2>10
    <3>2. Spare(i)' = Spare(i) + (used'["fault"] - used["fault"])
      BY <1>2, <2>6
    <3>3. \/ rows[i] = None /\ rows'[i] = None
          \/ rows[i] # None /\ rows'[i] = fails
          \/ rows[i] # None /\ rows'[i] = rows[i] /\ used'["fault"] = used["fault"] + 1
      BY <1>1, <2>1, <2>3, <2>10, <3>1, MutateFact
    <3>4. rows[i] # None => Known(fails, x) = 1 /\ fails # None
      BY <2>3, <2>10 DEF Known
    <3>5. \A row, at : Known(row, at) \in {0, 1}
      BY <1>1, SpareTypes
    <3>6. AckPaid(i)'
      <4>1. Known(rows'[i], x) >= Known(rows[i], x)
        BY <3>3, <3>4, <3>5
      <4> QED BY <1>1, <1>2, <2>10, <3>1, <3>2, <3>5, <4>1 DEF Paid, AckPaid
    <3>7. SnapPaid(i)'
      BY <1>1, <1>2, <2>4, <3>1, <3>2 DEF Paid, SnapPaid, Unacked
    <3>8. GonePaid(i)'
      BY <1>1, <1>2, <2>4, <2>7, <3>1, <3>2 DEF Paid, GonePaid, Unacked
    <3>9. ReportPaid(i)'
      <4>1. SUFFICES ASSUME Unacked(i)
                     PROVE  acked[i].n + 1 <= Spare(i)' + Known(rows'[i], x)
        BY <2>1, <2>4, <2>10, <3>1 DEF ReportPaid, Unacked
      <4>2. acked[i].n <= Spare(i)
        BY <1>1, <2>1, <2>10, <4>1 DEF Paid, SnapPaid
      <4>3. rows[i] = None => acked[i].n + 1 <= Spare(i)
        BY <1>1, <2>1, <2>10, <4>1 DEF Paid, GonePaid
      <4> QED BY <1>2, <3>2, <3>3, <3>4, <3>5, <4>2, <4>3
    <3> QED BY <3>6, <3>7, <3>8, <3>9 DEF Paid
  <2> QED BY <2>8, <2>9, <2>10
<1>7. CASE Report
  <2> DEFINE j == runner.id
  <2>1. /\ j \in Ids /\ Snap = runner.snap[j] /\ runner' = Served(runner, j)
        /\ UNCHANGED <<rows, used>>
        /\ acked' = IF runner.result = "failure" /\ ~AlreadyAcked(Snap)
                    THEN [acked EXCEPT ![j].at = Snap.next, ![j].n = @ + 1] ELSE acked
    BY <1>1, <1>7 DEF Report, TypeInv, RunnerType, Busy, Snap, storeV
  <2>2. /\ runner'.step # "report"
        /\ runner'.snap[i] = None \/ (i # j /\ runner'.snap[i] = runner.snap[i])
    BY <1>1, <2>1, ServedFact
  <2>3. acked'[i].gone = acked[i].gone /\ (i # j => acked'[i] = acked[i])
    BY <1>1, <2>1 DEF TypeInv, GhostType
  <2>4. RowKept(i) /\ Spare(i)' = Spare(i)
    BY <1>1, <1>2, <2>1, <2>3, SpareTypes DEF RowKept
  <2>5. CASE acked'[i] = acked[i]
    BY <1>1, <1>2, <2>2, <2>4, <2>5, QuietStep DEF Reporting
  <2>6. CASE i = j /\ runner.result = "failure" /\ ~AlreadyAcked(Snap)
    <3>1. acked'[i].at = Snap.next /\ acked'[i].n = acked[i].n + 1
      BY <1>1, <2>1, <2>6 DEF TypeInv, GhostType
    <3>2. Unacked(i) /\ Reporting(i)
      BY <1>1, <1>7, <2>1, <2>6 DEF Report, Unacked, Reporting, TypeInv, RunnerType, Busy
    <3>3. acked[i].n + 1 <= Spare(i) + Known(rows[i], Snap.next)
      BY <1>1, <2>1, <2>6, <3>2 DEF Paid, ReportPaid
    <3>4. AckPaid(i)'
      BY <2>1, <2>4, <3>1, <3>3 DEF AckPaid
    <3>5. ~Unacked(i)'
      BY <2>2, <2>6 DEF Unacked
    <3> QED BY <3>4, <3>5 DEF Paid, SnapPaid, GonePaid, ReportPaid
  <2> QED BY <2>1, <2>3, <2>5, <2>6
<1> QED BY <1>3, <1>4, <1>5, <1>6, <1>7 DEF Ticker

-----------------------------------------------------------------------------
(* What Run now, the syncs and the world cost.                             *)
LEMMA SameRows ==
  ASSUME TypeInv, NEW i \in Ids, UNCHANGED rows
  PROVE  RowKept(i)
BY SpareTypes DEF RowKept

LEMMA ButtonPaid ==
  ASSUME AckInv, TypeInv', Button
  PROVE  PendingPaid' /\ ListIsFresh' /\ \A i \in Ids : Paid(i)'
<1>1. TypeInv /\ PendingPaid /\ ListIsFresh /\ \A i \in Ids : Paid(i)
  BY DEF AckInv
<1>2. UNCHANGED <<runner, syncs, acked>>
  BY DEF Button, RunNow, RunSend, RunRecord, ghostV
<1>3. /\ ZonePending' = ZonePending /\ ListIsFresh'
      /\ \A i \in Ids : (Reporting(i)' => Reporting(i))
  BY <1>1, <1>2 DEF ZonePending, ListIsFresh, Reporting
<1>4. /\ used["fault"] \in Nat /\ used["run"] \in Nat /\ used["zone"] \in Nat
      /\ ZonePending \in {0, 1}
      /\ \A i \in Ids : acked[i].gone \in Nat /\ acked'[i].gone = acked[i].gone
  BY <1>1, <1>2, SpareTypes DEF TypeInv, UsedType, Kinds, GhostType, ZonePending
<1>5. ASSUME NEW j \in Ids, RunNow(j) PROVE PendingPaid' /\ \A i \in Ids : Paid(i)'
  <2>1. /\ RunPending = 0 /\ RunPending' = 1 /\ used'["run"] = used["run"] + 1
        /\ used'["zone"] = used["zone"] /\ used'["fault"] = used["fault"] /\ UNCHANGED rows
    BY <1>1, <1>5, SpendFact DEF RunNow, RunPending, Kinds, storeV
  <2>2. ASSUME NEW i \in Ids PROVE Paid(i)'
    <3>1. Spare(i)' = Spare(i)
      BY <1>3, <1>4, <2>1 DEF Spare
    <3>2. Spare(i) \in Int /\ RowKept(i)
      BY <1>1, <2>1, SpareTypes, SameRows
    <3> QED BY <1>1, <1>2, <1>3, <1>4, <3>1, <3>2, QuietStep
  <2> QED BY <1>1, <1>3, <1>4, <2>1, <2>2 DEF PendingPaid
<1>6. CASE RunSend
  <2>1. /\ RunPending' = RunPending /\ used'["run"] = used["run"]
        /\ used'["zone"] = used["zone"] /\ used'["fault"] = used["fault"] /\ UNCHANGED rows
    <3>1. manual.step # "idle" /\ manual'.step # "idle"
      BY <1>1, <1>6 DEF RunSend, TypeInv, ManualType
    <3>2. UNCHANGED rows /\ (UNCHANGED used \/ Spend("failure"))
      BY <1>6 DEF RunSend, storeV
    <3> QED BY <1>1, <3>1, <3>2, SpendFact DEF RunPending, Kinds
  <2>2. ASSUME NEW i \in Ids PROVE Paid(i)'
    <3>1. Spare(i)' = Spare(i)
      BY <1>3, <1>4, <2>1 DEF Spare
    <3>2. Spare(i) \in Int /\ RowKept(i)
      BY <1>1, <2>1, SpareTypes, SameRows
    <3> QED BY <1>1, <1>2, <1>3, <1>4, <3>1, <3>2, QuietStep
  <2> QED BY <1>1, <1>3, <2>1, <2>2 DEF PendingPaid
<1>7. CASE RunRecord
  <2> DEFINE j == manual.id
             row == [rows[j] EXCEPT !.status = manual.result]
  <2>1. RunPending = 1 /\ RunPending' = 0 /\ Mutate(j, row) /\ j \in Ids
    BY <1>1, <1>7 DEF RunRecord, RunPending, Idle, TypeInv, ManualType
  <2>2. /\ used'["run"] = used["run"] /\ used'["zone"] = used["zone"]
        /\ used'["fault"] \in {used["fault"], used["fault"] + 1}
    BY <1>1, <2>1, MutateCost
  <2>3. rows[j] # None => row # None
    <3>1. rows[j] # None => rows[j] \in Row
      BY <1>1, <2>1 DEF TypeInv, StoreType, Rows
    <3>2. manual.result \in Results
      BY <1>1 DEF TypeInv, ManualType
    <3> QED BY <3>1, <3>2, RowFields, NoneAssumption
  <2> HIDE DEF row
  <2>4. ASSUME NEW i \in Ids PROVE Paid(i)'
    <3>1. Spare(i)' >= Spare(i) + 1
      BY <1>3, <1>4, <2>1, <2>2 DEF Spare
    <3>2. rows'[i] = None => rows[i] = None
      BY <1>1, <2>1, <2>3, MutateFact
    <3> QED BY <1>1, <1>2, <1>3, <1>4, <3>1, <3>2, QuietStep
  <2> QED BY <1>1, <1>3, <1>4, <2>1, <2>2, <2>4 DEF PendingPaid
<1> QED BY <1>3, <1>5, <1>6, <1>7 DEF Button

LEMMA WorldPaid ==
  ASSUME AckInv, TypeInv', World
  PROVE  PendingPaid' /\ ListIsFresh' /\ \A i \in Ids : Paid(i)'
<1>1. TypeInv /\ PendingPaid /\ ListIsFresh /\ \A i \in Ids : Paid(i)
  BY DEF AckInv
<1>2. UNCHANGED <<rows, acked>>
  BY DEF World, Advance, UserTurn, TurnEnds, ConnectorChanges, Crash, storeV, ghostV
<1>3. /\ used["fault"] \in Nat /\ used["run"] \in Nat /\ used["zone"] \in Nat
      /\ used'["fault"] = used["fault"] /\ used'["run"] = used["run"]
      /\ used'["zone"] = used["zone"]
      /\ \A i \in Ids : acked[i].gone \in Nat /\ acked'[i].gone = acked[i].gone
      /\ ZonePending \in {0, 1} /\ RunPending \in {0, 1}
  <2>1. UNCHANGED used \/ Spend("user") \/ Spend("connector") \/ Spend("crash")
    BY DEF World, Advance, UserTurn, TurnEnds, ConnectorChanges, Crash
  <2> QED BY <1>1, <1>2, <2>1, SpendFact DEF TypeInv, UsedType, Kinds, GhostType,
        ZonePending, RunPending
<1>4. CASE Crash
  <2>1. ZonePending' = 0 /\ RunPending' = 0 /\ runner' = IdleRunner /\ syncs'["mqtt"] = IdleSync
    BY <1>1, <1>4 DEF Crash, ZonePending, RunPending, Idle, IdleSync, TypeInv, SyncsType
  <2>2. PendingPaid' /\ ListIsFresh'
    BY <1>3, <2>1 DEF PendingPaid, ListIsFresh, IdleSync
  <2>3. ASSUME NEW i \in Ids PROVE Paid(i)'
    <3>1. Spare(i)' >= Spare(i)
      BY <1>3, <2>1 DEF Spare
    <3>2. RowKept(i) /\ runner'.snap[i] = None /\ ~Reporting(i)'
      BY <1>1, <1>2, <2>1, SameRows DEF IdleRunner, NoRows, Reporting
    <3> QED BY <1>1, <1>2, <3>1, <3>2, QuietStep, <1>3
  <2> QED BY <2>2, <2>3
<1>5. CASE ~Crash
  <2>1. UNCHANGED <<runner, manual, syncs>>
    BY <1>5 DEF World, Advance, UserTurn, TurnEnds, ConnectorChanges, procV
  <2>2. ZonePending' = ZonePending /\ RunPending' = RunPending
    BY <2>1 DEF ZonePending, RunPending
  <2>3. PendingPaid' /\ ListIsFresh'
    BY <1>1, <1>3, <2>1, <2>2 DEF PendingPaid, ListIsFresh
  <2>4. ASSUME NEW i \in Ids PROVE Paid(i)'
    <3>1. Spare(i)' = Spare(i) /\ Spare(i) \in Int
      BY <1>1, <1>2, <1>3, <2>2, SpareTypes DEF Spare
    <3>2. RowKept(i) /\ (Reporting(i)' => Reporting(i))
      BY <1>1, <1>2, <2>1, SameRows DEF Reporting
    <3> QED BY <1>1, <1>2, <1>3, <2>1, <3>1, <3>2, QuietStep
  <2> QED BY <2>3, <2>4
<1> QED BY <1>4, <1>5

(* The list a sync brings keeps what the rows of its tasks know. *)
LEMMA CarriedKeeps ==
  ASSUME TypeInv, NEW i \in Ids, NEW next \in Rows, next[i] # None, Fresh(next[i]),
         rows' = Carried(next, rows)
  PROVE  RowKept(i)
<1> DEFINE row == [next[i] EXCEPT
                     !.status = IF @ = "none" THEN rows[i].status ELSE @,
                     !.failed = IF @ = Never THEN rows[i].failed ELSE @]
<1>1. next[i] \in Row /\ rows[i] \in Row \cup {None} /\ rows \in Rows
  BY DEF Rows, TypeInv, StoreType
<1>2. rows'[i] = IF rows[i] = None THEN next[i] ELSE row
  BY DEF Carried
<1>3. CASE rows[i] = None
  <2>1. \A at : Known(rows[i], at) = 0 /\ Known(rows'[i], at) \in {0, 1}
    BY <1>3 DEF Known
  <2> QED BY <1>2, <1>3, <2>1 DEF RowKept
<1>4. CASE rows[i] # None
  <2>1. /\ row \in Row /\ row.status = rows[i].status /\ row.failed = rows[i].failed
    BY <1>1, <1>4 DEF Row, Fresh
  <2> HIDE DEF row
  <2>2. row # None
    BY <2>1, NoneAssumption
  <2>3. \A at : Known(row, at) = Known(rows[i], at)
    BY <1>4, <2>1, <2>2 DEF Known
  <2>4. rows'[i] = row /\ \A at : Known(rows[i], at) \in {0, 1}
    BY <1>2, <1>4 DEF Known
  <2> QED BY <2>2, <2>3, <2>4 DEF RowKept
<1> QED BY <1>3, <1>4

(* How a step of a sync moves the account, and the lists. *)
LEMMA SyncStepPaid ==
  ASSUME AckInv, TypeInv', UNCHANGED <<runner, manual>>,
         NEW i \in Ids, acked'[i].n = acked[i].n, acked'[i].at = acked[i].at,
         acked'[i].gone \in {acked[i].gone, acked[i].gone + 1},
         used'["run"] = used["run"],
         used'["fault"] \in {used["fault"], used["fault"] + 1},
         used'["zone"] - ZonePending' \in
           {used["zone"] - ZonePending, used["zone"] - ZonePending + 1},
         \/ RowKept(i)
         \/ acked'[i].gone = acked[i].gone + 1
         \/ /\ used'["zone"] - ZonePending' = used["zone"] - ZonePending + 1
            /\ rows'[i] = None => rows[i] = None
  PROVE  Paid(i)'
<1>1. TypeInv /\ Paid(i) /\ (Reporting(i)' => Reporting(i)) /\ RunPending' = RunPending
  BY DEF AckInv, Reporting, RunPending
<1>2. /\ used["fault"] \in Nat /\ used["run"] \in Nat /\ used["zone"] \in Nat
      /\ acked[i].gone \in Nat /\ ZonePending \in {0, 1} /\ ZonePending' \in {0, 1}
      /\ RunPending \in {0, 1} /\ used'["zone"] \in Nat /\ used'["fault"] \in Nat
      /\ acked'[i].gone \in Nat
  BY <1>1, SpareTypes DEF TypeInv, UsedType, Kinds, ZonePending, GhostType
<1> DEFINE g == acked[i].gone
           f == used["fault"]
           r == used["run"] - RunPending
           z == used["zone"] - ZonePending
           h == acked'[i].gone
           e == used'["fault"]
           y == used'["zone"] - ZonePending'
<1>3. /\ g \in Nat /\ f \in Nat /\ r \in Int /\ z \in Int
      /\ h \in {g, g + 1} /\ e \in {f, f + 1} /\ y \in {z, z + 1}
      /\ Spare(i) = g + f + r + z /\ Spare(i)' = h + e + r + y
  BY <1>1, <1>2 DEF Spare
<1>4. /\ \/ RowKept(i)
         \/ h = g + 1
         \/ y = z + 1 /\ (rows'[i] = None => rows[i] = None)
  OBVIOUS
<1> HIDE DEF g, f, r, z, h, e, y
<1>5. Spare(i)' >= Spare(i) /\ h >= g
  BY <1>3
<1>6. h = g + 1 => Spare(i)' >= Spare(i) + 1 /\ h >= 1
  BY <1>3
<1>7. y = z + 1 => Spare(i)' >= Spare(i) + 1
  BY <1>3
<1>8. CASE RowKept(i)
  BY <1>1, <1>5, <1>8, QuietStep DEF g, h
<1>9. CASE h = g + 1
  BY <1>1, <1>5, <1>6, <1>9, QuietStep DEF g, h
<1>10. CASE y = z + 1 /\ (rows'[i] = None => rows[i] = None)
  BY <1>1, <1>5, <1>7, <1>10, QuietStep DEF g, h
<1> QED BY <1>4, <1>8, <1>9, <1>10

LEMMA DownlinkPaid ==
  ASSUME AckInv, TypeInv', Downlink
  PROVE  PendingPaid' /\ ListIsFresh' /\ \A i \in Ids : Paid(i)'
<1>1. TypeInv /\ PendingPaid /\ ListIsFresh /\ \A i \in Ids : Paid(i)
  BY DEF AckInv
<1>2. /\ DOMAIN syncs = {"mqtt", "zone"}
      /\ syncs["mqtt"] \in SyncRecord /\ syncs["zone"] \in SyncRecord
      /\ rows \in Rows /\ zone \in Zones \cup {0}
  BY <1>1 DEF TypeInv, SyncsType, StoreType
<1>3. UNCHANGED <<runner, manual>> /\ RunPending' = RunPending
  BY DEF Downlink, ZoneLoad, MqttSync, ZoneSet, Replace, Seed, RunPending
<1>4. /\ used["fault"] \in Nat /\ used["run"] \in Nat /\ used["zone"] \in Nat
      /\ ZonePending \in {0, 1} /\ ZonePending' \in {0, 1} /\ RunPending \in {0, 1}
  BY <1>1 DEF TypeInv, UsedType, Kinds, ZonePending, RunPending
<1>5. ASSUME NEW l \in Lists, NEW z \in Zones, MqttSync(l, z)
      PROVE  PendingPaid' /\ ListIsFresh' /\ \A i \in Ids : Paid(i)'
  <2>1. /\ syncs'["zone"] = syncs["zone"] /\ syncs'["mqtt"].list = l
        /\ UNCHANGED <<rows, acked>>
        /\ used'["fault"] = used["fault"] /\ used'["run"] = used["run"]
        /\ used'["zone"] = used["zone"]
    BY <1>1, <1>2, <1>5, SpendFact DEF MqttSync, IdleSync, Kinds, storeV, ghostV
  <2>2. ZonePending' = ZonePending /\ ListIsFresh'
    BY <2>1, ListsAssumption DEF ZonePending, ListIsFresh
  <2> QED BY <1>1, <1>3, <1>4, <2>1, <2>2, SameRows, SyncStepPaid DEF PendingPaid
<1>6. ASSUME NEW z \in Zones, ZoneSet(z)
      PROVE  PendingPaid' /\ ListIsFresh' /\ \A i \in Ids : Paid(i)'
  <2>1. /\ syncs'["mqtt"] = syncs["mqtt"] /\ ZonePending = 0 /\ ZonePending' = 1
        /\ UNCHANGED <<rows, acked>>
        /\ used'["fault"] = used["fault"] /\ used'["run"] = used["run"]
        /\ used'["zone"] = used["zone"] + 1
    BY <1>1, <1>2, <1>6, SpendFact DEF ZoneSet, IdleSync, Kinds, ghostV, ZonePending
  <2>2. PendingPaid' /\ ListIsFresh'
    BY <1>1, <1>3, <1>4, <2>1 DEF PendingPaid, ListIsFresh
  <2> QED BY <1>1, <1>3, <1>4, <2>1, <2>2, SameRows, SyncStepPaid
<1>7. CASE ZoneLoad
  <2>1. /\ syncs'["mqtt"] = syncs["mqtt"] /\ ZonePending = 1
        /\ UNCHANGED <<rows, acked, used>>
    BY <1>2, <1>7 DEF ZoneLoad, storeV, ghostV, ZonePending
  <2>2. PendingPaid' /\ ListIsFresh'
    BY <1>1, <1>3, <1>4, <2>1 DEF PendingPaid, ListIsFresh
  <2> QED BY <1>1, <1>3, <1>4, <2>1, <2>2, SameRows, SyncStepPaid
<1>8. ASSUME NEW p \in DOMAIN syncs, NEW j \in Ids, Seed(p, j)
      PROVE  PendingPaid' /\ ListIsFresh' /\ \A i \in Ids : Paid(i)'
  <2>1. p \in {"mqtt", "zone"} /\ syncs[p].step = "seed" /\ j \in syncs[p].todo
        /\ SetNextRun(j, FirstRun(syncs[p], j)) /\ UNCHANGED acked
    BY <1>2, <1>8 DEF Seed, ghostV
  <2>2. /\ syncs'[p].step \in {"idle", "seed"}
        /\ \A q \in {"mqtt", "zone"} \ {p} : syncs'[q] = syncs[q]
    BY <1>2, <1>8, <2>1 DEF Seed, IdleSync, SyncRecord
  <2>3. FirstRun(syncs[p], j) \in Time
    BY <1>1, <2>1, FirstRuns
  <2>4. /\ \A i \in Ids : RowKept(i)
        /\ used'["run"] = used["run"] /\ used'["zone"] = used["zone"]
        /\ used'["fault"] \in {used["fault"], used["fault"] + 1}
    BY <1>1, <2>1, <2>3, SetNextRunFact
  <2>5. ZonePending' = ZonePending /\ ListIsFresh'
    BY <1>1, <2>1, <2>2 DEF ZonePending, ListIsFresh
  <2> QED BY <1>1, <1>3, <1>4, <2>1, <2>4, <2>5, SyncStepPaid DEF PendingPaid
<1>9. ASSUME NEW p \in DOMAIN syncs, Replace(p)
      PROVE  PendingPaid' /\ ListIsFresh' /\ \A i \in Ids : Paid(i)'
  <2> DEFINE s == syncs[p]
  <2>1. p \in {"mqtt", "zone"} /\ s \in SyncRecord /\ s.step = "replace"
    BY <1>2, <1>9 DEF Replace
  <2>2. /\ syncs'[p].step \in {"idle", "seed"}
        /\ \A q \in {"mqtt", "zone"} \ {p} : syncs'[q] = syncs[q]
    <3>1. \/ syncs' = [syncs EXCEPT ![p] = IdleSync]
          \/ \E todo : syncs' = [syncs EXCEPT ![p] = [s EXCEPT !.step = "seed", !.todo = todo]]
      BY <1>9 DEF Replace
    <3>2. IdleSync.step = "idle"
      BY DEF IdleSync
    <3>3. \A todo : [s EXCEPT !.step = "seed", !.todo = todo].step = "seed"
      BY <2>1 DEF SyncRecord
    <3>4. syncs \in [{"mqtt", "zone"} -> SyncRecord]
      BY <1>1 DEF TypeInv, SyncsType
    <3> QED BY <2>1, <3>1, <3>2, <3>3, <3>4
  <2>3. /\ p = "mqtt" => ZonePending' = ZonePending
        /\ p = "zone" => ZonePending = 1 /\ ZonePending' = 0
        /\ ListIsFresh'
    BY <1>1, <2>1, <2>2 DEF ZonePending, ListIsFresh
  <2>4. CASE Spend("fault") /\ UNCHANGED <<storeV, acked>>
    <3>1. /\ UNCHANGED <<rows, acked>> /\ used'["fault"] = used["fault"] + 1
          /\ used'["run"] = used["run"] /\ used'["zone"] = used["zone"]
      BY <1>1, <2>4, SpendFact DEF storeV, Kinds
    <3> QED BY <1>1, <1>3, <1>4, <2>1, <2>3, <3>1, SameRows, SyncStepPaid DEF PendingPaid
  <2>5. CASE /\ rows' = Carried(s.list, rows) /\ UNCHANGED used
             /\ acked' = [i \in Ids |-> IF rows[i] # None /\ s.list[i] = None
                                       THEN [acked[i] EXCEPT !.gone = @ + 1] ELSE acked[i]]
    <3>1. PendingPaid'
      BY <1>1, <1>3, <1>4, <2>1, <2>3, <2>5 DEF PendingPaid
    <3>2. ASSUME NEW i \in Ids PROVE Paid(i)'
      <4>1. /\ acked'[i].n = acked[i].n /\ acked'[i].at = acked[i].at
            /\ acked'[i].gone = IF rows[i] # None /\ s.list[i] = None THEN acked[i].gone + 1
                                ELSE acked[i].gone
        BY <1>1, <2>5 DEF TypeInv, GhostType
      <4>2. s.list \in Rows /\ (rows'[i] = None => s.list[i] = None)
        <5>1. s.list \in Rows
          BY <2>1 DEF SyncRecord
        <5>2. s.list[i] # None => rows'[i] # None
          <6>1. /\ rows \in Rows
                /\ rows'[i] = IF s.list[i] = None \/ rows[i] = None THEN s.list[i]
                              ELSE [s.list[i] EXCEPT
                                     !.status = IF @ = "none" THEN rows[i].status ELSE @,
                                     !.failed = IF @ = Never THEN rows[i].failed ELSE @]
            BY <1>2, <2>5 DEF Carried
          <6>2. s.list[i] \in Row /\ rows[i] \in Row =>
                  [s.list[i] EXCEPT
                     !.status = IF @ = "none" THEN rows[i].status ELSE @,
                     !.failed = IF @ = Never THEN rows[i].failed ELSE @] \in Row
            BY DEF Row
          <6> QED BY <5>1, <6>1, <6>2, NoneAssumption DEF Rows
        <5> QED BY <5>1, <5>2
      <4>3. CASE p = "zone"
        BY <1>1, <1>3, <1>4, <2>3, <2>5, <4>1, <4>2, <4>3, SyncStepPaid
      <4>4. CASE p = "mqtt" /\ s.list[i] # None
        <5>1. Fresh(s.list[i])
          BY <1>1, <2>1, <4>4 DEF ListIsFresh
        <5>2. RowKept(i)
          BY <1>1, <2>5, <4>2, <4>4, <5>1, CarriedKeeps
        <5> QED BY <1>1, <1>3, <1>4, <2>3, <2>5, <4>1, <4>4, <5>2, SyncStepPaid
      <4>5. CASE p = "mqtt" /\ s.list[i] = None /\ rows[i] = None
        <5>1. rows'[i] = None
          BY <2>5, <4>5 DEF Carried
        <5>2. RowKept(i)
          BY <4>5, <5>1 DEF RowKept, Known
        <5> QED BY <1>1, <1>3, <1>4, <2>3, <2>5, <4>1, <4>5, <5>2, SyncStepPaid
      <4>6. CASE p = "mqtt" /\ s.list[i] = None /\ rows[i] # None
        BY <1>1, <1>3, <1>4, <2>3, <2>5, <4>1, <4>6, SyncStepPaid
      <4> QED BY <2>1, <4>3, <4>4, <4>5, <4>6
    <3> QED BY <2>3, <3>1, <3>2
  <2> QED BY <1>9, <2>4, <2>5 DEF Replace
<1> QED BY <1>5, <1>6, <1>7, <1>8, <1>9 DEF Downlink

LEMMA AckInvInit == Init => AckInv
<1> SUFFICES ASSUME Init PROVE AckInv
  OBVIOUS
<1>1. TypeInv
  BY TypeInvInit
<1>2. PendingPaid
  BY DEF Init, PendingPaid, ZonePending, RunPending, Idle, IdleSync, Kinds
<1>3. ListIsFresh
  BY DEF Init, ListIsFresh, IdleSync
<1>4. ASSUME NEW i \in Ids PROVE Paid(i)
  BY DEF Init, Paid, AckPaid, SnapPaid, GonePaid, ReportPaid, Unacked, IdleRunner, NoRows,
     NoAck
<1> QED BY <1>1, <1>2, <1>3, <1>4 DEF AckInv

LEMMA AckInvStep == AckInv /\ [Next]_vars => AckInv'
<1> SUFFICES ASSUME AckInv, [Next]_vars PROVE AckInv'
  OBVIOUS
<1>1. TypeInv'
  BY TypeInvStep DEF AckInv
<1>2. CASE UNCHANGED vars
  BY <1>1, <1>2 DEF vars, storeV, procV, ghostV, AckInv, PendingPaid, ListIsFresh, Paid,
     AckPaid, SnapPaid, GonePaid, ReportPaid, Unacked, Reporting, Spare, ZonePending,
     RunPending
<1>3. CASE Ticker
  <2>1. PendingPaid' /\ ListIsFresh'
    <3>1. TypeInv /\ PendingPaid /\ ListIsFresh
      BY DEF AckInv
    <3>2. /\ UNCHANGED <<manual, syncs>>
          /\ used'["run"] = used["run"] /\ used'["zone"] = used["zone"]
      BY <1>3, <3>1, TickerCost
    <3> QED BY <3>1, <3>2 DEF PendingPaid, ListIsFresh, ZonePending, RunPending
  <2> QED BY <1>1, <1>3, <2>1, TickerPaid DEF AckInv
<1>4. CASE Button \/ Downlink \/ World
  BY <1>1, <1>4, ButtonPaid, DownlinkPaid, WorldPaid DEF AckInv
<1> QED BY <1>2, <1>3, <1>4 DEF Next

LEMMA AckInvPays == AckInv => FailureAckedOnce
<1> SUFFICES ASSUME AckInv, NEW i \in Ids
             PROVE  acked[i].n <= 1 + acked[i].gone + used["fault"] + used["run"] + used["zone"]
  BY DEF FailureAckedOnce
<1>1. TypeInv /\ PendingPaid /\ AckPaid(i)
  BY DEF AckInv, Paid
<1> QED BY <1>1, SpareTypes DEF AckPaid, Spare, PendingPaid

(* A failure is acked once per occurrence (Runner.fire, AlreadyAcked),     *)
(* for any cadences, lists and numbers of retries, syncs, restarts and     *)
(* user turns; only a failed write, a "Run now", a change of zone or a     *)
(* deletion of the task buys one more.                                     *)
THEOREM FailureAckedOnceAlways == Spec => []FailureAckedOnce
BY AckInvInit, AckInvStep, AckInvPays, PTL DEF Spec

-----------------------------------------------------------------------------
(***************************************************************************)
(* An occurrence is sent once per list.  A pass is a sequence of ever      *)
(* later occurrences of a task; the row's next run is where one stands,    *)
(* and a snapshot of the ticker that has parted from its row is another.   *)
(* What is paid for are the passes: a sync and a change of zone begin new  *)
(* ones, and a restart or a failed write sends one back by an occurrence.  *)
(***************************************************************************)
Cost == used["sync"] + used["crash"] + used["fault"] + 2 * used["zone"]

Done(i) == runner.step = "report" /\ runner.id = i
Sent(i) == runner.step = "record" /\ runner.id = i /\ runner.result = "success"

(* Whether an occurrence is still ahead of the row, or of the snapshot. *)
RowCan(i, at) ==
  IF rows[i] # None /\ rows[i].next # Never /\ rows[i].next <= at THEN 1 ELSE 0

SnapCan(i, at) ==
  IF /\ runner.snap[i] # None /\ ~Done(i)
     /\ runner.snap[i].next < at \/ (runner.snap[i].next = at /\ ~Sent(i))
  THEN 1 ELSE 0

(* Row and snapshot stand at the same occurrence: they are one pass. *)
Shared(i) ==
  /\ runner.snap[i] # None /\ ~Done(i)
  /\ rows[i] # None /\ rows[i].next = runner.snap[i].next

Can(i, at) == IF Shared(i) THEN SnapCan(i, at) ELSE RowCan(i, at) + SnapCan(i, at)

MqttCan(i) ==
  IF \/ syncs["mqtt"].step = "replace"
     \/ syncs["mqtt"].step = "seed" /\ i \in syncs["mqtt"].todo
  THEN 1 ELSE 0

ZoneCan(i) ==
  IF syncs["zone"].step \in {"load", "replace"} THEN 2
  ELSE IF syncs["zone"].step = "seed" /\ i \in syncs["zone"].todo THEN 1 ELSE 0

FirePaid(i, at) == fired[i][at] + Can(i, at) + MqttCan(i) + ZoneCan(i) <= Cost

FireInv == AckInv /\ \A i \in Ids, at \in Instants : FirePaid(i, at)

CanBound(i, at) ==
  /\ RowCan(i, at) \in {0, 1} /\ SnapCan(i, at) \in {0, 1}
  /\ Can(i, at) \in {0, 1, 2}
  /\ Can(i, at) >= SnapCan(i, at) /\ Can(i, at) <= RowCan(i, at) + SnapCan(i, at)
  /\ ~Sent(i) => Can(i, at) >= RowCan(i, at)

LEMMA CanBounds == TypeInv => \A i \in Ids, at \in Instants : CanBound(i, at)
<1> SUFFICES ASSUME TypeInv, NEW i \in Ids, NEW at \in Instants PROVE CanBound(i, at)
  OBVIOUS
<1>1. RowCan(i, at) \in {0, 1} /\ SnapCan(i, at) \in {0, 1}
  BY DEF RowCan, SnapCan
<1>2. /\ Can(i, at) \in {0, 1, 2}
      /\ Can(i, at) >= SnapCan(i, at) /\ Can(i, at) <= RowCan(i, at) + SnapCan(i, at)
  BY <1>1 DEF Can
<1>3. ASSUME ~Sent(i), Shared(i) PROVE SnapCan(i, at) >= RowCan(i, at)
  <2>1. runner.snap[i].next \in Int /\ at \in Int
    BY <1>3, SnapType DEF Shared, TypeInv, Instants
  <2> QED BY <1>1, <1>3, <2>1 DEF Shared, SnapCan, RowCan
<1> QED BY <1>1, <1>2, <1>3 DEF CanBound, Can

LEMMA CanBoundsNext ==
  ASSUME TypeInv' PROVE \A i \in Ids, at \in Instants : CanBound(i, at)'
<1>1. (\A i \in Ids, at \in Instants : CanBound(i, at))'
  BY CanBounds, PTL
<1> QED BY <1>1 DEF Instants

LEMMA CostTypes ==
  ASSUME TypeInv, NEW i \in Ids, NEW at \in Instants
  PROVE  /\ \A x \in {"sync", "crash", "fault", "zone"} : used[x] \in Nat
         /\ fired[i][at] \in Nat /\ MqttCan(i) \in {0, 1} /\ ZoneCan(i) \in {0, 1, 2}
         /\ Cost \in Nat
<1>1. \A x \in {"sync", "crash", "fault", "zone"} : used[x] \in Nat
  BY DEF TypeInv, UsedType, Kinds
<1>2. fired[i][at] \in Nat
  BY DEF TypeInv, GhostType
<1>3. MqttCan(i) \in {0, 1} /\ ZoneCan(i) \in {0, 1, 2}
  BY DEF MqttCan, ZoneCan
<1> QED BY <1>1, <1>2, <1>3 DEF Cost

-----------------------------------------------------------------------------
(* How steps move a pass.                                                  *)
SameNext(i) ==
  /\ rows'[i] = None <=> rows[i] = None
  /\ rows[i] # None => rows'[i].next = rows[i].next

LEMMA NothingMoves ==
  ASSUME NEW i \in Ids, NEW at \in Instants, SameNext(i), runner'.snap[i] = runner.snap[i],
         Done(i)' <=> Done(i), Sent(i)' <=> Sent(i)
  PROVE  Can(i, at)' = Can(i, at)
BY DEF SameNext, Can, Shared, RowCan, SnapCan

(* The ticker lets go of a row that it has not sent. *)
LEMMA SnapDropped ==
  ASSUME TypeInv, NEW i \in Ids, NEW at \in Instants, SameNext(i), ~Sent(i),
         runner'.snap[i] = None \/ Done(i)'
  PROVE  Can(i, at)' <= Can(i, at)
<1>1. CanBound(i, at)
  BY CanBounds
<1>2. Can(i, at)' = RowCan(i, at)
  <2>1. RowCan(i, at)' = RowCan(i, at)
    BY DEF SameNext, RowCan
  <2>2. SnapCan(i, at)' = 0 /\ ~Shared(i)'
    BY DEF SnapCan, Shared
  <2> QED BY <1>1, <2>1, <2>2 DEF Can, CanBound
<1> QED BY <1>1, <1>2 DEF CanBound

(* The ticker moves the row past the occurrence it has served. *)
LEMMA RowMoved ==
  ASSUME TypeInv, NEW i \in Ids, NEW at \in Instants, runner.snap[i] # None, ~Done(i),
         runner'.snap[i] = None \/ Done(i)',
         \/ rows'[i] = None
         \/ rows'[i].next = Never
         \/ rows'[i].next \in Int /\ rows'[i].next > runner.snap[i].next
  PROVE  Can(i, at)' <= Can(i, at)
<1>1. CanBound(i, at) /\ runner.snap[i].next \in Int /\ at \in Int
  BY CanBounds, SnapType DEF TypeInv, Instants
<1>2. Can(i, at)' = RowCan(i, at)'
  <2>1. SnapCan(i, at)' = 0 /\ ~Shared(i)' /\ RowCan(i, at)' \in {0, 1}
    BY DEF SnapCan, Shared, RowCan
  <2> QED BY <2>1 DEF Can
<1>3. RowCan(i, at)' <= SnapCan(i, at)
  BY <1>1 DEF RowCan, SnapCan
<1> QED BY <1>1, <1>2, <1>3 DEF CanBound, RowCan, SnapCan

(* A sync moves the row wherever it likes: one more pass. *)
LEMMA RowReplaced ==
  ASSUME TypeInv, TypeInv', NEW i \in Ids, NEW at \in Instants, UNCHANGED runner
  PROVE  /\ Can(i, at)' <= Can(i, at) + 1
         /\ rows'[i] = None \/ rows'[i].next = Never => Can(i, at)' <= Can(i, at)
<1>1. CanBound(i, at) /\ CanBound(i, at)'
  BY CanBounds, CanBoundsNext
<1>2. SnapCan(i, at)' = SnapCan(i, at)
  BY DEF SnapCan, Done, Sent
<1>3. rows'[i] = None \/ rows'[i].next = Never => RowCan(i, at)' = 0
  BY DEF RowCan
<1> QED BY <1>1, <1>2, <1>3 DEF CanBound

(* What a write of one row does to the next runs. *)
LEMMA MutateNext ==
  ASSUME TypeInv, NEW i \in Ids, NEW j \in Ids, NEW row, Mutate(j, row),
         rows[j] # None => row # None
  PROVE  /\ i # j => SameNext(i)
         /\ \/ UNCHANGED used /\ rows[j] = None /\ rows'[j] = None
            \/ UNCHANGED used /\ rows[j] # None /\ rows'[j] = row
            \/ SameNext(i) /\ used'["fault"] = used["fault"] + 1
<1>1. rows \in [Ids -> Row \cup {None}]
  BY DEF TypeInv, StoreType, Rows
<1>2. CASE /\ rows' = IF rows[j] = None THEN rows ELSE [rows EXCEPT ![j] = row]
           /\ UNCHANGED used
  BY <1>1, <1>2 DEF SameNext
<1>3. CASE rows[j] # None /\ Spend("fault") /\ UNCHANGED rows
  BY <1>3, SpendFact DEF Kinds, SameNext
<1> QED BY <1>2, <1>3 DEF Mutate

(* What the accounts of a task need of a step of the ticker. *)
LEMMA TickerFirePaid ==
  ASSUME FireInv, TypeInv', Ticker, NEW i \in Ids, NEW at \in Instants,
         fired'[i][at] + Can(i, at)' <=
           fired[i][at] + Can(i, at) + (used'["fault"] - used["fault"])
  PROVE  FirePaid(i, at)'
<1>1. TypeInv /\ FirePaid(i, at)
  BY DEF FireInv, AckInv
<1>2. /\ UNCHANGED syncs /\ used'["zone"] = used["zone"]
      /\ used'["sync"] = used["sync"] /\ used'["crash"] = used["crash"]
      /\ used'["fault"] \in {used["fault"], used["fault"] + 1}
  BY <1>1, TickerCost
<1>3. MqttCan(i)' = MqttCan(i) /\ ZoneCan(i)' = ZoneCan(i)
  BY <1>2 DEF MqttCan, ZoneCan
<1>4. /\ used["fault"] \in Nat /\ Cost \in Nat /\ fired[i][at] \in Nat /\ fired'[i][at] \in Nat
      /\ Can(i, at) \in {0, 1, 2} /\ Can(i, at)' \in {0, 1, 2}
      /\ MqttCan(i) \in {0, 1} /\ ZoneCan(i) \in {0, 1, 2}
  BY <1>1, CostTypes, CanBounds, CanBoundsNext DEF CanBound, TypeInv, GhostType
<1>5. Cost' = Cost + (used'["fault"] - used["fault"])
  BY <1>1, <1>2, CostTypes DEF Cost
<1>6. fired[i][at] + Can(i, at) + MqttCan(i) + ZoneCan(i) <= Cost
  BY <1>1 DEF FirePaid
<1>7. ASSUME NEW f \in Nat, NEW c \in {0, 1, 2}, NEW m \in {0, 1}, NEW z \in {0, 1, 2}, NEW n \in Nat,
             NEW g \in Nat, NEW e \in {0, 1, 2}, NEW d \in {0, 1},
             f + c + m + z <= n, g + e <= f + c + d
      PROVE  g + e + m + z <= n + d
  BY <1>7
<1>8. used'["fault"] - used["fault"] \in {0, 1}
  BY <1>2, <1>4
<1>9. fired'[i][at] + Can(i, at)' + MqttCan(i) + ZoneCan(i) <= Cost'
  BY <1>4, <1>5, <1>6, <1>7, <1>8
<1> QED BY <1>3, <1>9 DEF FirePaid

LEMMA TickerFires ==
  ASSUME FireInv, TypeInv', Ticker, NEW i \in Ids, NEW at \in Instants
  PROVE  FirePaid(i, at)'
<1>1. TypeInv
  BY DEF FireInv, AckInv
<1>2. /\ used["fault"] \in Nat /\ used'["fault"] \in {used["fault"], used["fault"] + 1}
      /\ fired[i][at] \in Nat /\ fired'[i][at] \in Nat
      /\ CanBound(i, at) /\ CanBound(i, at)'
  BY <1>1, TickerCost, CostTypes, CanBounds, CanBoundsNext DEF TypeInv, GhostType
<1>3. ASSUME UNCHANGED fired, Can(i, at)' <= Can(i, at) PROVE FirePaid(i, at)'
  BY <1>2, <1>3, TickerFirePaid DEF CanBound
<1>4. CASE TickLoad
  <2>1. /\ UNCHANGED <<rows, fired>> /\ runner.step = "idle" /\ runner'.step = "zone"
        /\ runner'.snap[i] = IF Due(rows[i], now) THEN rows[i] ELSE None
    BY <1>4 DEF TickLoad, IdleRunner, storeV, ghostV
  <2>2. ~Sent(i) /\ SameNext(i) /\ ~Done(i)' /\ ~Sent(i)'
    BY <2>1 DEF Sent, Done, SameNext
  <2>3. CASE Due(rows[i], now)
    <3>1. Can(i, at)' = SnapCan(i, at)' /\ SnapCan(i, at)' <= RowCan(i, at)
      <4>1. runner'.snap[i] = rows[i] /\ rows[i] # None /\ rows[i].next # Never
        BY <2>1, <2>3 DEF Due
      <4>2. rows[i].next \in Int /\ at \in Int
        BY <1>1, <4>1 DEF TypeInv, StoreType, Rows, Row, Time, Instants
      <4> QED BY <2>1, <2>2, <4>1, <4>2 DEF Can, Shared, SnapCan, RowCan
    <3> QED BY <1>2, <1>3, <2>1, <2>2, <3>1 DEF CanBound
  <2>4. CASE ~Due(rows[i], now)
    BY <1>1, <1>3, <2>1, <2>2, <2>4, SnapDropped
  <2> QED BY <2>3, <2>4
<1>5. CASE TickZone
  <2>1. /\ UNCHANGED <<rows, fired>> /\ runner.step = "zone" /\ runner'.step = "scan"
        /\ runner'.snap = runner.snap
    BY <1>1, <1>5 DEF TickZone, storeV, ghostV, TypeInv, RunnerType
  <2>2. Can(i, at)' = Can(i, at)
    BY <2>1, NothingMoves DEF SameNext, Done, Sent
  <2> QED BY <1>2, <1>3, <2>1, <2>2 DEF CanBound
<1>6. ASSUME NEW j \in Ids, Reanchor(j) PROVE FirePaid(i, at)'
  <2> DEFINE next == NextRun(runner.snap[j].cad, runner.at, runner.tz)
             row == [rows[j] EXCEPT !.next = next]
  <2>1. /\ runner.step = "scan" /\ runner.snap[j] # None
        /\ runner.at - runner.snap[j].next > Window
        /\ Mutate(j, row) /\ runner' = Served(runner, j) /\ UNCHANGED fired
    BY <1>6 DEF Reanchor, SetNextRun, ghostV
  <2>2. next \in Time /\ (next = Never \/ (next \in Int /\ next > runner.snap[j].next))
    <3>1. /\ runner.snap[j].cad \in Cadences /\ runner.snap[j].next \in Int
          /\ runner.at \in Int /\ runner.tz \in Int
      BY <1>1, <2>1, SnapType, RowFields DEF TypeInv
    <3>2. Jitter(runner.snap[j].cad) \in Int /\ Jitter(runner.snap[j].cad) >= 0 - Window
      BY <3>1, CadencesAssumption, BudgetAssumption, PaceAssumption DEF Jitter, Cadence
    <3>3. \/ next = Never
          \/ next \in Int /\ next > runner.at + Jitter(runner.snap[j].cad)
      BY <3>1, NextRunLater
    <3> HIDE DEF next
    <3> QED BY <2>1, <3>1, <3>2, <3>3, BudgetAssumption DEF Time
  <2>3. rows[j] # None => row \in Row /\ row.next = next
    <3>1. rows[j] # None => rows[j] \in Row
      BY <1>1 DEF TypeInv, StoreType, Rows
    <3>2. rows[j] \in Row => row.next = next
      BY DEF Row
    <3> QED BY <2>2, <3>1, <3>2, RowFields
  <2>4. /\ ~Sent(i) /\ ~Done(i) /\ ~Sent(i)' /\ ~Done(i)'
        /\ runner'.snap[i] = None \/ (i # j /\ runner'.snap[i] = runner.snap[i])
    <3>1. /\ runner'.step \in {"idle", "scan"}
          /\ runner'.snap[i] = None \/ (i # j /\ runner'.snap[i] = runner.snap[i])
      BY <1>1, <2>1, ServedFact
    <3> QED BY <2>1, <3>1 DEF Sent, Done
  <2> HIDE DEF next, row
  <2>5. CASE SameNext(i)
    BY <1>1, <1>2, <1>3, <2>1, <2>4, <2>5, SnapDropped, NothingMoves DEF CanBound
  <2>6. CASE ~SameNext(i)
    <3>1. i = j /\ (rows'[j] = None \/ (rows[j] # None /\ rows'[j] = row))
      BY <1>1, <2>1, <2>3, <2>6, MutateNext, NoneAssumption
    <3>2. Can(i, at)' <= Can(i, at)
      BY <1>1, <2>1, <2>2, <2>3, <2>4, <3>1, RowMoved
    <3> QED BY <1>3, <2>1, <3>2
  <2> QED BY <2>5, <2>6
<1>7. ASSUME NEW j \in Ids, Consider(j) PROVE FirePaid(i, at)'
  <2>1. /\ runner.step = "scan" /\ SameNext(i) /\ UNCHANGED fired
    BY <1>7 DEF Consider, SameNext, storeV, ghostV
  <2>2. ~Sent(i) /\ ~Done(i)
    BY <2>1 DEF Sent, Done
  <2>3. CASE runner' = Served(runner, j)
    <3>1. /\ runner'.step \in {"idle", "scan"}
          /\ runner'.snap[i] = None \/ (i # j /\ runner'.snap[i] = runner.snap[i])
      BY <1>1, <2>3, ServedFact
    <3>2. ~Sent(i)' /\ ~Done(i)'
      BY <3>1 DEF Sent, Done
    <3> QED BY <1>1, <1>2, <1>3, <2>1, <2>2, <3>1, <3>2, SnapDropped, NothingMoves DEF
               CanBound
  <2>4. CASE runner' # Served(runner, j)
    <3>1. \/ runner' = [runner EXCEPT !.step = "record", !.id = j, !.result = "skipped"]
          \/ runner' = [runner EXCEPT !.step = "send", !.id = j]
      <4>1. runner' = CASE Missing(runner.snap[j]) ->
                             [runner EXCEPT !.step = "record", !.id = j, !.result = "skipped"]
                        [] ~Missing(runner.snap[j]) /\ turns # {} -> Served(runner, j)
                        [] OTHER -> [runner EXCEPT !.step = "send", !.id = j]
        BY <1>7 DEF Consider
      <4> QED BY <2>4, <4>1
    <3>2. /\ runner'.snap = runner.snap /\ runner'.step \in {"record", "send"}
          /\ runner'.step = "record" => runner'.result = "skipped"
      BY <1>1, <3>1 DEF TypeInv, RunnerType
    <3>3. ~Sent(i)' /\ ~Done(i)'
      BY <3>2 DEF Sent, Done
    <3> QED BY <1>2, <1>3, <2>1, <2>2, <3>2, <3>3, NothingMoves DEF CanBound
  <2> QED BY <2>3, <2>4
<1>8. CASE Send
  <2> DEFINE j == runner.id
  <2>1. /\ j \in Ids /\ runner.snap[j] # None /\ Snap = runner.snap[j] /\ runner.step = "send"
        /\ SameNext(i) /\ runner'.snap = runner.snap /\ runner'.step = "record"
        /\ runner'.id = j
    BY <1>1, <1>8 DEF Send, TypeInv, RunnerType, Busy, Snap, SameNext, storeV
  <2>2. ~Sent(i) /\ ~Done(i) /\ ~Done(i)'
    BY <2>1 DEF Sent, Done
  <2>3. CASE UNCHANGED fired /\ runner'.result = "failure"
    <3>1. ~Sent(i)'
      BY <2>3 DEF Sent
    <3> QED BY <1>2, <1>3, <2>1, <2>2, <2>3, <3>1, NothingMoves DEF CanBound
  <2>4. CASE /\ runner'.result = "success" /\ UNCHANGED used
             /\ fired' = [fired EXCEPT ![j][Snap.next] = @ + 1]
    <3>1. Sent(i)' <=> i = j
      BY <2>1, <2>4 DEF Sent
    <3>2. fired'[i][at] = IF i = j /\ at = Snap.next THEN fired[i][at] + 1 ELSE fired[i][at]
      BY <1>1, <2>1, <2>4 DEF TypeInv, GhostType
    <3>3. CASE i # j
      <4>1. Can(i, at)' = Can(i, at)
        BY <2>1, <2>2, <3>1, <3>3, NothingMoves
      <4> QED BY <1>2, <3>2, <3>3, <4>1, <2>4, TickerFirePaid DEF CanBound
    <3>4. CASE i = j /\ at # Snap.next
      <4>1. Can(i, at)' = Can(i, at)
        BY <2>1, <2>2, <3>4 DEF Can, Shared, SnapCan, RowCan, SameNext
      <4> QED BY <1>2, <1>3, <3>2, <3>4, <4>1, <2>4, TickerFirePaid DEF CanBound
    <3>5. CASE i = j /\ at = Snap.next
      <4>1. SnapCan(i, at) = 1 /\ SnapCan(i, at)' = 0
        <5>1. runner.snap[i].next \in Int
          BY <1>1, <2>1, <3>5, SnapType DEF TypeInv
        <5> QED BY <2>1, <2>2, <3>1, <3>5, <5>1 DEF SnapCan
      <4>2. (Shared(i)' <=> Shared(i)) /\ RowCan(i, at)' = RowCan(i, at)
        BY <2>1, <2>2 DEF Shared, RowCan, SameNext
      <4>3. Can(i, at)' = Can(i, at) - 1
        BY <1>2, <4>1, <4>2 DEF Can, CanBound
      <4> QED BY <1>2, <2>4, <3>2, <3>5, <4>3, TickerFirePaid DEF CanBound
    <3> QED BY <3>3, <3>4, <3>5
  <2>5. \/ UNCHANGED fired /\ runner'.result = "failure"
        \/ /\ runner'.result = "success" /\ UNCHANGED used
           /\ fired' = [fired EXCEPT ![j][Snap.next] = @ + 1]
    BY <1>1, <1>8 DEF Send, TypeInv, RunnerType
  <2> QED BY <2>3, <2>4, <2>5
<1>9. CASE Record
  <2> DEFINE j == runner.id
             x == Snap.next
             next == NextRun(Snap.cad, DejitterAnchor(Snap.cad, x), runner.tz)
             fails == [rows[j] EXCEPT !.status = "failure", !.failed = x]
             ends == [rows[j] EXCEPT !.status = runner.result, !.next = next, !.failed = Never]
  <2>1. /\ j \in Ids /\ runner.snap[j] # None /\ Snap = runner.snap[j] /\ UNCHANGED fired
        /\ runner.step = "record" /\ runner'.snap = runner.snap
        /\ runner'.step = "report" /\ runner'.id = j
        /\ Mutate(j, IF runner.result = "failure" THEN fails ELSE ends)
    BY <1>1, <1>9 DEF Record, TypeInv, RunnerType, Busy, Snap
  <2>2. /\ x \in Int /\ x \in Time /\ next \in Time /\ runner.result \in Results
        /\ next = Never \/ (next \in Int /\ next > x)
    <3>1. /\ Snap.cad \in Cadences /\ x \in Int /\ runner.tz \in Int
          /\ DejitterAnchor(Snap.cad, x) \in Int /\ runner.result \in Results
      BY <1>1, <2>1, SnapType, AnchorType DEF TypeInv, RunnerType
    <3>2. DejitterAnchor(Snap.cad, x) + Jitter(Snap.cad) = x
      BY <3>1, CadencesAssumption DEF DejitterAnchor, Jitter, Cadence
    <3>3. \/ next = Never
          \/ next \in Int /\ next > DejitterAnchor(Snap.cad, x) + Jitter(Snap.cad)
      BY <3>1, NextRunLater
    <3> HIDE DEF next
    <3> QED BY <3>1, <3>2, <3>3 DEF Time
  <2>3. /\ rows[j] # None => fails \in Row /\ ends \in Row
        /\ rows[j] # None => fails.next = rows[j].next /\ ends.next = next
    <3>1. rows[j] # None => rows[j] \in Row
      BY <1>1, <2>1 DEF TypeInv, StoreType, Rows
    <3>2. rows[j] \in Row => fails \in Row /\ ends \in Row
      BY <2>2, RowFields DEF Results
    <3>3. rows[j] \in Row => fails.next = rows[j].next /\ ends.next = next
      BY DEF Row
    <3> QED BY <3>1, <3>2, <3>3
  <2> HIDE DEF next, fails, ends
  <2>4. /\ ~Done(i) /\ ~Sent(i)' /\ (Done(i)' <=> i = j)
        /\ Sent(i) <=> i = j /\ runner.result = "success"
    BY <2>1 DEF Done, Sent
  <2>5. CASE i # j
    <3>1. SameNext(i)
      BY <1>1, <2>1, <2>3, <2>5, MutateNext, NoneAssumption
    <3> QED BY <1>2, <1>3, <2>1, <2>4, <2>5, <3>1, NothingMoves DEF CanBound
  <2>6. CASE i = j /\ SameNext(i) /\ ~Sent(i)
    BY <1>1, <1>3, <2>1, <2>4, <2>6, SnapDropped
  <2>7. CASE i = j /\ SameNext(i) /\ used'["fault"] = used["fault"] + 1
    <3>1. Can(i, at)' = RowCan(i, at)
      <4>1. RowCan(i, at)' = RowCan(i, at)
        BY <2>7 DEF SameNext, RowCan
      <4>2. SnapCan(i, at)' = 0 /\ ~Shared(i)'
        BY <2>4, <2>7 DEF SnapCan, Shared
      <4> QED BY <1>2, <4>1, <4>2 DEF Can, CanBound
    <3> QED BY <1>2, <2>1, <2>7, <3>1, TickerFirePaid DEF CanBound
  <2>8. CASE i = j /\ runner.result # "failure" /\ (rows'[j] = None \/ (rows[j] # None /\ rows'[j] = ends))
    <3>1. Can(i, at)' <= Can(i, at)
      BY <1>1, <2>1, <2>2, <2>3, <2>4, <2>8, RowMoved
    <3> QED BY <1>3, <2>1, <3>1
  <2>9. CASE i = j /\ runner.result = "failure"
    <3>1. SameNext(i)
      BY <1>1, <2>1, <2>3, <2>9, MutateNext, NoneAssumption DEF SameNext
    <3> QED BY <2>4, <2>6, <2>9, <3>1
  <2>10. CASE i = j /\ runner.result # "failure"
    BY <1>1, <2>1, <2>3, <2>7, <2>8, <2>10, MutateNext, NoneAssumption
  <2> QED BY <2>5, <2>9, <2>10
<1>10. CASE Report
  <2> DEFINE j == runner.id
  <2>1. /\ j \in Ids /\ runner.step = "report" /\ runner' = Served(runner, j)
        /\ SameNext(i) /\ UNCHANGED fired
    BY <1>1, <1>10 DEF Report, TypeInv, RunnerType, Busy, SameNext, storeV
  <2>2. /\ runner'.step \in {"idle", "scan"}
        /\ runner'.snap[i] = None \/ (i # j /\ runner'.snap[i] = runner.snap[i])
    BY <1>1, <2>1, ServedFact
  <2>3. /\ ~Sent(i) /\ (Done(i) <=> i = j) /\ ~Sent(i)' /\ ~Done(i)'
    BY <2>1, <2>2 DEF Done, Sent
  <2> QED BY <1>1, <1>2, <1>3, <2>1, <2>2, <2>3, SnapDropped, NothingMoves DEF CanBound
<1> QED BY <1>4, <1>5, <1>6, <1>7, <1>8, <1>9, <1>10 DEF Ticker

(* What the accounts of a task need of any other step. *)
LEMMA OtherFirePaid ==
  ASSUME FireInv, TypeInv', NEW i \in Ids, NEW at \in Instants, UNCHANGED fired,
         Can(i, at)' + MqttCan(i)' + ZoneCan(i)' - Cost'
           <= Can(i, at) + MqttCan(i) + ZoneCan(i) - Cost
  PROVE  FirePaid(i, at)'
<1>1. TypeInv /\ FirePaid(i, at)
  BY DEF FireInv, AckInv
<1>2. /\ Cost \in Nat /\ fired[i][at] \in Nat
      /\ Can(i, at) \in {0, 1, 2} /\ Can(i, at)' \in {0, 1, 2}
      /\ MqttCan(i) \in {0, 1} /\ ZoneCan(i) \in {0, 1, 2}
      /\ MqttCan(i)' \in {0, 1} /\ ZoneCan(i)' \in {0, 1, 2}
  BY <1>1, CostTypes, CanBounds, CanBoundsNext DEF CanBound, MqttCan, ZoneCan
<1>3. Cost' \in Nat
  BY DEF TypeInv, UsedType, Kinds, Cost
<1> QED BY <1>1, <1>2, <1>3 DEF FirePaid

(* "Run now" leaves the next run where it is. *)
LEMMA ButtonSame ==
  ASSUME TypeInv, Button, NEW i \in Ids
  PROVE  UNCHANGED <<runner, syncs>> /\ SameNext(i)
<1>1. UNCHANGED <<runner, syncs>>
  BY DEF Button, RunNow, RunSend, RunRecord
<1>2. CASE RunRecord
  <2> DEFINE j == manual.id
             row == [rows[j] EXCEPT !.status = manual.result]
  <2>1. Mutate(j, row) /\ j \in Ids /\ manual.result \in Results
    BY <1>2 DEF RunRecord, TypeInv, ManualType
  <2>2. rows[j] # None => row # None /\ row.next = rows[j].next
    <3>1. rows[j] # None => rows[j] \in Row
      BY <2>1 DEF TypeInv, StoreType, Rows
    <3>2. rows[j] \in Row => row \in Row /\ row.next = rows[j].next
      BY <2>1, RowFields DEF Row
    <3> QED BY <3>1, <3>2, NoneAssumption
  <2> HIDE DEF row
  <2>3. SameNext(i)
    BY <2>1, <2>2, MutateNext DEF SameNext
  <2> QED BY <1>1, <2>3
<1>3. CASE RunSend \/ \E j \in Ids : RunNow(j)
  BY <1>1, <1>3 DEF RunSend, RunNow, storeV, SameNext
<1> QED BY <1>2, <1>3 DEF Button

LEMMA ButtonFires ==
  ASSUME FireInv, TypeInv', Button, NEW i \in Ids, NEW at \in Instants
  PROVE  FirePaid(i, at)'
<1>1. TypeInv
  BY DEF FireInv, AckInv
<1>2. UNCHANGED <<runner, syncs, fired>>
  BY DEF Button, RunNow, RunSend, RunRecord, ghostV
<1>3. /\ MqttCan(i)' = MqttCan(i) /\ ZoneCan(i)' = ZoneCan(i)
      /\ Done(i)' = Done(i) /\ Sent(i)' = Sent(i)
  BY <1>2 DEF MqttCan, ZoneCan, Done, Sent
<1>4. SameNext(i)
  BY <1>1, ButtonSame
<1>5. Can(i, at)' = Can(i, at)
  BY <1>2, <1>3, <1>4, NothingMoves
<1>6. Cost' >= Cost
  <2>1. CASE RunRecord
    BY <1>1, <2>1, MutateCost, CostTypes DEF RunRecord, Cost
  <2>2. CASE RunSend \/ \E j \in Ids : RunNow(j)
    <3>1. UNCHANGED used \/ Spend("failure") \/ Spend("run")
      BY <2>2 DEF RunSend, RunNow
    <3> QED BY <1>1, <3>1, SpendFact, CostTypes DEF Kinds, Cost
  <2> QED BY <2>1, <2>2 DEF Button
<1>7. Cost \in Nat /\ Cost' \in Nat /\ Can(i, at) \in Int /\ MqttCan(i) \in Int /\ ZoneCan(i) \in Int
  BY <1>1, CostTypes, CanBounds DEF CanBound, TypeInv, UsedType, Kinds, Cost
<1> QED BY <1>2, <1>3, <1>5, <1>6, <1>7, OtherFirePaid

LEMMA WorldFires ==
  ASSUME FireInv, TypeInv', World, NEW i \in Ids, NEW at \in Instants
  PROVE  FirePaid(i, at)'
<1>1. TypeInv
  BY DEF FireInv, AckInv
<1>2. UNCHANGED fired /\ SameNext(i)
  BY DEF World, Advance, UserTurn, TurnEnds, ConnectorChanges, Crash, storeV, ghostV,
     SameNext
<1>3. /\ Cost \in Nat /\ Cost' \in Nat /\ MqttCan(i) \in {0, 1} /\ ZoneCan(i) \in {0, 1, 2}
      /\ CanBound(i, at)
  BY <1>1, CostTypes, CanBounds DEF TypeInv, UsedType, Kinds, Cost
<1>4. CASE Crash
  <2>1. runner' = IdleRunner /\ \A p \in {"mqtt", "zone"} : syncs'[p] = IdleSync
    BY <1>1, <1>4 DEF Crash, TypeInv, SyncsType
  <2>2. MqttCan(i)' = 0 /\ ZoneCan(i)' = 0
    BY <2>1 DEF MqttCan, ZoneCan, IdleSync
  <2>3. Can(i, at)' = RowCan(i, at)
    BY <1>2, <1>3, <2>1 DEF Can, Shared, SnapCan, RowCan, SameNext, IdleRunner, NoRows,
       CanBound
  <2>4. Cost' = Cost + 1
    BY <1>1, <1>4, SpendFact, CostTypes DEF Crash, Kinds, Cost
  <2> QED BY <1>2, <1>3, <2>2, <2>3, <2>4, OtherFirePaid DEF CanBound
<1>5. CASE ~Crash
  <2>1. UNCHANGED <<runner, syncs>>
    BY <1>5 DEF World, Advance, UserTurn, TurnEnds, ConnectorChanges, procV
  <2>2. /\ MqttCan(i)' = MqttCan(i) /\ ZoneCan(i)' = ZoneCan(i)
        /\ Done(i)' = Done(i) /\ Sent(i)' = Sent(i)
    BY <2>1 DEF MqttCan, ZoneCan, Done, Sent
  <2>3. Can(i, at)' = Can(i, at)
    BY <1>2, <2>1, <2>2, NothingMoves
  <2>4. Cost' = Cost
    <3>1. UNCHANGED used \/ Spend("user") \/ Spend("connector")
      BY <1>5 DEF World, Advance, UserTurn, TurnEnds, ConnectorChanges
    <3> QED BY <1>1, <3>1, SpendFact DEF Kinds, Cost
  <2> QED BY <1>2, <1>3, <2>2, <2>3, <2>4, OtherFirePaid DEF CanBound
<1> QED BY <1>4, <1>5

LEMMA DownlinkFires ==
  ASSUME FireInv, TypeInv', Downlink, NEW i \in Ids, NEW at \in Instants
  PROVE  FirePaid(i, at)'
<1>1. TypeInv /\ ListIsFresh
  BY DEF FireInv, AckInv
<1>2. /\ DOMAIN syncs = {"mqtt", "zone"} /\ syncs \in [{"mqtt", "zone"} -> SyncRecord]
      /\ syncs["mqtt"] \in SyncRecord /\ syncs["zone"] \in SyncRecord
  BY <1>1 DEF TypeInv, SyncsType
<1>3. UNCHANGED <<runner, fired>> /\ Done(i)' = Done(i) /\ Sent(i)' = Sent(i)
  BY DEF Downlink, ZoneLoad, MqttSync, ZoneSet, Replace, Seed, Done, Sent, ghostV
<1>4. /\ Cost \in Nat /\ Cost' \in Nat
      /\ MqttCan(i) \in {0, 1} /\ ZoneCan(i) \in {0, 1, 2}
      /\ MqttCan(i)' \in {0, 1} /\ ZoneCan(i)' \in {0, 1, 2}
      /\ Can(i, at) \in {0, 1, 2} /\ Can(i, at)' \in {0, 1, 2}
  BY <1>1, CostTypes, CanBounds, CanBoundsNext
     DEF TypeInv, UsedType, Kinds, Cost, CanBound, MqttCan, ZoneCan
<1>5. SameNext(i) => Can(i, at)' = Can(i, at)
  BY <1>3, NothingMoves
<1>6. ASSUME NEW l \in Lists, NEW z \in Zones, MqttSync(l, z) PROVE FirePaid(i, at)'
  <2>1. /\ syncs'["zone"] = syncs["zone"] /\ syncs["mqtt"].step = "idle" /\ SameNext(i)
        /\ Spend("sync")
    BY <1>2, <1>6 DEF MqttSync, storeV, SameNext
  <2>2. MqttCan(i) = 0 /\ ZoneCan(i)' = ZoneCan(i) /\ Cost' = Cost + 1
    BY <1>1, <2>1, SpendFact, CostTypes DEF MqttCan, ZoneCan, Kinds, Cost
  <2> QED BY <1>3, <1>4, <1>5, <2>1, <2>2, OtherFirePaid
<1>7. ASSUME NEW z \in Zones, ZoneSet(z) PROVE FirePaid(i, at)'
  <2>1. /\ syncs'["mqtt"] = syncs["mqtt"] /\ syncs["zone"].step = "idle" /\ SameNext(i)
        /\ Spend("zone")
    BY <1>2, <1>7 DEF ZoneSet, SameNext
  <2>2. ZoneCan(i) = 0 /\ MqttCan(i)' = MqttCan(i) /\ Cost' = Cost + 2
    BY <1>1, <2>1, SpendFact, CostTypes DEF MqttCan, ZoneCan, Kinds, Cost
  <2> QED BY <1>3, <1>4, <1>5, <2>1, <2>2, OtherFirePaid
<1>8. CASE ZoneLoad
  <2>1. /\ syncs'["mqtt"] = syncs["mqtt"] /\ syncs["zone"].step = "load" /\ SameNext(i)
        /\ UNCHANGED used
    BY <1>2, <1>8 DEF ZoneLoad, storeV, SameNext
  <2>2. ZoneCan(i) = 2 /\ MqttCan(i)' = MqttCan(i) /\ Cost' = Cost
    BY <2>1 DEF MqttCan, ZoneCan, Cost
  <2> QED BY <1>3, <1>4, <1>5, <2>1, <2>2, OtherFirePaid
<1>9. ASSUME NEW p \in DOMAIN syncs, NEW j \in Ids, Seed(p, j) PROVE FirePaid(i, at)'
  <2> DEFINE row == [rows[j] EXCEPT !.next = FirstRun(syncs[p], j)]
  <2>1. /\ p \in {"mqtt", "zone"} /\ syncs[p].step = "seed" /\ j \in syncs[p].todo
        /\ Mutate(j, row)
    BY <1>2, <1>9 DEF Seed, SetNextRun
  <2>2. rows[j] # None => row # None
    <3>1. FirstRun(syncs[p], j) \in Time
      BY <1>1, <2>1, FirstRuns
    <3>2. rows[j] # None => rows[j] \in Row
      BY <1>1 DEF TypeInv, StoreType, Rows
    <3> QED BY <3>1, <3>2, RowFields, NoneAssumption
  <2>3. /\ \A q \in {"mqtt", "zone"} \ {p} : syncs'[q] = syncs[q]
        /\ \/ syncs'[p].step = "idle"
           \/ syncs'[p].step = "seed" /\ syncs'[p].todo = syncs[p].todo \ {j}
    <3> DEFINE t == [syncs[p] EXCEPT !.todo = syncs[p].todo \ {j}]
    <3>1. syncs' = [syncs EXCEPT ![p] = IdleSync] \/ syncs' = [syncs EXCEPT ![p] = t]
      BY <1>2, <1>9 DEF Seed
    <3>2. t.step = "seed" /\ t.todo = syncs[p].todo \ {j}
      BY <1>2, <2>1 DEF SyncRecord
    <3>3. IdleSync.step = "idle"
      BY DEF IdleSync
    <3> HIDE DEF t
    <3> QED BY <1>2, <2>1, <3>1, <3>2, <3>3
  <2> HIDE DEF row
  <2>4. /\ MqttCan(i)' <= MqttCan(i) /\ ZoneCan(i)' <= ZoneCan(i)
        /\ i = j => MqttCan(i)' + ZoneCan(i)' <= MqttCan(i) + ZoneCan(i) - 1
    BY <2>1, <2>3 DEF MqttCan, ZoneCan
  <2>5. Cost' >= Cost
    BY <1>1, <2>1, MutateCost, CostTypes DEF Cost
  <2>6. CASE i # j
    <3>1. SameNext(i)
      BY <1>1, <2>1, <2>2, <2>6, MutateNext
    <3> QED BY <1>3, <1>4, <1>5, <2>4, <2>5, <3>1, OtherFirePaid
  <2>7. CASE i = j
    <3>1. Can(i, at)' <= Can(i, at) + 1
      BY <1>1, <1>3, RowReplaced
    <3> QED BY <1>3, <1>4, <2>4, <2>5, <2>7, <3>1, OtherFirePaid
  <2> QED BY <2>6, <2>7
<1>10. ASSUME NEW p \in DOMAIN syncs, Replace(p) PROVE FirePaid(i, at)'
  <2> DEFINE s == syncs[p]
  <2>1. p \in {"mqtt", "zone"} /\ s \in SyncRecord /\ s.step = "replace"
    BY <1>2, <1>10 DEF Replace
  <2>2. /\ syncs'[p].step \in {"idle", "seed"}
        /\ \A q \in {"mqtt", "zone"} \ {p} : syncs'[q] = syncs[q]
    <3>1. \/ syncs' = [syncs EXCEPT ![p] = IdleSync]
          \/ \E todo : syncs' = [syncs EXCEPT ![p] = [s EXCEPT !.step = "seed", !.todo = todo]]
      BY <1>10 DEF Replace
    <3>2. IdleSync.step = "idle"
      BY DEF IdleSync
    <3>3. \A todo : [s EXCEPT !.step = "seed", !.todo = todo].step = "seed"
      BY <2>1 DEF SyncRecord
    <3> QED BY <1>2, <2>1, <3>1, <3>2, <3>3
  <2>3. /\ p = "mqtt" => MqttCan(i) = 1 /\ ZoneCan(i)' = ZoneCan(i)
        /\ p = "zone" => ZoneCan(i) = 2 /\ ZoneCan(i)' <= 1 /\ MqttCan(i)' = MqttCan(i)
    BY <2>1, <2>2 DEF MqttCan, ZoneCan
  <2>4. CASE Spend("fault") /\ UNCHANGED rows
    <3>1. SameNext(i) /\ Cost' >= Cost
      BY <1>1, <2>4, SpendFact, CostTypes DEF SameNext, Kinds, Cost
    <3> QED BY <1>3, <1>4, <1>5, <2>1, <2>3, <3>1, OtherFirePaid
  <2>5. CASE rows' = Carried(s.list, rows) /\ UNCHANGED used
    <3>1. Cost' = Cost
      BY <2>5 DEF Cost
    <3>2. CASE p = "zone"
      <4>1. Can(i, at)' <= Can(i, at) + 1
        BY <1>1, <1>3, RowReplaced
      <4> QED BY <1>3, <1>4, <2>3, <3>1, <3>2, <4>1, OtherFirePaid
    <3>3. CASE p = "mqtt"
      <4>1. rows'[i] = None \/ rows'[i].next = Never
        <5>1. s.list[i] = None \/ (s.list[i] \in Row /\ s.list[i].next = Never)
          BY <1>1, <2>1, <3>3 DEF ListIsFresh, Fresh, SyncRecord, Rows
        <5>2. \/ rows'[i] = s.list[i]
              \/ /\ s.list[i] # None
                 /\ rows'[i] = [s.list[i] EXCEPT
                                 !.status = IF @ = "none" THEN rows[i].status ELSE @,
                                 !.failed = IF @ = Never THEN rows[i].failed ELSE @]
          BY <2>5 DEF Carried
        <5> QED BY <5>1, <5>2 DEF Row
      <4>2. Can(i, at)' <= Can(i, at)
        BY <1>1, <1>3, <4>1, RowReplaced
      <4> QED BY <1>3, <1>4, <2>3, <3>1, <3>3, <4>2, OtherFirePaid
    <3> QED BY <2>1, <3>2, <3>3
  <2> QED BY <1>10, <2>4, <2>5 DEF Replace, storeV
<1> QED BY <1>6, <1>7, <1>8, <1>9, <1>10 DEF Downlink

LEMMA FireInvInit == Init => FireInv
<1> SUFFICES ASSUME Init, NEW i \in Ids, NEW at \in Instants PROVE FirePaid(i, at)
  BY AckInvInit DEF FireInv
<1>1. Can(i, at) = 0 /\ MqttCan(i) = 0 /\ ZoneCan(i) = 0
  BY DEF Init, Can, Shared, SnapCan, RowCan, MqttCan, ZoneCan, IdleRunner, IdleSync,
     NoRows
<1>2. fired[i][at] = 0 /\ Cost = 0
  BY DEF Init, Cost, Kinds
<1> QED BY <1>1, <1>2 DEF FirePaid

LEMMA FireInvStep == FireInv /\ [Next]_vars => FireInv'
<1> SUFFICES ASSUME FireInv, [Next]_vars PROVE FireInv'
  OBVIOUS
<1>1. AckInv' /\ TypeInv'
  BY AckInvStep, TypeInvStep DEF FireInv, AckInv
<1>2. ASSUME NEW i \in Ids, NEW at \in Instants PROVE FirePaid(i, at)'
  <2>1. CASE UNCHANGED vars
    BY <2>1 DEF vars, storeV, procV, ghostV, FireInv, FirePaid, Can, Shared, SnapCan,
       RowCan, Done, Sent, MqttCan, ZoneCan, Cost
  <2>2. CASE Next
    BY <1>1, <2>2, TickerFires, ButtonFires, DownlinkFires, WorldFires DEF Next
  <2> QED BY <2>1, <2>2
<1> QED BY <1>1, <1>2 DEF FireInv, Instants

LEMMA FireInvPays == FireInv => FiredOnce
<1> SUFFICES ASSUME FireInv, NEW i \in Ids, NEW at \in Instants
             PROVE  fired[i][at] <= used["sync"] + used["crash"] + used["fault"]
                                    + 2 * used["zone"]
  BY DEF FiredOnce
<1>1. TypeInv /\ FirePaid(i, at)
  BY DEF FireInv, AckInv
<1>2. /\ fired[i][at] \in Nat /\ Cost \in Nat /\ Can(i, at) \in {0, 1, 2}
      /\ MqttCan(i) \in {0, 1} /\ ZoneCan(i) \in {0, 1, 2}
  BY <1>1, CostTypes, CanBounds DEF CanBound
<1> QED BY <1>1, <1>2 DEF FirePaid, Cost

(* The message of an occurrence is sent once per list (Runner.tick, fire,  *)
(* SetNextRun), for any cadences within the jitter and the interval floor  *)
(* of spec.go: the clock, the jitter, retries, deferrals and "Run now"     *)
(* never repeat one; a restart, a failed write, a sync or a change of zone *)
(* can, once or twice.                                                     *)
THEOREM FiredOnceAlways == Spec => []FiredOnce
BY FireInvInit, FireInvStep, FireInvPays, PTL DEF Spec

-----------------------------------------------------------------------------
(***************************************************************************)
(* The next run only moves forward, on a device whose list arrives once    *)
(* and whose zone stays: with a second list, or another zone, a task is    *)
(* meant to move back.                                                     *)
(***************************************************************************)
OneList == Budget["sync"] <= 1 /\ Budget["zone"] = 0

(* No row before the list. *)
ArrivesOnce ==
  /\ syncs["zone"].step = "idle"
  /\ used["sync"] = 0 => syncs["mqtt"].step = "idle"
  /\ used["sync"] = 0 \/ syncs["mqtt"].step = "replace" => rows = NoRows

(* A first run that is still to be computed is not there yet, and a row    *)
(* that the ticker has taken up stays where it is until it is served.      *)
InPlace(i) ==
  /\ i \in syncs["mqtt"].todo => rows[i] # None /\ rows[i].next = Never
  /\ runner.snap[i] # None =>
       rows[i] # None /\ (Done(i) \/ rows[i].next = runner.snap[i].next)

ForwardInv == AckInv /\ ArrivesOnce /\ \A i \in Ids : InPlace(i)

Planned(row) == row # None /\ row.next # Never
Forward(i) == Planned(rows[i]) /\ Planned(rows'[i]) => rows'[i].next >= rows[i].next

(* What a step of the ticker does to the row of a task and to its own copy. *)
LEMMA TickerMoves ==
  ASSUME TypeInv, Ticker, NEW i \in Ids
  PROVE  /\ \/ SameNext(i)
            \/ /\ runner.snap[i] # None /\ ~Done(i) /\ rows[i] # None /\ rows'[i] # None
               /\ \/ rows'[i].next = Never
                  \/ rows'[i].next \in Int /\ rows'[i].next > runner.snap[i].next
               /\ runner'.snap[i] = None \/ Done(i)'
         /\ runner'.snap[i] # None =>
              \/ runner'.snap[i] = rows[i] /\ SameNext(i)
              \/ runner'.snap[i] = runner.snap[i] /\ (Done(i) => Done(i)')
<1>1. CASE TickLoad
  BY <1>1 DEF TickLoad, storeV, SameNext
<1>2. CASE TickZone \/ Send
  <2>1. runner'.snap = runner.snap /\ runner.step # "report"
    BY <1>2 DEF TickZone, Send, TypeInv, RunnerType
  <2> QED BY <1>2, <2>1 DEF TickZone, Send, storeV, SameNext, Done
<1>3. ASSUME NEW j \in Ids, Consider(j)
      PROVE  SameNext(i) /\ ~Done(i) /\ runner'.snap[i] \in {None, runner.snap[i]}
  <2>1. SameNext(i) /\ ~Done(i)
    BY <1>3 DEF Consider, storeV, SameNext, Done
  <2>2. \/ runner' = Served(runner, j)
        \/ runner' = [runner EXCEPT !.step = "record", !.id = j, !.result = "skipped"]
        \/ runner' = [runner EXCEPT !.step = "send", !.id = j]
    <3>1. runner' = CASE Missing(runner.snap[j]) ->
                           [runner EXCEPT !.step = "record", !.id = j, !.result = "skipped"]
                      [] ~Missing(runner.snap[j]) /\ turns # {} -> Served(runner, j)
                      [] OTHER -> [runner EXCEPT !.step = "send", !.id = j]
      BY <1>3 DEF Consider
    <3> QED BY <3>1
  <2>3. runner'.snap[i] \in {None, runner.snap[i]}
    BY <2>2, ServedFact DEF TypeInv, RunnerType
  <2> QED BY <2>1, <2>3
<1>4. ASSUME NEW j \in Ids, Reanchor(j)
      PROVE  /\ ~Done(i) /\ runner'.snap[i] \in {None, runner.snap[i]}
             /\ \/ SameNext(i)
                \/ /\ i = j /\ runner.snap[i] # None /\ rows[i] # None /\ rows'[i] # None
                   /\ \/ rows'[i].next = Never
                      \/ rows'[i].next \in Int /\ rows'[i].next > runner.snap[i].next
                   /\ runner'.snap[i] = None
  <2> DEFINE next == NextRun(runner.snap[j].cad, runner.at, runner.tz)
             row == [rows[j] EXCEPT !.next = next]
  <2>1. /\ runner.step = "scan" /\ runner.snap[j] # None
        /\ runner.at - runner.snap[j].next > Window
        /\ Mutate(j, row) /\ runner' = Served(runner, j)
    BY <1>4 DEF Reanchor, SetNextRun
  <2>2. next \in Time /\ (next = Never \/ (next \in Int /\ next > runner.snap[j].next))
    <3>1. /\ runner.snap[j].cad \in Cadences /\ runner.snap[j].next \in Int
          /\ runner.at \in Int /\ runner.tz \in Int
      BY <2>1, SnapType, RowFields DEF TypeInv
    <3>2. Jitter(runner.snap[j].cad) \in Int /\ Jitter(runner.snap[j].cad) >= 0 - Window
      BY <3>1, CadencesAssumption, BudgetAssumption, PaceAssumption DEF Jitter, Cadence
    <3>3. \/ next = Never
          \/ next \in Int /\ next > runner.at + Jitter(runner.snap[j].cad)
      BY <3>1, NextRunLater
    <3> HIDE DEF next
    <3> QED BY <2>1, <3>1, <3>2, <3>3, BudgetAssumption DEF Time
  <2>3. rows[j] # None => row \in Row /\ row.next = next
    <3>1. rows[j] # None => rows[j] \in Row
      BY DEF TypeInv, StoreType, Rows
    <3>2. rows[j] \in Row => row.next = next
      BY DEF Row
    <3> QED BY <2>2, <3>1, <3>2, RowFields
  <2> HIDE DEF next, row
  <2>4. runner'.snap[i] = None \/ (i # j /\ runner'.snap[i] = runner.snap[i])
    BY <2>1, ServedFact
  <2>5. SameNext(i) \/ (i = j /\ rows[j] # None /\ rows'[j] = row)
    BY <2>1, <2>3, MutateNext, NoneAssumption DEF SameNext
  <2> QED BY <2>1, <2>2, <2>3, <2>4, <2>5, NoneAssumption DEF Done
<1>5. CASE Record
  <2> DEFINE j == runner.id
             x == Snap.next
             next == NextRun(Snap.cad, DejitterAnchor(Snap.cad, x), runner.tz)
             fails == [rows[j] EXCEPT !.status = "failure", !.failed = x]
             ends == [rows[j] EXCEPT !.status = runner.result, !.next = next, !.failed = Never]
  <2>1. /\ j \in Ids /\ runner.snap[j] # None /\ Snap = runner.snap[j]
        /\ runner.step = "record" /\ runner'.snap = runner.snap
        /\ runner'.step = "report" /\ runner'.id = j
        /\ Mutate(j, IF runner.result = "failure" THEN fails ELSE ends)
    BY <1>5 DEF Record, TypeInv, RunnerType, Busy, Snap
  <2>2. /\ x \in Int /\ x \in Time /\ next \in Time /\ runner.result \in Results
        /\ next = Never \/ (next \in Int /\ next > x)
    <3>1. /\ Snap.cad \in Cadences /\ x \in Int /\ runner.tz \in Int
          /\ DejitterAnchor(Snap.cad, x) \in Int /\ runner.result \in Results
      BY <2>1, SnapType, AnchorType DEF TypeInv, RunnerType
    <3>2. DejitterAnchor(Snap.cad, x) + Jitter(Snap.cad) = x
      BY <3>1, CadencesAssumption DEF DejitterAnchor, Jitter, Cadence
    <3>3. \/ next = Never
          \/ next \in Int /\ next > DejitterAnchor(Snap.cad, x) + Jitter(Snap.cad)
      BY <3>1, NextRunLater
    <3> HIDE DEF next
    <3> QED BY <3>1, <3>2, <3>3 DEF Time
  <2>3. /\ rows[j] # None => fails \in Row /\ ends \in Row
        /\ rows[j] # None => fails.next = rows[j].next /\ ends.next = next
    <3>1. rows[j] # None => rows[j] \in Row
      BY <2>1 DEF TypeInv, StoreType, Rows
    <3>2. rows[j] \in Row => fails \in Row /\ ends \in Row
      BY <2>2, RowFields DEF Results
    <3>3. rows[j] \in Row => fails.next = rows[j].next /\ ends.next = next
      BY DEF Row
    <3> QED BY <3>1, <3>2, <3>3
  <2> HIDE DEF next, fails, ends
  <2>4. SameNext(i) \/ (i = j /\ rows[j] # None /\ rows'[j] = ends)
    BY <2>1, <2>3, MutateNext, NoneAssumption DEF SameNext
  <2> QED BY <2>1, <2>2, <2>3, <2>4, NoneAssumption DEF Done
<1>6. CASE Report
  <2> DEFINE j == runner.id
  <2>1. /\ j \in Ids /\ runner.step = "report" /\ runner' = Served(runner, j) /\ SameNext(i)
    BY <1>6 DEF Report, TypeInv, RunnerType, Busy, SameNext, storeV
  <2>2. runner'.snap[i] = None \/ (i # j /\ runner'.snap[i] = runner.snap[i])
    BY <2>1, ServedFact
  <2> QED BY <2>1, <2>2 DEF Done
<1> QED BY <1>1, <1>2, <1>3, <1>4, <1>5, <1>6 DEF Ticker

(* A row that stays where it is does not move back. *)
LEMMA SameIsForward ==
  ASSUME TypeInv, NEW i \in Ids, SameNext(i)
  PROVE  Forward(i)
<1>1. Planned(rows[i]) => rows[i].next \in Int
  BY DEF TypeInv, StoreType, Rows, Row, Time, Planned
<1> QED BY <1>1 DEF SameNext, Forward, Planned

LEMMA TickerForward ==
  ASSUME ForwardInv, Ticker, NEW i \in Ids
  PROVE  InPlace(i)' /\ Forward(i) /\ (rows'[i] = None <=> rows[i] = None)
<1>1. TypeInv /\ InPlace(i)
  BY DEF ForwardInv, AckInv
<1>2. syncs' = syncs
  BY <1>1, TickerCost
<1>3. CASE SameNext(i)
  <2>1. InPlace(i)'
    BY <1>1, <1>2, <1>3, TickerMoves DEF InPlace, SameNext
  <2> QED BY <1>1, <1>3, <2>1, SameIsForward DEF SameNext
<1>4. CASE ~SameNext(i)
  <2>1. /\ runner.snap[i] # None /\ rows[i] # None /\ rows'[i] # None
        /\ rows[i].next = runner.snap[i].next
        /\ \/ rows'[i].next = Never
           \/ rows'[i].next \in Int /\ rows'[i].next > runner.snap[i].next
        /\ runner'.snap[i] = None \/ Done(i)'
    BY <1>1, <1>4, TickerMoves DEF InPlace
  <2>2. runner.snap[i].next \in Int
    BY <1>1, <2>1, SnapType DEF TypeInv
  <2>3. i \notin syncs["mqtt"].todo
    <3>1. runner.snap[i].next # Never
      BY <1>1, <2>1 DEF TypeInv, RunnerType, Due
    <3> QED BY <1>1, <2>1, <3>1 DEF InPlace
  <2> QED BY <1>2, <2>1, <2>2, <2>3 DEF InPlace, Forward, Planned
<1> QED BY <1>3, <1>4

LEMMA ButtonForward ==
  ASSUME ForwardInv, Button, NEW i \in Ids
  PROVE  InPlace(i)' /\ Forward(i) /\ (rows'[i] = None <=> rows[i] = None)
<1>1. TypeInv /\ InPlace(i)
  BY DEF ForwardInv, AckInv
<1>2. UNCHANGED <<runner, syncs>> /\ SameNext(i)
  BY <1>1, ButtonSame
<1> QED BY <1>1, <1>2, SameIsForward DEF InPlace, Done, SameNext

LEMMA WorldForward ==
  ASSUME ForwardInv, World, NEW i \in Ids
  PROVE  InPlace(i)' /\ Forward(i) /\ (rows'[i] = None <=> rows[i] = None)
<1>1. TypeInv /\ InPlace(i)
  BY DEF ForwardInv, AckInv
<1>2. UNCHANGED rows
  BY DEF World, Advance, UserTurn, TurnEnds, ConnectorChanges, Crash, storeV
<1>3. InPlace(i)'
  <2>1. CASE Crash
    <3>1. runner' = IdleRunner /\ syncs'["mqtt"] = IdleSync
      BY <1>1, <2>1 DEF Crash, TypeInv, SyncsType
    <3> QED BY <3>1 DEF InPlace, IdleRunner, IdleSync, NoRows
  <2>2. CASE ~Crash
    BY <1>1, <1>2, <2>2 DEF World, Advance, UserTurn, TurnEnds, ConnectorChanges, procV,
       InPlace, Done
  <2> QED BY <2>1, <2>2
<1> QED BY <1>1, <1>2, <1>3, SameIsForward DEF SameNext

(* A step that sends no list and no zone. *)
LEMMA NoArrival ==
  ASSUME ForwardInv, Ticker \/ Button \/ World
  PROVE  ArrivesOnce'
<1>1. TypeInv
  BY DEF ForwardInv, AckInv
<1>2. used'["sync"] = used["sync"] /\ (UNCHANGED syncs \/ Crash)
  <2>1. CASE Ticker
    BY <1>1, <2>1, TickerCost
  <2>2. CASE RunRecord
    BY <1>1, <2>2, MutateCost DEF RunRecord
  <2>3. CASE RunSend \/ \E j \in Ids : RunNow(j)
    <3>1. UNCHANGED syncs /\ (UNCHANGED used \/ Spend("failure") \/ Spend("run"))
      BY <2>3 DEF RunSend, RunNow
    <3> QED BY <1>1, <3>1, SpendFact DEF Kinds
  <2>4. CASE World
    <3>1. /\ UNCHANGED syncs \/ Crash
          /\ UNCHANGED used \/ Spend("user") \/ Spend("connector") \/ Spend("crash")
      BY <2>4 DEF World, Advance, UserTurn, TurnEnds, ConnectorChanges, Crash, procV
    <3> QED BY <1>1, <3>1, SpendFact DEF Kinds
  <2> QED BY <2>1, <2>2, <2>3, <2>4 DEF Button
<1>3. rows = NoRows => rows' = NoRows
  <2>1. \A i \in Ids : rows'[i] = None <=> rows[i] = None
    BY TickerForward, ButtonForward, WorldForward
  <2>2. rows' \in [Ids -> Row \cup {None}]
    BY <1>1, TypeInvStep DEF TypeInv, StoreType, Rows, Next
  <2> QED BY <2>1, <2>2 DEF NoRows
<1>4. CASE UNCHANGED syncs
  BY <1>2, <1>3, <1>4 DEF ForwardInv, ArrivesOnce
<1>5. CASE Crash
  <2>1. syncs'["mqtt"] = IdleSync /\ syncs'["zone"] = IdleSync
    BY <1>1, <1>5 DEF Crash, TypeInv, SyncsType
  <2> QED BY <1>2, <1>3, <2>1 DEF ForwardInv, ArrivesOnce, IdleSync
<1> QED BY <1>2, <1>4, <1>5

LEMMA DownlinkForward ==
  ASSUME OneList, ForwardInv, Downlink
  PROVE  ArrivesOnce' /\ \A i \in Ids : InPlace(i)' /\ Forward(i)
<1>1. TypeInv /\ ListIsFresh /\ ArrivesOnce /\ \A i \in Ids : InPlace(i)
  BY DEF ForwardInv, AckInv
<1>2. /\ DOMAIN syncs = {"mqtt", "zone"}
      /\ syncs["mqtt"] \in SyncRecord /\ syncs["zone"] \in SyncRecord
      /\ rows \in [Ids -> Row \cup {None}]
      /\ used["sync"] \in Nat /\ used["zone"] \in Nat /\ used["zone"] <= Budget["zone"]
      /\ Budget["sync"] \in Nat /\ Budget["zone"] \in Nat
  BY <1>1, BudgetAssumption DEF TypeInv, SyncsType, StoreType, Rows, UsedType, Kinds
<1>3. IdleSync.step = "idle" /\ IdleSync.todo = {}
  BY DEF IdleSync
<1>4. ASSUME NEW l \in Lists, NEW z \in Zones, MqttSync(l, z)
      PROVE  ArrivesOnce' /\ \A i \in Ids : InPlace(i)' /\ Forward(i)
  <2>1. /\ UNCHANGED <<rows, runner>> /\ Spend("sync")
        /\ syncs' = [syncs EXCEPT !["mqtt"] =
                       [IdleSync EXCEPT !.step = "replace", !.list = l, !.zone = z, !.at = now]]
    BY <1>4 DEF MqttSync, storeV
  <2>2. used["sync"] = 0 /\ used'["sync"] = 1 /\ rows = NoRows
    BY <1>1, <1>2, <2>1, SpendFact DEF OneList, Spend, Kinds, ArrivesOnce
  <2>3. syncs'["zone"] = syncs["zone"] /\ syncs'["mqtt"].todo = {}
    BY <1>2, <2>1 DEF IdleSync
  <2>4. \A i \in Ids : SameNext(i)
    BY <2>1 DEF SameNext
  <2> QED BY <1>1, <2>1, <2>2, <2>3, <2>4, SameIsForward DEF ArrivesOnce, InPlace, Done
<1>5. ~ZoneLoad /\ \A z \in Zones : ~ZoneSet(z)
  <2>1. ~ZoneLoad
    BY <1>1 DEF ZoneLoad, ArrivesOnce
  <2>2. ~(used["zone"] < Budget["zone"])
    BY <1>2 DEF OneList
  <2> QED BY <2>1, <2>2 DEF ZoneSet, Spend
<1>6. ASSUME NEW p \in DOMAIN syncs, Replace(p)
      PROVE  ArrivesOnce' /\ \A i \in Ids : InPlace(i)' /\ Forward(i)
  <2> DEFINE s == syncs["mqtt"]
  <2>1. p = "mqtt" /\ s.step = "replace"
    BY <1>1, <1>2, <1>6 DEF Replace, ArrivesOnce
  <2>2. rows = NoRows /\ used["sync"] # 0 /\ UNCHANGED runner
    BY <1>1, <1>6, <2>1 DEF ArrivesOnce, Replace
  <2>3. \A i \in Ids : rows[i] = None /\ runner.snap[i] = None /\ Forward(i)
    BY <1>1, <2>2 DEF NoRows, InPlace, Forward, Planned
  <2>4. CASE Spend("fault") /\ UNCHANGED rows /\ syncs' = [syncs EXCEPT !["mqtt"] = IdleSync]
    <3>1. syncs'["mqtt"] = IdleSync /\ syncs'["zone"] = syncs["zone"]
          /\ used'["sync"] = used["sync"]
      BY <1>1, <1>2, <2>4, SpendFact DEF Kinds
    <3> QED BY <1>1, <1>3, <2>2, <2>3, <2>4, <3>1 DEF ArrivesOnce, InPlace
  <2>5. ASSUME rows' = Carried(s.list, rows), UNCHANGED used,
               NEW todo, todo = {i \in Ids : s.list[i] # None /\ s.list[i].on
                                             /\ FirstRun(s, i) # Never},
               syncs' = [syncs EXCEPT !["mqtt"] =
                          IF todo = {} THEN IdleSync ELSE [@ EXCEPT !.step = "seed", !.todo = todo]]
        PROVE  ArrivesOnce' /\ \A i \in Ids : InPlace(i)' /\ Forward(i)
    <3>1. /\ syncs'["zone"] = syncs["zone"] /\ syncs'["mqtt"].step \in {"idle", "seed"}
          /\ syncs'["mqtt"].todo = todo
      BY <1>2, <1>3, <2>5 DEF SyncRecord
    <3>2. \A i \in todo : rows'[i] # None /\ rows'[i].next = Never
      BY <1>1, <2>1, <2>3, <2>5 DEF Carried, ListIsFresh, Fresh
    <3> QED BY <1>1, <2>2, <2>3, <2>5, <3>1, <3>2 DEF ArrivesOnce, InPlace
  <2> QED BY <1>6, <2>1, <2>4, <2>5 DEF Replace, storeV
<1>7. ASSUME NEW p \in DOMAIN syncs, NEW j \in Ids, Seed(p, j)
      PROVE  ArrivesOnce' /\ \A i \in Ids : InPlace(i)' /\ Forward(i)
  <2> DEFINE s == syncs["mqtt"]
             row == [rows[j] EXCEPT !.next = FirstRun(s, j)]
  <2>1. p = "mqtt" /\ s.step = "seed" /\ j \in s.todo /\ Mutate(j, row) /\ UNCHANGED runner
    BY <1>1, <1>2, <1>7 DEF Seed, SetNextRun, ArrivesOnce
  <2>2. rows[j] # None /\ rows[j].next = Never
    BY <1>1, <2>1 DEF InPlace
  <2>3. row # None
    <3>1. FirstRun(s, j) \in Time
      BY <1>1, <2>1, FirstRuns
    <3>2. rows[j] \in Row
      BY <1>2, <2>2
    <3> QED BY <3>1, <3>2, RowFields, NoneAssumption
  <2> HIDE DEF row
  <2>4. /\ syncs'["zone"] = syncs["zone"] /\ syncs'["mqtt"].step \in {"idle", "seed"}
        /\ syncs'["mqtt"].todo \subseteq s.todo \ {j}
    <3> DEFINE t == [s EXCEPT !.todo = s.todo \ {j}]
    <3>1. syncs' = [syncs EXCEPT !["mqtt"] = IdleSync] \/ syncs' = [syncs EXCEPT !["mqtt"] = t]
      BY <1>2, <1>7, <2>1 DEF Seed
    <3>2. t.step = "seed" /\ t.todo = s.todo \ {j}
      BY <1>2, <2>1 DEF SyncRecord
    <3> HIDE DEF t
    <3> QED BY <1>2, <1>3, <3>1, <3>2
  <2>5. used["sync"] # 0 /\ used'["sync"] = used["sync"]
    BY <1>1, <2>1, MutateCost DEF ArrivesOnce
  <2>6. ArrivesOnce'
    BY <1>1, <2>4, <2>5 DEF ArrivesOnce
  <2>7. ASSUME NEW i \in Ids PROVE InPlace(i)' /\ Forward(i)
    <3>1. CASE i # j
      <4>1. SameNext(i)
        BY <1>1, <2>1, <2>3, <3>1, MutateNext
      <4> QED BY <1>1, <2>1, <2>4, <4>1, SameIsForward DEF InPlace, Done, SameNext
    <3>2. CASE i = j
      <4>1. rows'[j] # None
        BY <1>1, <2>1, <2>2, <2>3, MutateNext DEF SameNext
      <4>2. runner.snap[j] # None => Done(j)
        BY <1>1, <2>2 DEF InPlace, TypeInv, RunnerType, Due
      <4> QED BY <2>1, <2>2, <2>4, <3>2, <4>1, <4>2 DEF InPlace, Done, Forward, Planned
    <3> QED BY <3>1, <3>2
  <2> QED BY <2>6, <2>7
<1> QED BY <1>4, <1>5, <1>6, <1>7 DEF Downlink

LEMMA ForwardInvInit == Init => ForwardInv
<1> SUFFICES ASSUME Init PROVE ForwardInv
  OBVIOUS
<1>1. ArrivesOnce
  BY DEF Init, ArrivesOnce, IdleSync
<1>2. ASSUME NEW i \in Ids PROVE InPlace(i)
  BY DEF Init, InPlace, IdleSync, IdleRunner, NoRows
<1> QED BY <1>1, <1>2, AckInvInit DEF ForwardInv

LEMMA ForwardInvStep ==
  ASSUME OneList, ForwardInv, [Next]_vars
  PROVE  ForwardInv' /\ \A i \in Ids : Forward(i)
<1>1. AckInv'
  BY AckInvStep DEF ForwardInv
<1>2. CASE Ticker \/ Button \/ World
  BY <1>1, <1>2, NoArrival, TickerForward, ButtonForward, WorldForward DEF ForwardInv
<1>3. CASE Downlink
  BY <1>1, <1>3, DownlinkForward DEF ForwardInv
<1>4. CASE UNCHANGED vars
  <2>1. TypeInv /\ \A i \in Ids : SameNext(i)
    BY <1>4 DEF vars, storeV, SameNext, ForwardInv, AckInv
  <2>2. ArrivesOnce' /\ \A i \in Ids : InPlace(i)'
    BY <1>4 DEF vars, storeV, procV, ForwardInv, ArrivesOnce, InPlace, Done
  <2> QED BY <1>1, <2>1, <2>2, SameIsForward DEF ForwardInv
<1> QED BY <1>2, <1>3, <1>4 DEF Next

(* On a device whose list arrives once and whose zone stays, no tick, no   *)
(* retry, no failed write, no restart and no "Run now" ever brings the     *)
(* next run of a task back (RecordRunResult, SetNextRun, DejitterAnchor).  *)
THEOREM NextOnlyForwardAlways ==
  ASSUME Budget["sync"] <= 1, Budget["zone"] = 0
  PROVE  Spec => NextOnlyForward
<1>1. ForwardInv /\ [Next]_vars => ForwardInv'
  BY ForwardInvStep DEF OneList
<1>2. ForwardInv /\ [Next]_vars =>
        [\A i \in Ids :
           (/\ rows[i] # None /\ rows[i].next # Never
            /\ rows'[i] # None /\ rows'[i].next # Never) => rows'[i].next >= rows[i].next]_rows
  BY ForwardInvStep DEF OneList, Forward, Planned
<1> QED BY <1>1, <1>2, ForwardInvInit, PTL DEF Spec, NextOnlyForward
=============================================================================
