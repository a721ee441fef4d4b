-------------------------- MODULE MCScheduleRunner --------------------------
(***************************************************************************)
(* Small instances of ScheduleRunner: a task whose jitter makes it early,  *)
(* one that is moved and becomes late, one that recurs at an interval and  *)
(* requires a connector, and the lists that a backend sends as its user    *)
(* edits, disables and deletes them.                                       *)
(***************************************************************************)
EXTENDS ScheduleRunner, TLC

CONSTANTS t1, t2

Clock(times, jitter) ==
  [kind |-> "clock", times |-> times, every |-> 1, jitter |-> jitter, requires |-> FALSE]
Early    == Clock({2, 3}, -1)
Late     == Clock({3}, 1)
Interval == [kind |-> "interval", times |-> {}, every |-> 2, jitter |-> 0, requires |-> TRUE]

Once     == [kind |-> "once", times |-> {2}, every |-> 1, jitter |-> 0, requires |-> FALSE]

AllCadences == {Early, Late, Interval, Once}
New(c, on) == [cad |-> c, on |-> on, next |-> Never, status |-> "none", failed |-> Never]

Both   == {[i \in {t1, t2} |-> New(IF i = t1 THEN Early ELSE Interval, TRUE)]}
Same   == {[i \in {t1} |-> New(Early, TRUE)]}
Moment == Same \cup {[i \in {t1} |-> New(Once, TRUE)]}
Edits  == Same \cup {[i \in {t1} |-> New(Late, TRUE)], [i \in {t1} |-> New(Early, FALSE)],
                   [i \in {t1} |-> None]}

Spending(x) == [k \in Kinds |-> IF k \in DOMAIN x THEN x[k] ELSE 0]
QuietBudget == Spending([sync |-> 1, run |-> 1, fault |-> 1, failure |-> 1, connector |-> 1])
SyncBudget  == Spending([sync |-> 2, fault |-> 1, failure |-> 2, crash |-> 1])
ZonesBudget == Spending([sync |-> 1, zone |-> 2, user |-> 1])
=============================================================================
