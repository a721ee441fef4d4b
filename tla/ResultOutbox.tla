---------------------------- MODULE ResultOutbox ----------------------------
(***************************************************************************)
(* What ResultStore promises to the code around it (docs/harness.md,       *)
(* "Grouped-result storage and delivery"), with no ledger, file or failed  *)
(* write in sight.  A tracked task is answered once, together with all the *)
(* tasks of its group.  A result is queued for speech or settled silently; *)
(* a queued one is granted to one caller or withdrawn; a grant is settled  *)
(* by its holder, or by the restart of the process, and never returns.     *)
(***************************************************************************)
CONSTANTS Keys, ResultIds, None

VARIABLES
  tracked,  \* the tasks whose result is awaited or known
  answer,   \* the result of each task, or None
  speech    \* what became of the speech of each result

Init ==
  /\ tracked = {}
  /\ answer = [k \in Keys |-> None]
  /\ speech = [s \in ResultIds |-> "none"]

Track(k) ==
  /\ k \notin tracked
  /\ tracked' = tracked \cup {k}
  /\ UNCHANGED <<answer, speech>>

Resolve(s, group) ==
  /\ speech[s] = "none"
  /\ group # {} /\ \A k \in group : k \in tracked /\ answer[k] = None
  /\ answer' = [k \in Keys |-> IF k \in group THEN s ELSE answer[k]]
  /\ \E sp \in {"queued", "settled"} : speech' = [speech EXCEPT ![s] = sp]
  /\ UNCHANGED tracked

Move(s, from, to) ==
  /\ speech[s] = from
  /\ speech' = [speech EXCEPT ![s] = to]
  /\ UNCHANGED <<tracked, answer>>

Grant(s)    == Move(s, "queued", "granted")
Withdraw(s) == Move(s, "queued", "settled")
Settle(s)   == Move(s, "granted", "settled")

(* A restart settles every grant whose holder is gone. *)
Restart ==
  /\ speech' = [s \in ResultIds |-> IF speech[s] = "granted" THEN "settled" ELSE speech[s]]
  /\ UNCHANGED <<tracked, answer>>

Next ==
  \/ \E k \in Keys : Track(k)
  \/ \E s \in ResultIds, group \in SUBSET Keys : Resolve(s, group)
  \/ \E s \in ResultIds : Grant(s) \/ Withdraw(s) \/ Settle(s)
  \/ Restart

Spec == Init /\ [][Next]_<<tracked, answer, speech>>
=============================================================================
