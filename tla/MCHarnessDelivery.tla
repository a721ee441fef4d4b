------------------------- MODULE MCHarnessDelivery -------------------------
(***************************************************************************)
(* Small instances of HarnessDelivery: one task, and two tasks of two      *)
(* voice turns that the computer answers together, or the first alone.    *)
(***************************************************************************)
EXTENDS HarnessDelivery, TLC

CONSTANTS k1, k2, r1, r2, a1, d1, d2, s1, s2

Frame(members) == [agent |-> a1, members |-> members, long |-> FALSE, alias |-> None]

TwoRuns == k1 :> r1 @@ k2 :> r2
OneRun  == k1 :> r1
TwoIds  == k1 :> d1 @@ k2 :> d2
OneId   == k1 :> d1

SingleOutcome == s1 :> Frame(OneId)
GroupOutcomes == SingleOutcome @@ s2 :> Frame(TwoIds)
SingleFrames  == {SingleOutcome[s] : s \in DOMAIN SingleOutcome}
GroupFrames   == {GroupOutcomes[s] : s \in DOMAIN GroupOutcomes}

Generations2 == 0 .. 2
Generations3 == 0 .. 3
=============================================================================
