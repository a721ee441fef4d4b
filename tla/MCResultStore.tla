--------------------------- MODULE MCResultStore ---------------------------
(***************************************************************************)
(* A small instance of ResultStore.  The frames are two of those that      *)
(* ParseSummaryResult accepts: a group over both keys, and a single input  *)
(* that names its local run and whose text is too long to be spoken.       *)
(***************************************************************************)
EXTENDS ResultStore

CONSTANTS k1, k2, r1, r2, a1, web, voice1, d1, d2

Single(k, dl, long, alias) ==
  [agent |-> a1, members |-> [x \in {k} |-> dl], long |-> long, alias |-> alias]
Group(dl1, dl2, long) ==
  [agent |-> a1, members |-> [x \in {k1, k2} |-> IF x = k1 THEN dl1 ELSE dl2],
   long |-> long, alias |-> None]

TaskFrames == {Single(k1, d1, TRUE, r1), Group(d1, d2, FALSE)}
=============================================================================
