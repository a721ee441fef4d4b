---------------------------- MODULE MCMicSwitch ----------------------------
(***************************************************************************)
(* Small instances of MicSwitch: two threads that serve requests, and how  *)
(* much each run lets happen.                                              *)
(***************************************************************************)
EXTENDS MicSwitch, TLC

CONSTANTS u1, u2

ManyRequests == [request |-> 2, flip |-> 1, restart |-> 1]
OneRequest   == [request |-> 1, flip |-> 1, restart |-> 0]
=============================================================================
