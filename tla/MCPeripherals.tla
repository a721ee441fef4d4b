--------------------------- MODULE MCPeripherals ---------------------------
(* Two scenes for TLC: one that closes speaker and camera, one that opens. *)
EXTENDS Peripherals

TwoScenes == [night |-> "off", relax |-> "on"]
=============================================================================
