----------------------------- MODULE MCGBTimer -----------------------------
(***************************************************************************)
(* GBTimer scaled down for TLC: 3-bit registers, a 6-bit counter, two tics *)
(* per cycle and selectable bits 1, 2, 3 and 4, of which the last one lies *)
(* in the high byte as bit 9 does in the program.                          *)
(***************************************************************************)
EXTENDS GBTimer

MCByte   == 8
MCTics   == 2
MCWeight == [s \in Selectors |-> CASE s = 0 -> 16 [] s = 1 -> 2 [] s = 2 -> 4 [] s = 3 -> 8]
MCStored == { 0, 4, 7 }
=============================================================================
