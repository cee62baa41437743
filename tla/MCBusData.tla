----------------------------- MODULE MCBusData -----------------------------
(***************************************************************************)
(* BusData on a few addresses, with stores of a byte that no array has at  *)
(* first.                                                                  *)
(***************************************************************************)
EXTENDS BusData, TLC

CONSTANTS c1, c2, c3

Trio     == { c1, c2, c3 }
Permuted == Permutations(Components)

MCWords    == { [low |-> 1, high |-> 2] }
MCSizes    == { 0, 2, 4 }
Unreliable == { "done", "no_struct", "no_array" }
=============================================================================
