------------------------------- MODULE MCBus -------------------------------
(***************************************************************************)
(* Bus on a few addresses, under any calls.  Blocks are numbered in the     *)
(* order of their allocation, so only the components are interchangeable.  *)
(***************************************************************************)
EXTENDS Bus, TLC

CONSTANTS c1, c2

Pair     == { c1, c2 }
Permuted == Permutations(Components)

AnySizes   == { 1, 2 }
Unreliable == { "done", "no_struct", "no_array" }
=============================================================================
