---------------------------- MODULE MCSimulator -----------------------------
(***************************************************************************)
(* Simulator with two keys and a clock of three units, each of them one    *)
(* cycle and a half.                                                       *)
(***************************************************************************)
EXTENDS Simulator

MCPCs == { "code", REG_BOOT_ROM_DISABLE }
=============================================================================
