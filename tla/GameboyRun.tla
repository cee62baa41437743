----------------------------- MODULE GameboyRun -----------------------------
(***************************************************************************)
(* gameboy_run_until of gameboy.c, one step per call that it makes: one    *)
(* cycle of the timer, one of the CPU, and then as many turns of the loop  *)
(* as there are cycles to go, each of them the two listeners and a cycle   *)
(* of the CPU.                                                             *)
(*                                                                         *)
(* The CPU (CPU, Datapath) and the timer (GBTimer) are seen from outside:  *)
(* a cycle of the CPU ends at some PC, having stored a byte or a word to   *)
(* the timer's registers or not.  None of the calls fails: they are given  *)
(* no NULL, and cpu_cycle keeps its errors to itself.                      *)
(***************************************************************************)
EXTENDS Integers

CONSTANTS
  PCs,         (* where the CPU may be, REG_BOOT_ROM_DISABLE among others     *)
  MaxCalls,    (* bound: calls of gameboy_run_until                          *)
  MaxAbove     (* bound: words stored with DIV or TAC for their upper byte   *)

VARIABLES
  at,              (* the call gameboy_run_until is about to make, or "idle" *)
  cycle,           (* its parameter                                         *)
  err,             (* what it returned last                                 *)
  cycles,          (* gameboy_t.cycles                                      *)
  PC, write_listener,    (* of cpu_t                                        *)
  boot, rom,       (* gameboy_t.boot; what the bus has from 0 to 0xFF         *)
  calls, timer_cycles, cpu_cycles,   (* how often each was called            *)
  announced,       (* the timer has been told if the last cycle changed DIV or TAC *)
  silent,          (* stores to DIV or TAC that it was never told of         *)
  above            (* those that were the upper byte of a word               *)

runVars == << at, cycle, err, cycles, PC, write_listener, boot, rom,
              calls, timer_cycles, cpu_cycles, announced, silent, above >>

REG_BOOT_ROM_DISABLE == "boot rom disable"
Listened == { "DIV", "TAC" }        \* the stores timer_bus_listener acts on
Below    == { "below DIV", "TMA" }  \* the addresses just below DIV and TAC
Stores   == Listened \cup Below \cup { "none" }

RunInit ==
  /\ at = "idle" /\ cycle = 0 /\ err = "ERR_NONE"
  /\ cycles = 1 /\ calls = 0 /\ timer_cycles = 0 /\ cpu_cycles = 0
  /\ PC = "code" /\ write_listener = "none"
  /\ boot = TRUE /\ rom = "boot"
  /\ announced = TRUE /\ silent = 0 /\ above = 0

-----------------------------------------------------------------------------
gameboy_run_until(until) ==
  /\ at = "idle" /\ calls < MaxCalls
  /\ at' = "timer_cycle" /\ cycle' = until /\ calls' = calls + 1
  /\ UNCHANGED << err, cycles, PC, write_listener, boot, rom, timer_cycles, cpu_cycles, announced, silent, above >>

timer_cycle ==
  /\ at = "timer_cycle" /\ at' = "cpu_cycle"
  /\ timer_cycles' = timer_cycles + 1
  /\ UNCHANGED << cycle, err, cycles, PC, write_listener, boot, rom, calls, cpu_cycles, announced, silent, above >>

(* write_listener is cleared first, whether the timer was told of it or not. *)
(* It gets the lower address of a word, whose upper byte may be the one that *)
(* changes DIV or TAC (cpu_write16_at_idx)                                   *)
cpu_cycle ==
  \E word \in BOOLEAN :
    LET upper == word /\ write_listener' \in Below
    IN  /\ cpu_cycles' = cpu_cycles + 1
        /\ PC' \in PCs /\ write_listener' \in Stores
        /\ upper => above < MaxAbove
        /\ announced' = ~(write_listener' \in Listened \/ upper)
        /\ silent' = silent + (IF announced THEN 0 ELSE 1)
        /\ above' = above + (IF upper THEN 1 ELSE 0)
        /\ UNCHANGED << cycle, boot, rom, calls, timer_cycles >>

Loops(n) == IF n < cycle THEN "bootrom_bus_listener" ELSE "idle"

FirstCycle ==
  /\ at = "cpu_cycle" /\ cpu_cycle
  /\ at' = Loops(cycles)
  /\ err' = IF cycle > cycles THEN "ERR_NONE" ELSE "ERR_BAD_PARAMETER"
  /\ UNCHANGED cycles

ForgetsTheFlag ==                                                    \* fault
  /\ at = "bootrom_bus_listener" /\ at' = "timer_bus_listener"
  /\ rom' = (IF boot /\ PC = REG_BOOT_ROM_DISABLE THEN "cartridge" ELSE rom)
  /\ UNCHANGED << cycle, err, cycles, PC, write_listener, boot, calls, timer_cycles, cpu_cycles, announced, silent, above >>
(* The address the boot ROM's listener gets is PC, not write_listener      *)
bootrom_bus_listener ==
  /\ at = "bootrom_bus_listener" /\ at' = "timer_bus_listener"
  /\ IF boot /\ PC = REG_BOOT_ROM_DISABLE
     THEN rom' = "cartridge" /\ boot' = FALSE
     ELSE UNCHANGED << rom, boot >>
  /\ UNCHANGED << cycle, err, cycles, PC, write_listener, calls, timer_cycles, cpu_cycles, announced, silent, above >>

ListensToTACOnly ==                                                  \* fault
  /\ at = "timer_bus_listener" /\ at' = "next_cycle"
  /\ announced' = (announced \/ write_listener = "TAC")
  /\ UNCHANGED << cycle, err, cycles, PC, write_listener, boot, rom, calls, timer_cycles, cpu_cycles, silent, above >>
timer_bus_listener ==
  /\ at = "timer_bus_listener" /\ at' = "next_cycle"
  /\ announced' = (announced \/ write_listener \in Listened)
  /\ UNCHANGED << cycle, err, cycles, PC, write_listener, boot, rom, calls, timer_cycles, cpu_cycles, silent, above >>

CyclesTheTimerToo ==                                                 \* fault
  /\ at = "next_cycle" /\ cycles' = cycles + 1 /\ at' = Loops(cycles + 1)
  /\ cpu_cycles' = cpu_cycles + 1 /\ timer_cycles' = timer_cycles + 1
  /\ PC' \in PCs /\ write_listener' \in Stores /\ announced' = (write_listener' \notin Listened)
  /\ silent' = silent + (IF announced THEN 0 ELSE 1)
  /\ UNCHANGED << cycle, err, boot, rom, calls, above >>
WaitsForNoStore ==                                                   \* fault
  \/ /\ at = "next_cycle" /\ write_listener = "none" /\ cpu_cycle
     /\ cycles' = cycles + 1 /\ at' = Loops(cycles + 1) /\ UNCHANGED err
  \/ /\ at = "next_cycle" /\ write_listener # "none" /\ at' = Loops(cycles)
     /\ UNCHANGED << cycle, err, cycles, PC, write_listener, boot, rom, calls,
                     timer_cycles, cpu_cycles, announced, silent, above >>
NextCycle ==
  /\ at = "next_cycle" /\ cpu_cycle
  /\ cycles' = cycles + 1
  /\ at' = Loops(cycles + 1)
  /\ UNCHANGED err

Running == timer_cycle \/ FirstCycle \/ bootrom_bus_listener \/ timer_bus_listener \/ NextCycle

-----------------------------------------------------------------------------
RunTypeOK ==
  /\ at \in { "idle", "timer_cycle", "cpu_cycle", "bootrom_bus_listener", "timer_bus_listener", "next_cycle" }
  /\ cycle \in Nat /\ cycles \in Nat /\ err \in { "ERR_NONE", "ERR_BAD_PARAMETER" }
  /\ PC \in PCs \cup { "code" } /\ write_listener \in Stores
  /\ boot \in BOOLEAN /\ rom = IF boot THEN "boot" ELSE "cartridge"
  /\ calls \in Nat /\ timer_cycles \in Nat /\ cpu_cycles \in Nat
  /\ announced \in BOOLEAN /\ silent \in Nat /\ above \in Nat

(***************************************************************************)
(* Each cycle counted is a cycle of the CPU, and each call adds one more   *)
(* that is not counted, and the only cycle of the timer: however the       *)
(* cycles are cut into calls, the timer has run once per call and lags     *)
(* behind the CPU by what was counted.                                     *)
(***************************************************************************)
TimerLagsBehind ==
  at = "idle" => timer_cycles = calls /\ cpu_cycles = timer_cycles + (cycles - 1)

(***************************************************************************)
(* The timer is told of a store to DIV or TAC before the CPU goes on, with *)
(* two exceptions and no third: the last store of a call, which the first  *)
(* cycle of the next call hides, so that at most one is lost from one call *)
(* to the next; and the upper byte of a word, which it is never told of.   *)
(***************************************************************************)
FirstCycles == calls - (IF at \in { "timer_cycle", "cpu_cycle" } THEN 1 ELSE 0)
LastIsAbove == ~announced /\ write_listener \in Below
Unheard     == IF LastIsAbove THEN above - 1 ELSE above       \* those before the last store
HeardButForTwo ==
  /\ Unheard <= silent
  /\ silent <= Unheard + (IF FirstCycles = 0 THEN 0 ELSE FirstCycles - 1)

(***************************************************************************)
(* A call whose end lies ahead comes to it, not past it, and returns       *)
(* (the loop of gameboy_run_until); any other one returns having run the   *)
(* timer and the CPU once and reports an error.                            *)
(***************************************************************************)
StopsOnTime ==
  at = "idle" /\ calls > 0 => IF err = "ERR_NONE" THEN cycles = cycle ELSE cycles >= cycle
=============================================================================
