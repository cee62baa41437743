------------------------------ MODULE GBTimer ------------------------------
(***************************************************************************)
(* The Game Boy timer of timer.c: a free-running counter whose high byte   *)
(* is mirrored in DIV, and a secondary counter TIMA that advances on each  *)
(* falling edge of one selected bit of the counter.                        *)
(*                                                                         *)
(* The callers of timer_cycle and timer_bus_listener may interleave with   *)
(* the program's stores to the four registers in any order, the one of     *)
(* gameboy_run_until among others.  The registers are plugged into the     *)
(* bus as the unit test of the timer does, so no bus access fails.         *)
(*                                                                         *)
(* Definitions marked "fault" are plausible mistakes in the definition     *)
(* below them; nothing uses them but the check that each property can be   *)
(* broken.                                                                 *)
(***************************************************************************)
EXTENDS Integers

CONSTANTS
  Byte,      (* number of values of data_t; 2^8 in the program            *)
  Stored,    (* the bytes the program stores to the timer's registers     *)
  Tics,      (* GB_TICS_PER_CYCLE, counter increments per machine cycle   *)
  Weight     (* Weight[s]: weight of the counter bit TAC's low bits select *)

Selectors == 0 .. 3
Counters  == 0 .. Byte * Byte - 1

(***************************************************************************)
(* What the proofs need of the constants.  The program has Byte = 256,     *)
(* Tics = 4 and Weight = 2^9, 2^3, 2^5, 2^7 for the selectors 0 to 3.      *)
(***************************************************************************)
ASSUME ByteAssumption == Byte \in Nat /\ Byte > 1

ASSUME StoredAssumption == Stored \subseteq 0 .. Byte - 1

ASSUME TicsAssumption == Tics \in Nat \ {0} /\ Byte % Tics = 0

ASSUME WeightAssumption ==
  /\ Weight \in [Selectors -> Nat \ {0}]
  /\ \A s \in Selectors : /\ Weight[s] % Tics = 0
                          /\ (Byte * Byte) % (2 * Weight[s]) = 0

VARIABLES
  counter,         (* gbtimer_t.counter                                   *)
  reg,             (* the bytes the bus holds at REG_DIV .. REG_TAC        *)
  IFlags,          (* cpu_t.IF, as the set of its raised bits              *)
  write_listener   (* cpu_t.write_listener: the last address stored to     *)

vars == << counter, reg, IFlags, write_listener >>

TIMER == 2                                 \* interrupt_t, cpu.h
Regs  == { "DIV", "TIMA", "TMA", "TAC" }   \* REG_DIV .. REG_TAC, in order
NoAddr == "none"                           \* no store in the last CPU cycle

MaxByte == Byte - 1                        \* TIMA_MAX_CYCLES

TypeOK ==
  /\ counter \in Counters
  /\ reg \in [Regs -> 0 .. MaxByte]
  /\ IFlags \subseteq 0 .. 4
  /\ write_listener \in Regs \cup { NoAddr }

-----------------------------------------------------------------------------
(* msb8 *)
msb8(c) == c \div Byte

(* bit_get, for a bit given by its weight *)
bit_get(value, weight) == (value \div weight) % 2

(* timer_state: the selected counter bit, masked by bit 2 of TAC *)
Enabled(tac) == bit_get(tac, 4) = 1
ReadsBitEight(c, tac) ==                                             \* fault
  IF Enabled(tac) THEN bit_get(c, IF tac % 4 = 0 THEN Weight[0] \div 2 ELSE Weight[tac % 4]) ELSE 0
timer_state(c, tac) == IF Enabled(tac) THEN bit_get(c, Weight[tac % 4]) ELSE 0

(* timer_incr_if_state_change, with the old state taken at the present       *)
(* counter: TIMA advances when the selected bit falls, and past its maximum   *)
(* it is reloaded from TMA and the CPU is asked for a TIMER interrupt.        *)
RisesInstead(c, tac) == timer_state(counter, tac) = 0 /\ timer_state(c, tac) = 1   \* fault
Falls(c, tac) == timer_state(counter, tac) = 1 /\ timer_state(c, tac) = 0
ForgetsReload(c, div) ==                                             \* fault
  /\ counter' = c
  /\ reg' = [reg EXCEPT !["DIV"] = div, !["TIMA"] = IF Falls(c, reg["TAC"]) THEN @ + 1 ELSE @]
  /\ UNCHANGED IFlags
ComparesGreater(c, div) ==                                           \* fault
  /\ counter' = c
  /\ reg' = [reg EXCEPT !["DIV"] = div,
                        !["TIMA"] = IF Falls(c, reg["TAC"]) THEN (@ + 1) % Byte ELSE @]
  /\ IFlags' = IFlags \cup (IF reg["TIMA"] > MaxByte THEN { TIMER } ELSE {})
Advance(c, div) ==
  LET falls     == Falls(c, reg["TAC"])
      overflows == falls /\ reg["TIMA"] = MaxByte
      tima      == IF overflows THEN reg["TMA"]
                   ELSE IF falls THEN reg["TIMA"] + 1 ELSE reg["TIMA"]
  IN  /\ counter' = c
      /\ reg' = [reg EXCEPT !["DIV"] = div, !["TIMA"] = tima]
      /\ IFlags' = IFlags \cup (IF overflows THEN { TIMER } ELSE {})

(* timer_cycle *)
CountsOne ==                                                         \* fault
  LET c == (counter + 1) % (Byte * Byte)
  IN  Advance(c, msb8(c)) /\ UNCHANGED write_listener
WritesDivFirst ==                                                    \* fault
  Advance((counter + Tics) % (Byte * Byte), msb8(counter)) /\ UNCHANGED write_listener
timer_cycle ==
  LET c == (counter + Tics) % (Byte * Byte)
  IN  Advance(c, msb8(c)) /\ UNCHANGED write_listener

(***************************************************************************)
(* timer_bus_listener(write_listener).  A store to DIV clears the counter. *)
(* For TAC the old state is read after the store has reached the bus, so   *)
(* the counter and the selection are the same on both sides of the         *)
(* comparison.  Other addresses are ignored.                               *)
(***************************************************************************)
timer_bus_listener ==
  /\ CASE write_listener = "DIV" -> Advance(0, 0)
       [] write_listener = "TAC" -> Advance(counter, reg["DIV"])
       [] OTHER                  -> UNCHANGED << counter, reg, IFlags >>
  /\ UNCHANGED write_listener

-----------------------------------------------------------------------------
(***************************************************************************)
(* The CPU as the timer sees it.  cpu_cycle first clears write_listener; a *)
(* one-byte store records its address, a two-byte store only its lower     *)
(* address, so one that starts just below DIV, or at TMA, changes DIV or   *)
(* TAC without the listener being told.                                    *)
(***************************************************************************)
Stores(newReg, addr) ==
  /\ reg' = newReg
  /\ write_listener' = addr
  /\ UNCHANGED << counter, IFlags >>

CpuNoStore == Stores(reg, NoAddr)

CpuStore(r, v) == Stores([reg EXCEPT ![r] = v], r)

NextReg == [r \in Regs \ { "TAC" } |->
              CASE r = "DIV" -> "TIMA" [] r = "TIMA" -> "TMA" [] r = "TMA" -> "TAC"]
CpuStore16(r, v, w) == Stores([reg EXCEPT ![r] = v, ![NextReg[r]] = w], r)

CpuStore16Below(w) == Stores([reg EXCEPT !["DIV"] = w], NoAddr)

(* handle_interruption: the CPU takes the TIMER interrupt *)
CpuAcknowledge ==
  /\ TIMER \in IFlags
  /\ IFlags' = IFlags \ { TIMER }
  /\ write_listener' = NoAddr
  /\ UNCHANGED << counter, reg >>

-----------------------------------------------------------------------------
(* timer_init; the registers' memory comes zeroed from calloc *)
Init ==
  /\ counter = 0
  /\ reg = [r \in Regs |-> 0]
  /\ IFlags = {}
  /\ write_listener = NoAddr

CpuCycle ==
  \/ CpuNoStore
  \/ \E r \in Regs, v \in Stored : CpuStore(r, v)
  \/ \E r \in Regs \ { "TAC" }, v, w \in Stored : CpuStore16(r, v, w)
  \/ \E w \in Stored : CpuStore16Below(w)
  \/ CpuAcknowledge

Next ==
  \/ timer_cycle
  \/ timer_bus_listener
  \/ CpuCycle

(***************************************************************************)
(* gameboy_run_until begins with a timer_cycle, and the main loop calls it *)
(* again for as long as the simulation runs: timer_cycle keeps happening.  *)
(***************************************************************************)
Spec == Init /\ [][Next]_vars /\ WF_vars(timer_cycle)

-----------------------------------------------------------------------------
(***************************************************************************)
(* The counter only takes multiples of GB_TICS_PER_CYCLE, so no selectable *)
(* bit can be stepped over (timer_cycle, the DIV branch of the listener).  *)
(***************************************************************************)
CounterAligned == counter % Tics = 0

(***************************************************************************)
(* Whenever timer.c moves the counter it also brings DIV back to the       *)
(* counter's high byte: a stale DIV is one the program stored and the      *)
(* timer has not been run since.                                           *)
(***************************************************************************)
DivFollowsCounter ==
  [][counter' # counter => reg'["DIV"] = counter' \div Byte]_vars

(***************************************************************************)
(* An enabled timer whose registers the program leaves alone requests its  *)
(* interrupt again after each time the CPU takes it: wherever the counter, *)
(* TIMA and the selection stand, a falling edge and then an overflow come  *)
(* (timer_cycle, timer_incr_if_state_change).                              *)
(***************************************************************************)
ProgramStores ==
  \/ \E r \in Regs, v \in Stored : CpuStore(r, v)
  \/ \E r \in Regs \ { "TAC" }, v, w \in Stored : CpuStore16(r, v, w)
  \/ \E w \in Stored : CpuStore16Below(w)

LeftAlone ==
  /\ <>[][~ProgramStores]_vars
  /\ <>[](write_listener # "DIV" /\ Enabled(reg["TAC"]))

KeepsRequesting == LeftAlone => []<>(TIMER \in IFlags)

-----------------------------------------------------------------------------
(* The timer described without bits: see TimerRate.                          *)
Rate == INSTANCE TimerRate WITH
          Byte   <- Byte,
          Wrap   <- (Byte * Byte) \div Tics,
          Half   <- [s \in Selectors |-> Weight[s] \div Tics],
          age    <- counter \div Tics,
          tima   <- reg["TIMA"],
          tma    <- reg["TMA"],
          tac    <- reg["TAC"],
          timer  <- TIMER \in IFlags

(***************************************************************************)
(* The timer ticks exactly as TimerRate promises: once each time the       *)
(* counter's age reaches a multiple of the selected period, and on a store *)
(* to DIV only when half a period or more had gone by.                     *)
(***************************************************************************)
TicksAtTheSelectedRate == Rate!Spec
=============================================================================
