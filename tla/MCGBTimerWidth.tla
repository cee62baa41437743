--------------------------- MODULE MCGBTimerWidth ---------------------------
(***************************************************************************)
(* GBTimer at the program's own widths (16-bit counter, bits 9, 3, 5, 7),  *)
(* driven as unit-test-timer.c drives it: TAC is stored once, then only    *)
(* timer cycles and acknowledged interrupts follow, around every wrap of   *)
(* the counter and of TIMA.                                                *)
(***************************************************************************)
EXTENDS GBTimer

GBByte   == 256
GBTics   == 4
GBWeight == [s \in Selectors |-> CASE s = 0 -> 2^9 [] s = 1 -> 2^3 [] s = 2 -> 2^5 [] s = 3 -> 2^7]
GBStored == 4 .. 7

WidthNext ==
  \/ /\ reg["TAC"] = 0
     /\ \E tac \in Stored : CpuStore("TAC", tac)
  \/ /\ reg["TAC"] # 0
     /\ timer_cycle \/ CpuAcknowledge

WidthSpec == Init /\ [][WidthNext]_vars

(***************************************************************************)
(* The closed form unit-test-timer.c samples at 0xFFFC: with TMA at zero   *)
(* TIMA counts whole periods of the selected bit, modulo what both TIMA    *)
(* and one turn of the counter can hold, and DIV is the high byte.         *)
(***************************************************************************)
TimaCountsPeriods ==
  LET period == 2 * Weight[reg["TAC"] % 4]
      turn   == (Byte * Byte) \div period
  IN  /\ (reg["TIMA"] - counter \div period) % (IF turn < Byte THEN turn ELSE Byte) = 0
      /\ reg["DIV"] = counter \div Byte
=============================================================================
