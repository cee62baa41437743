------------------------------- MODULE MCCPU -------------------------------
(***************************************************************************)
(* CPU with 3-bit bytes and 6-bit addresses, on programs made of jumps,    *)
(* calls, returns, EI, DI and HALT only (what the code can run past one    *)
(* instruction), with the stack where cpu_init puts it.                    *)
(***************************************************************************)
EXTENDS CPU

CONSTANT MaxDepth   \* interrupts are requested while the stack is no deeper

MCBits    == 3
MCByte    == 8
MCLines   == 2
MCRegIF   == 50
MCHandler == [i \in 0 .. 1 |-> 32 + 8 * i]

Op(family, bytes, cycles, arg) ==
  { [family |-> family, bytes |-> bytes, cycles |-> cycles, arg |-> arg] }

(***************************************************************************)
(* The main program enables interrupts, calls a subroutine and sleeps in a *)
(* loop.  The subroutine may return early, may call a leaf, enters the     *)
(* second handler with RST and may run on into the leaf.  The first        *)
(* handler only returns; the second turns interrupts on again, so that     *)
(* others nest in it.                                                      *)
(***************************************************************************)
MCCode == [a \in 0 .. 63 |->
  CASE a = 0  -> Op("EI", 1, 1, 0)
    [] a = 1  -> Op("JP", 3, 4, 24)
    [] a = 4  -> Op("DI", 1, 1, 0)
    [] a = 5  -> Op("STOP", 1, 0, 0)
    [] a = 6  -> Op("JR", 2, 3, 56)
    [] a = 8  -> Op("CALL_CC", 3, 3, 16)
    [] a = 11 -> Op("RET_CC", 1, 2, 0)
    [] a = 12 -> Op("RST", 1, 4, 40)
    [] a = 13 -> Op("JP_CC", 3, 3, 8)
    [] a = 16 -> Op("NOP", 1, 1, 0)
    [] a = 17 -> Op("JR", 2, 3, 0)
    [] a = 19 -> Op("RET", 1, 4, 0)
    [] a = 24 -> Op("CALL", 3, 6, 8)
    [] a = 27 -> Op("HALT", 1, 0, 0)
    [] a = 28 -> Op("JR_CC", 2, 2, 58)
    [] a = 30 -> Op("JR", 2, 3, 36)
    [] a = 32 -> Op("RETI", 1, 4, 0)
    [] a = 40 -> Op("EI", 1, 1, 0)
    [] a = 41 -> Op("NOP", 1, 1, 0)
    [] a = 42 -> Op("RETI", 1, 4, 0)
    [] OTHER  -> Op("UNKN", 1, 1, 0)]

MCNext ==
  \/ cpu_cycle
  \/ Depth <= MaxDepth /\ \E i \in Lines : cpu_request_interrupt(i)

MCSpec == Init /\ [][MCNext]_vars /\ WF_vars(cpu_cycle)

(***************************************************************************)
(* The stack cpu_init sets up: SP is 0, so the first frame wraps to the    *)
(* top of memory and its high byte is stored in REG_IE, where it decides   *)
(* which interrupts are enabled: both lines while the frame returns to the *)
(* main loop, none while it returns to what comes before it.               *)
(***************************************************************************)
MCSP      == 0
MCIE      == {}
MCTracked == 51 .. 62

ASSUME BytesAssumption == BytesAreTheirBits
=============================================================================
