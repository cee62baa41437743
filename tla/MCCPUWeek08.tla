---------------------------- MODULE MCCPUWeek08 ----------------------------
(***************************************************************************)
(* The start of the program of test-cpu-week08.c, at a scale of 3-bit      *)
(* bytes.                                                                  *)
(***************************************************************************)
EXTENDS CPU

WeekBits    == 3
WeekByte    == 8
WeekLines   == 2
WeekRegIF   == 50
WeekHandler == [i \in 0 .. 1 |-> 32 + 8 * i]
WeekTracked == { 60, 61 }
WeekSP      == 0
WeekIE      == {}

Op(family) == { [family |-> family, bytes |-> 1, cycles |-> 1, arg |-> 0] }

(* NOP, LD A,A, LD B,B and LD C,C, which opcode.h all has as NOP, then LD D,C *)
WeekCode == [a \in Addrs |-> IF a < 4 THEN Op("NOP") ELSE Op("LD")]

(***************************************************************************)
(* The program of test-cpu-week08.c runs on to the NOP at address 8, where *)
(* test-cpu-week08-output.txt has the registers printed (cpu_dispatch, the *)
(* ALU and STORAGE families).                                              *)
(***************************************************************************)
Week08ReachesItsNOP == <>(PC = 8)
=============================================================================
