----------------------------- MODULE MCDatapath -----------------------------
(***************************************************************************)
(* Three kinds of behaviours of Datapath, chosen by run:                   *)
(*   - PROGRAM: cpu_cycle on any of the 512 opcodes, in each of the        *)
(*     situations below, for MaxCycles cycles, with interrupts requested   *)
(*     before an instruction where the situation has some enabled;          *)
(*   - 1 .. Len(Runs): a run of the unit tests, step by step;              *)
(*   - ARITHMETIC: no step, A is each byte in turn, for the laws of ALU.   *)
(***************************************************************************)
EXTENDS DispatchTests, DatapathControl

CONSTANT MaxCycles

VARIABLES run, at          \* at: the cycles or the steps done

mcvars == << cpu, run, at >>

PROGRAM == 0
ARITHMETIC == -1

Registers(b, c, d, e, h, l, a) ==
  [r \in RegCodes |-> CASE r = 0 -> b [] r = 1 -> c [] r = 2 -> d [] r = 3 -> e
                        [] r = 4 -> h [] r = 5 -> l [] r = 7 -> a]

Situation(reg, F, PC, SP, bytes, lines) ==
  [cpu |-> [cpu_init EXCEPT !.reg = reg, !.F = F, !.PC = PC, !.SP = SP], operand |-> bytes,
   lines |-> lines]

(***************************************************************************)
(* An ordinary program; one whose operands wrap at the top of memory; the  *)
(* stack at the two addresses where a pop or a push meets the top; HL, BC  *)
(* and the operand naming REG_IF or REG_IE, with the stack just above      *)
(* REG_IF, and two lines enabled; relative jumps backwards.                *)
(***************************************************************************)
Ordinary  == Situation(Registers(1, 2, 192, 16, 192, 32, 60), 0, 256, 53248, <<18, 192>>, {})
AtTheTop  == Situation(Registers(255, 0, 0, 255, 0, 0, 240), 240, 65534, 2, <<129, 255>>, {})
TopOfStack    == Situation(Registers(15, 240, 16, 1, 255, 255, 128), 160, 512, 65535, <<240, 254>>, {})
BottomOfStack == Situation(Registers(127, 128, 255, 15, 255, 254, 255), 80, 0, 1, <<0, 1>>, {})
OnInterruptRegisters ==
  Situation(Registers(255, 15, 255, 255, 255, 15, 19), 16, 768, 65298, <<15, 255>>, {0, 4})

Situations == { Ordinary, AtTheTop, TopOfStack, BottomOfStack, OnInterruptRegisters }

(* The opcodes, the prefixed ones as two bytes                              *)
Opcodes512 == { <<op>> : op \in Byte \ {PREFIXED} } \cup { <<PREFIXED, op>> : op \in Byte }

Poke(mem, addr, bytes) ==
  LET At(k) == Plus16(addr, k - 1)
  IN  [a \in DOMAIN mem \cup { At(k) : k \in DOMAIN bytes } |->
         IF \E k \in DOMAIN bytes : At(k) = a
           THEN bytes[CHOOSE k \in DOMAIN bytes : At(k) = a] ELSE mem[a]]

Enabled(lines) == (IF 0 \in lines THEN 1 ELSE 0) + (IF 4 \in lines THEN 16 ELSE 0)

Programs ==
  { [s.cpu EXCEPT !.mem = [Poke(@, s.cpu.PC, op \o s.operand) EXCEPT ![REG_IE] =
                             IF s.lines = {} THEN @ ELSE Enabled(s.lines)],
                  !.IME = (s.lines # {})] : s \in Situations, op \in Opcodes512 }
  \cup { [Ordinary.cpu EXCEPT !.mem = [@ EXCEPT ![REG_IE] = 33, ![REG_IF] = flags],
                              !.HALT = TRUE, !.IME = ime] : flags \in {0, 32}, ime \in BOOLEAN }

MCInit ==
  \/ run = PROGRAM /\ at = 0 /\ cpu \in Programs
  \/ run \in DOMAIN Runs /\ at = 0 /\ cpu = cpu_init
  \/ run = ARITHMETIC /\ at = 0 /\ \E a \in Byte : cpu = [cpu_init EXCEPT !.reg[REG_A_CODE] = a]

Cycle ==
  /\ run = PROGRAM /\ at < MaxCycles
  /\ cpu_cycle
  /\ at' = at + 1 /\ UNCHANGED run

Request ==
  /\ run = PROGRAM /\ cpu.idle_time = 0 /\ at < MaxCycles
  /\ cpu_read_at_idx(cpu, REG_IE) \in {17, 33}
  /\ \E i \in {0, 4} : cpu_request_interrupt(i)
  /\ UNCHANGED << run, at >>

TestStep ==
  /\ run \in DOMAIN Runs /\ at < Len(Runs[run])
  /\ at' = at + 1
  /\ cpu' = Dispatched(Runs[run][at + 1], cpu)
  /\ UNCHANGED run

MCNext == Cycle \/ Request \/ TestStep

MCSpec == MCInit /\ [][MCNext]_mcvars

-----------------------------------------------------------------------------
(***************************************************************************)
(* What week 8 and week 9 assert of cpu_dispatch: after each step of each  *)
(* test the registers, flags, memory, PC and SP show what it expects, on   *)
(* the CPU the earlier steps left, and no dispatch is refused.             *)
(***************************************************************************)
TestsHold ==
  run \in DOMAIN Runs /\ at > 0 =>
    LET step == Runs[run][at]
    IN  ~Fails(step.lu) /\ \A k \in DOMAIN step.expect : Shows(cpu, step.expect[k])

(***************************************************************************)
(* The tables of opcode.c decode as cpu.c dispatches them: an entry lies   *)
(* at its own opcode, a conditional one names its condition, and no        *)
(* instruction on a register names the code 6, which cpu_reg_get would     *)
(* answer with 0 and cpu_reg_set ignore; none is refused by                *)
(* cpu_dispatch_storage (opcode_check_integrity, extract_reg).             *)
(***************************************************************************)
OnFirst  == { "ADD_A_R8", "SUB_A_R8", "AND_A_R8", "OR_A_R8", "XOR_A_R8", "CP_A_R8", "SLA_R8", "SRA_R8",
              "SRL_R8", "ROTC_R8", "ROT_R8", "SWAP_R8", "BIT_U3_R8", "CHG_U3_R8", "LD_HLR_R8", "LD_R8_R8" }
OnSecond == { "INC_R8", "DEC_R8", "LD_R8_HLR", "LD_R8_N8", "LD_R8_R8" }

EntryAgrees(table, kind, i) ==
  LET lu == table[i]
  IN  /\ lu.kind = kind
      /\ lu.family = "UNKN" \/ lu.opcode = i
      /\ lu.family \in OnFirst  => extract_reg(i, 0) \in RegCodes
      /\ lu.family \in OnSecond => extract_reg(i, 3) \in RegCodes
      /\ Fails(lu) => lu.family = "UNKN"

TablesAgree ==
  run = ARITHMETIC =>
    LET i == cpu.reg[REG_A_CODE]
    IN  EntryAgrees(instruction_direct, "DIRECT", i) /\ EntryAgrees(instruction_prefixed, "PREFIXED", i)

(***************************************************************************)
(* The arithmetic of alu.c, done nibble by nibble and byte by byte with    *)
(* the carries handed on, is that of numbers, in value and in flags.       *)
(***************************************************************************)
ArithmeticIsExact ==
  run = ARITHMETIC =>
    LET x == cpu.reg[REG_A_CODE]
    IN  /\ \A y \in Byte, c \in Bit : SumIsExact(x, y, c) /\ DifferenceIsExact(x, y, c)
        /\ \A y \in Byte : WideSumIsExact(merge8(x, y), merge8(y, x)) /\ WideSumIsExact(257 * x, y)
        /\ \A c \in Bit : CarryRotationIsExact(x, c)
        /\ ShiftIsExact(x)

-----------------------------------------------------------------------------
(* The addresses the situations above put code or a stack at               *)
TrackedAddrs ==
  (256 .. 258) \cup (512 .. 514) \cup (0 .. 6) \cup {65534, 53246, 53247, 53248, 53249, 49170, 49184}
  \cup (65296 .. 65299) \cup (768 .. 770)
=============================================================================
