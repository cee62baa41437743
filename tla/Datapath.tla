------------------------------ MODULE Datapath ------------------------------
(***************************************************************************)
(* The whole of the CPU, its data included: cpu.c, cpu-registers.c,        *)
(* cpu-alu.c and cpu-storage.c on the bytes of a program in memory.  CPU   *)
(* is its control side alone.                                              *)
(*                                                                         *)
(* cpu_t is a record c, and a C function that changes it is an operator    *)
(* that returns the changed one.  Memory is plugged from end to end;       *)
(* c.mem holds the bytes that have been set, the others are 0.  REG_IF and *)
(* REG_IE are two of them.                                                 *)
(*                                                                         *)
(* Definitions marked "fault" are plausible mistakes in the definition     *)
(* below them; nothing uses them but the check that each property can be   *)
(* broken.                                                                 *)
(***************************************************************************)
EXTENDS ALU, Opcodes

VARIABLE cpu

REG_A_CODE == 7
REG_C_CODE == 1
RegCodes   == (0 .. 7) \ {6}             \* 6 is no register: the byte at HL

REG_BC_CODE == 0
REG_DE_CODE == 1
REG_HL_CODE == 2
REG_AF_CODE == 3                         \* or SP

REGISTERS_START == 65280                 \* 0xFF00
REG_IF == 65295                          \* 0xFF0F
REG_IE == 65535                          \* 0xFFFF

Plus16(a, b) == (a + b) % 65536          \* arithmetic on addr_t

PREFIXED == 203                          \* 0xCB

-----------------------------------------------------------------------------
(* cpu-registers.c                                                         *)
cpu_reg_get(c, r) == IF r \in RegCodes THEN c.reg[r] ELSE 0
cpu_reg_set(c, r, value) ==
  IF r \in RegCodes THEN [c EXCEPT !.reg[r] = value] ELSE c

cpu_reg_pair_get(c, p) ==
  IF p = REG_AF_CODE THEN merge8(c.F, c.reg[REG_A_CODE])
                     ELSE merge8(c.reg[2 * p + 1], c.reg[2 * p])

(* The low nibble of F is not there to be set                              *)
AllOfF(value) == lsb8(value)                                         \* fault
FlagsPart(value) == lsb8(value) - lsb4(value)

cpu_reg_pair_set(c, p, value) ==
  IF p = REG_AF_CODE
    THEN [c EXCEPT !.reg[REG_A_CODE] = msb8(value), !.F = FlagsPart(value)]
    ELSE [c EXCEPT !.reg[2 * p + 1] = lsb8(value), !.reg[2 * p] = msb8(value)]

cpu_reg_pair_SP_get(c, p) == IF p = REG_AF_CODE THEN c.SP ELSE cpu_reg_pair_get(c, p)
cpu_reg_pair_SP_set(c, p, value) ==
  IF p = REG_AF_CODE THEN [c EXCEPT !.SP = value] ELSE cpu_reg_pair_set(c, p, value)

HL(c) == cpu_reg_pair_get(c, REG_HL_CODE)

-----------------------------------------------------------------------------
(* cpu-storage.c: the bus                                                  *)
cpu_read_at_idx(c, addr) == IF addr \in DOMAIN c.mem THEN c.mem[addr] ELSE 0

cpu_read16_at_idx(c, addr) ==
  IF addr = 65535 THEN 255
  ELSE merge8(cpu_read_at_idx(c, addr), cpu_read_at_idx(c, addr + 1))

cpu_read_data_after_opcode(c) == cpu_read_at_idx(c, Plus16(c.PC, 1))
cpu_read_addr_after_opcode(c) == cpu_read16_at_idx(c, Plus16(c.PC, 1))

SetByte(mem, addr, byte) ==
  [a \in DOMAIN mem \cup {addr} |-> IF a = addr THEN byte ELSE mem[a]]

cpu_write_at_idx(c, addr, byte) ==
  [c EXCEPT !.write_listener = addr, !.mem = SetByte(@, addr, byte)]

(* Nothing is written at the top address                                   *)
cpu_write16_at_idx(c, addr, word) ==
  [c EXCEPT !.write_listener = addr,
            !.mem = IF addr = 65535 THEN @
                    ELSE SetByte(SetByte(@, addr, lsb8(word)), addr + 1, msb8(word))]

cpu_SP_push(c, word) ==
  LET sp == Plus16(c.SP, -2)
  IN  cpu_write16_at_idx([c EXCEPT !.SP = sp], sp, word)

(* What M_REQUIRE_NO_ERR makes of a push: a failing one is evaluated twice  *)
PushFails(c) == Plus16(c.SP, -2) = 65535
PushChecked(c, word) ==
  IF PushFails(c) THEN cpu_SP_push(cpu_SP_push(c, word), word) ELSE cpu_SP_push(c, word)

-----------------------------------------------------------------------------
(* The fields of an opcode                                                 *)
extract_reg(op, index) == (op \div Power2[CLAMP07(index)]) % 8
extract_reg_pair(op)   == extract_reg(op, 4) % 4
extract_n3(op)         == (op \div 8) % 8
extract_sr_bit(op)     == bit_get(op, 6)
extract_rot_dir(op)    == IF bit_get(op, 3) = 1 THEN RIGHT ELSE LEFT
extract_cc(op)         == (op \div 8) % 4
extract_HL_increment(op) == IF bit_get(op, 4) = 1 THEN -1 ELSE 1

extract_carry(c, op) == IF bit_get(op, 3) = 1 /\ get_flag(c.F, FLAG_C) # 0 THEN 1 ELSE 0

-----------------------------------------------------------------------------
(* cpu-alu.c.  flag_src_t for Z, N, H and C                                *)
ADD_FLAGS_SRC   == << "ALU", "CLEAR", "ALU", "ALU" >>
INC_FLAGS_SRC   == << "ALU", "CLEAR", "ALU", "CPU" >>
SUB_FLAGS_SRC   == << "ALU", "SET", "ALU", "ALU" >>
DEC_FLAGS_SRC   == << "ALU", "SET", "ALU", "CPU" >>
ROT_FLAGS_SRC   == << "ALU", "CLEAR", "CLEAR", "ALU" >>
SHIFT_FLAGS_SRC == << "ALU", "CLEAR", "CLEAR", "ALU" >>
ADD_HL_FLAGS_SRC == << "CPU", "CLEAR", "ALU", "ALU" >>
BIT_FLAGS_SRC    == << "ALU", "CLEAR", "SET", "CPU" >>

flags_src_value(src, flag, cpu_f, alu_f) ==
  CASE src = "CLEAR" -> 0
    [] src = "SET"   -> flag
    [] src = "ALU"   -> get_flag(alu_f, flag)
    [] src = "CPU"   -> get_flag(cpu_f, flag)

cpu_combine_alu_flags(c, srcs, alu_f) ==
  [c EXCEPT !.F = flags_src_value(srcs[1], FLAG_Z, @, alu_f)
                    + flags_src_value(srcs[2], FLAG_N, @, alu_f)
                    + flags_src_value(srcs[3], FLAG_H, @, alu_f)
                    + flags_src_value(srcs[4], FLAG_C, @, alu_f)]

(* An ALU result into a register, and its flags into F                      *)
ToReg(c, r, out, srcs) == cpu_combine_alu_flags(cpu_reg_set(c, r, lsb8(out.value)), srcs, out.flags)

do_set_or_res(op, byte) ==
  IF extract_sr_bit(op) = 1 THEN bit_set(byte, extract_n3(op)) ELSE bit_unset(byte, extract_n3(op))

(***************************************************************************)
(* The families of cpu_dispatch_alu.  Those missing here are left to a     *)
(* library that is not called: they do nothing.                            *)
(***************************************************************************)
AluFamilies ==
  { "ADD_A_HLR", "ADD_A_N8", "ADD_A_R8", "INC_HLR", "INC_R8", "ADD_HL_R16SP", "INC_R16SP",
    "SUB_A_HLR", "SUB_A_N8", "SUB_A_R8", "DEC_HLR", "DEC_R8", "DEC_R16SP",
    "AND_A_HLR", "AND_A_N8", "AND_A_R8", "OR_A_HLR", "OR_A_N8", "OR_A_R8",
    "XOR_A_HLR", "XOR_A_N8", "XOR_A_R8", "CPL", "CP_A_HLR", "CP_A_N8", "CP_A_R8",
    "SLA_HLR", "SLA_R8", "SRA_HLR", "SRA_R8", "SRL_HLR", "SRL_R8", "ROTCA", "ROTA",
    "ROTC_HLR", "ROT_HLR", "ROTC_R8", "ROT_R8", "SWAP_HLR", "SWAP_R8",
    "BIT_U3_HLR", "BIT_U3_R8", "CHG_U3_HLR", "CHG_U3_R8", "LD_HLSP_S8", "DAA", "SCCF" }

AddToA(lu, c) ==
  LET operand == CASE lu.family = "ADD_A_HLR" -> cpu_read_at_idx(c, HL(c))
                   [] lu.family = "ADD_A_N8"  -> cpu_read_data_after_opcode(c)
                   [] lu.family = "ADD_A_R8"  -> cpu_reg_get(c, extract_reg(lu.opcode, 0))
  IN  ToReg(c, REG_A_CODE,
            alu_add8(c.reg[REG_A_CODE], operand, extract_carry(c, lu.opcode)), ADD_FLAGS_SRC)

cpu_dispatch_alu(lu, c) ==
  LET op == lu.opcode
      r  == extract_reg(op, 0)
      r3 == extract_reg(op, 3)
      A  == c.reg[REG_A_CODE]
  IN
  CASE lu.family \in {"ADD_A_HLR", "ADD_A_N8", "ADD_A_R8"} -> AddToA(lu, c)
    [] lu.family = "INC_HLR" ->
         LET out == alu_add8(cpu_read_at_idx(c, HL(c)), 1, 0)
         IN  cpu_combine_alu_flags(cpu_write_at_idx(c, HL(c), out.value), INC_FLAGS_SRC, out.flags)
    [] lu.family = "INC_R8" -> ToReg(c, r3, alu_add8(cpu_reg_get(c, r3), 1, 0), INC_FLAGS_SRC)
    [] lu.family = "DEC_R8" -> ToReg(c, r3, alu_sub8(cpu_reg_get(c, r3), 1, 0), DEC_FLAGS_SRC)
    [] lu.family = "ADD_HL_R16SP" ->
         LET out == alu_add16_high(HL(c), cpu_reg_pair_SP_get(c, extract_reg_pair(op)))
         IN  cpu_combine_alu_flags(cpu_reg_pair_set(c, REG_HL_CODE, out.value),
                                   ADD_HL_FLAGS_SRC, out.flags)
    [] lu.family = "INC_R16SP" ->
         cpu_reg_pair_SP_set(c, extract_reg_pair(op),
           alu_add16_high(1, cpu_reg_pair_SP_get(c, extract_reg_pair(op))).value)
    [] lu.family = "CP_A_R8" ->
         cpu_combine_alu_flags(c, SUB_FLAGS_SRC, alu_sub8(A, cpu_reg_get(c, r), 0).flags)
    [] lu.family = "CP_A_N8" ->
         cpu_combine_alu_flags(c, SUB_FLAGS_SRC, alu_sub8(A, cpu_read_data_after_opcode(c), 0).flags)
    [] lu.family = "SLA_R8" -> ToReg(c, r, alu_shift(cpu_reg_get(c, r), LEFT), SHIFT_FLAGS_SRC)
    [] lu.family = "ROT_R8" ->
         ToReg(c, r, alu_carry_rotate(cpu_reg_get(c, r), extract_rot_dir(op), c.F), ROT_FLAGS_SRC)
    [] lu.family = "BIT_U3_R8" ->
         cpu_combine_alu_flags(c, BIT_FLAGS_SRC,
           alu_add8(bit_get(cpu_reg_get(c, r), extract_n3(op)), 0, 0).flags)
    [] lu.family = "CHG_U3_R8" -> cpu_reg_set(c, r, do_set_or_res(op, cpu_reg_get(c, r)))
    [] OTHER -> c

-----------------------------------------------------------------------------
cpu_SP_pop(c) == [word |-> cpu_read16_at_idx(c, c.SP), cpu |-> [c EXCEPT !.SP = Plus16(@, 2)]]

(* The address a load or a store of one byte names                         *)
Address(lu, c) ==
  CASE lu.family \in {"LD_A_BCR", "LD_BCR_A"}   -> cpu_reg_pair_get(c, REG_BC_CODE)
    [] lu.family \in {"LD_A_DER", "LD_DER_A"}   -> cpu_reg_pair_get(c, REG_DE_CODE)
    [] lu.family \in {"LD_A_CR", "LD_CR_A"}     -> REGISTERS_START + c.reg[REG_C_CODE]
    [] lu.family \in {"LD_A_N8R", "LD_N8R_A"}   -> REGISTERS_START + cpu_read_data_after_opcode(c)
    [] lu.family \in {"LD_A_N16R", "LD_N16R_A"} -> cpu_read_addr_after_opcode(c)
    [] OTHER                                    -> HL(c)

HLUpdated(lu, c) ==
  cpu_reg_pair_set(c, REG_HL_CODE, Plus16(HL(c), extract_HL_increment(lu.opcode)))

LoadsOfA  == { "LD_A_BCR", "LD_A_CR", "LD_A_DER", "LD_A_HLRU", "LD_A_N16R", "LD_A_N8R" }
StoresOfA == { "LD_BCR_A", "LD_CR_A", "LD_DER_A", "LD_HLRU_A", "LD_N16R_A", "LD_N8R_A" }
StorageFamilies ==
  LoadsOfA \cup StoresOfA \cup
  { "LD_HLR_N8", "LD_HLR_R8", "LD_N16R_SP", "LD_R16SP_N16", "LD_R8_HLR", "LD_R8_N8",
    "LD_R8_R8", "LD_SP_HL", "POP_R16", "PUSH_R16" }

(* LD_A_HLRU and LD_HLRU_A as if they were LD_A_HLR and LD_HLR_A             *)
NotUpdated(lu, c) == c                                               \* fault
Updated(lu, c) == IF lu.family \in {"LD_A_HLRU", "LD_HLRU_A"} THEN HLUpdated(lu, c) ELSE c

PopsBelow(lu, c) ==                                                  \* fault
  LET popped == cpu_SP_pop([c EXCEPT !.SP = Plus16(@, 1)])
  IN  cpu_reg_pair_set(popped.cpu, extract_reg_pair(lu.opcode), popped.word)
PopPair(lu, c) ==
  LET popped == cpu_SP_pop(c)
  IN  cpu_reg_pair_set(popped.cpu, extract_reg_pair(lu.opcode), popped.word)

cpu_dispatch_storage(lu, c) ==
  LET r  == extract_reg(lu.opcode, 0)
      r3 == extract_reg(lu.opcode, 3)
      p  == extract_reg_pair(lu.opcode)
      A  == c.reg[REG_A_CODE]
      byte == cpu_read_at_idx(c, Address(lu, c))
      data == cpu_read_data_after_opcode(c)
      word == cpu_read_addr_after_opcode(c)
  IN
  CASE lu.family \in LoadsOfA -> Updated(lu, cpu_reg_set(c, REG_A_CODE, byte))
    [] lu.family \in StoresOfA -> Updated(lu, cpu_write_at_idx(c, Address(lu, c), A))
    [] lu.family = "LD_HLR_N8"  -> cpu_write_at_idx(c, HL(c), data)
    [] lu.family = "LD_HLR_R8"  -> cpu_write_at_idx(c, HL(c), cpu_reg_get(c, r))
    [] lu.family = "LD_N16R_SP" -> cpu_write16_at_idx(c, word, c.SP)
    [] lu.family = "LD_R16SP_N16" -> cpu_reg_pair_SP_set(c, p, word)
    [] lu.family = "LD_R8_HLR" -> cpu_reg_set(c, r3, byte)
    [] lu.family = "LD_R8_N8"  -> cpu_reg_set(c, r3, data)
    [] lu.family = "LD_R8_R8"  -> cpu_reg_set(c, r3, cpu_reg_get(c, r))
    [] lu.family = "LD_SP_HL"  -> cpu_reg_pair_SP_set(c, REG_AF_CODE, HL(c))
    [] lu.family = "POP_R16"   -> PopPair(lu, c)
    [] lu.family = "PUSH_R16"  -> cpu_SP_push(c, cpu_reg_pair_get(c, p))

-----------------------------------------------------------------------------
(* cpu.c                                                                   *)
checkCCconditions(c, op) ==
  LET flag == IF extract_cc(op) \in {ConditionCode["NZ"], ConditionCode["Z"]} THEN FLAG_Z ELSE FLAG_C
  IN  IF extract_cc(op) \in {ConditionCode["Z"], ConditionCode["C"]}
        THEN get_flag(c.F, flag) # 0 ELSE get_flag(c.F, flag) = 0

(* data_after_opcode is an int8_t                                          *)
Signed(byte) == IF byte < 128 THEN byte ELSE byte - 256

OpcodeEI == 251

ConditionalFamilies == { "JP_CC_N16", "JR_CC_E8", "CALL_CC_N16", "RET_CC" }
ControlFamilies ==
  ConditionalFamilies \cup
  { "JP_HL", "JP_N16", "JR_E8", "CALL_N16", "RET", "RST_U3", "EDI", "RETI", "HALT", "STOP", "NOP" }

(* The jumps of cpu_dispatch, the calls and returns among them.  c is the  *)
(* CPU with its PC after the instruction; word and byte are the operands,  *)
(* read before PC moved.                                                   *)
Jumped(lu, c, word, byte) ==
  LET To(d, target) == [d EXCEPT !.PC = target]
      Popped == cpu_SP_pop(c)
  IN
  CASE lu.family \in {"JP_N16", "JP_CC_N16"} -> To(c, word)
    [] lu.family = "JP_HL" -> To(c, HL(c))
    [] lu.family \in {"JR_E8", "JR_CC_E8"} -> To(c, Plus16(c.PC, Signed(byte)))
    [] lu.family = "CALL_N16" -> To(cpu_SP_push(c, c.PC), word)
    [] lu.family = "CALL_CC_N16" ->
         IF PushFails(c) THEN PushChecked(c, c.PC) ELSE To(PushChecked(c, c.PC), word)
    [] lu.family = "RST_U3" ->
         IF PushFails(c) THEN PushChecked(c, c.PC)
                         ELSE To(PushChecked(c, c.PC), 8 * extract_n3(lu.opcode))
    [] lu.family \in {"RET", "RET_CC"} -> To(Popped.cpu, Popped.word)
    [] lu.family = "RETI" -> To([Popped.cpu EXCEPT !.IME = TRUE], Popped.word)

Control(lu, c, word, byte) ==
  CASE lu.family = "EDI"  -> [c EXCEPT !.IME = (lu.opcode = OpcodeEI)]
    [] lu.family = "HALT" -> [c EXCEPT !.HALT = TRUE]
    [] lu.family \in {"STOP", "NOP"} -> c
    [] lu.family \in ConditionalFamilies /\ ~checkCCconditions(c, lu.opcode) -> c
    [] OTHER -> Jumped(lu, c, word, byte)

(***************************************************************************)
(* cpu_dispatch.  idle_time is a byte; xtra_cycles is 0 in every entry of  *)
(* the tables.  The ALU and the storage families find PC back at the       *)
(* instruction, and leave it there.                                        *)
(***************************************************************************)
AdvancesBeforeReading(lu, c) ==                                      \* fault
  LET after == [c EXCEPT !.idle_time = (lu.cycles - 1) % 256, !.PC = Plus16(@, lu.bytes)]
  IN  CASE lu.family \in AluFamilies     -> cpu_dispatch_alu(lu, [after EXCEPT !.PC = c.PC])
        [] lu.family \in StorageFamilies -> cpu_dispatch_storage(lu, [after EXCEPT !.PC = c.PC])
        [] lu.family \in ControlFamilies ->
             Control(lu, after, cpu_read_addr_after_opcode(after), cpu_read_data_after_opcode(after))
        [] OTHER -> after
cpu_dispatch(lu, c) ==
  LET after == [c EXCEPT !.idle_time = (lu.cycles - 1) % 256, !.PC = Plus16(@, lu.bytes)]
  IN  CASE lu.family \in AluFamilies     -> cpu_dispatch_alu(lu, [after EXCEPT !.PC = c.PC])
        [] lu.family \in StorageFamilies -> cpu_dispatch_storage(lu, [after EXCEPT !.PC = c.PC])
        [] lu.family \in ControlFamilies ->
             Control(lu, after, cpu_read_addr_after_opcode(c), cpu_read_data_after_opcode(c))
        [] OTHER -> after

(* ERR_INSTR, for which M_REQUIRE_NO_ERR dispatches once more               *)
Fails(lu) ==
  \/ lu.family \notin AluFamilies \cup StorageFamilies \cup ControlFamilies
  \/ lu.family = "LD_R8_R8" /\ extract_reg(lu.opcode, 0) = extract_reg(lu.opcode, 3)

Fetched(c) ==
  LET next_op == cpu_read_at_idx(c, c.PC)
  IN  IF next_op = PREFIXED THEN instruction_prefixed[cpu_read_data_after_opcode(c)]
                            ELSE instruction_direct[next_op]

(* IF and IE, the lines among them a handler exists for, and the lowest     *)
IfByte(c) == cpu_read_at_idx(c, REG_IF)
Pending(c) == { i \in 0 .. 7 : bit_get(IfByte(c), i) = 1 /\ bit_get(cpu_read_at_idx(c, REG_IE), i) = 1 }
interruptionNb == 5
find_interrupt_index(c) == CHOOSE i \in Pending(c) : \A j \in Pending(c) : i <= j

(* A line above the five has no index: then nothing changes but IME          *)
handle_interruption(c) ==
  LET i == find_interrupt_index(c)
      cleared == [c EXCEPT !.IME = FALSE, !.mem = SetByte(@, REG_IF, bit_unset(IfByte(c), i))]
  IN  IF i >= interruptionNb THEN [c EXCEPT !.IME = FALSE]
      ELSE [cpu_SP_push(cleared, c.PC) EXCEPT !.PC = 64 + 8 * i, !.idle_time = (@ + 5) % 256]

cpu_do_cycle(c) ==
  LET lu == Fetched(c)
  IN  IF c.IME /\ Pending(c) # {} THEN handle_interruption(c)
      ELSE IF Fails(lu) THEN cpu_dispatch(lu, cpu_dispatch(lu, c)) ELSE cpu_dispatch(lu, c)

(* One call of cpu_cycle: its effect on a CPU                               *)
Cycled(c) ==
  LET quiet == [c EXCEPT !.write_listener = 0]
  IN  IF c.idle_time # 0 THEN [quiet EXCEPT !.idle_time = @ - 1]
      ELSE IF ~c.HALT THEN cpu_do_cycle(quiet)
      ELSE IF Pending(c) # {} THEN cpu_do_cycle([quiet EXCEPT !.HALT = FALSE]) ELSE quiet

cpu_cycle == cpu' = Cycled(cpu)

cpu_request_interrupt(i) == cpu' = [cpu EXCEPT !.mem = SetByte(@, REG_IF, bit_set(IfByte(cpu), i))]

(* cpu_init                                                                *)
cpu_init ==
  [reg |-> [r \in RegCodes |-> 0], F |-> 0, PC |-> 0, SP |-> 0, IME |-> FALSE, HALT |-> FALSE,
   idle_time |-> 0, write_listener |-> 0, mem |-> [a \in {REG_IF, REG_IE} |-> 0]]

Next == cpu_cycle \/ \E i \in 0 .. interruptionNb - 1 : cpu_request_interrupt(i)

-----------------------------------------------------------------------------
(* A cpu_t the code can hold; the low nibble of F is never set.            *)
FlagBytes == { 16 * i : i \in 0 .. 15 }

Typed(c) ==
  /\ c \in [reg : [RegCodes -> Byte], F : FlagBytes, PC : Word, SP : Word, IME : BOOLEAN,
            HALT : BOOLEAN, idle_time : Byte, write_listener : Word, mem : {c.mem}]
  /\ DOMAIN c.mem \subseteq Word /\ \A a \in DOMAIN c.mem : c.mem[a] \in Byte

(* A CPU the code can hold, whatever the program (cpu_t, flags_t).          *)
TypeOK == Typed(cpu)

(***************************************************************************)
(* Whatever a program has done, pushing a pair and popping it again gives  *)
(* the pair and SP back, AF's flags included, unless the push falls on the *)
(* top address, where the word is lost (PUSH_R16, POP_R16).                *)
(***************************************************************************)
PopUndoesPush ==
  \A p \in DOMAIN PairCode :
    LET pushed == cpu_dispatch_storage(OP_PUSH[p], cpu)
        popped == cpu_dispatch_storage(OP_POP[p], pushed)
    IN  ~PushFails(cpu) => popped.reg = cpu.reg /\ popped.F = cpu.F /\ popped.SP = cpu.SP
=============================================================================
