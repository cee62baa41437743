------------------------------ MODULE Opcodes ------------------------------
(***************************************************************************)
(* The instructions of opcode.h and the two tables of opcode.c.  A group   *)
(* of macros that differ in an operand is a function on its operands, with *)
(* the codes opcode.h gives; a table lists the macros in the order         *)
(* opcode.c lists them.  That the two agree is what                        *)
(* opcode_check_integrity checks.                                          *)
(*                                                                         *)
(* The definition marked "fault" is a plausible mistake in the one below.  *)
(***************************************************************************)
EXTENDS Integers

(* The 8-bit operands with the code an opcode has for them: reg_kind, and  *)
(* 6 for the byte at HL                                                     *)
RegisterCode == [B |-> 0, C |-> 1, D |-> 2, E |-> 3, H |-> 4, L |-> 5, HLR |-> 6, A |-> 7]
Operands == DOMAIN RegisterCode
R8 == Operands \ {"HLR"}

(* reg_pair_kind.  AF's code names SP in all but PUSH and POP.             *)
PairCode == [BC |-> 0, DE |-> 1, HL |-> 2, AF |-> 3]

(* cc_NZ .. cc_C                                                           *)
ConditionCode == [NZ |-> 0, Z |-> 1, NC |-> 2, C |-> 3]

INSTR_DEF(kind, family, code, bytes, cycles) ==
  [kind |-> kind, family |-> family, opcode |-> code, bytes |-> bytes, cycles |-> cycles]

Direct(family, code, bytes, cycles)   == INSTR_DEF("DIRECT", family, code, bytes, cycles)
Prefixed(family, code, bytes, cycles) == INSTR_DEF("PREFIXED", family, code, bytes, cycles)

OP_UNKOWN == Direct("UNKN", 0, 1, 1)

-----------------------------------------------------------------------------
(* The eight operations of A with a register, the byte at HL or an operand *)
WithA(first, immediate, r8, hlr, n8) ==
  [o \in Operands \cup {"N8"} |->
     CASE o \in R8   -> Direct(r8, first + RegisterCode[o], 1, 1)
       [] o = "HLR"  -> Direct(hlr, first + RegisterCode[o], 1, 2)
       [] o = "N8"   -> Direct(n8, immediate, 2, 2)]

OP_ADD_A == WithA(128, 198, "ADD_A_R8", "ADD_A_HLR", "ADD_A_N8")
OP_ADC_A == WithA(136, 206, "ADD_A_R8", "ADD_A_HLR", "ADD_A_N8")
OP_SUB_A == WithA(144, 214, "SUB_A_R8", "SUB_A_HLR", "SUB_A_N8")
OP_SBC_A == WithA(152, 222, "SUB_A_R8", "SUB_A_HLR", "SUB_A_N8")
OP_AND_A == WithA(160, 230, "AND_A_R8", "AND_A_HLR", "AND_A_N8")
OP_XOR_A == WithA(168, 238, "XOR_A_R8", "XOR_A_HLR", "XOR_A_N8")
OP_OR_A  == WithA(176, 246, "OR_A_R8", "OR_A_HLR", "OR_A_N8")
OP_CP_A  == WithA(184, 254, "CP_A_R8", "CP_A_HLR", "CP_A_N8")

OP_INC == [o \in Operands |-> IF o \in R8 THEN Direct("INC_R8", 8 * RegisterCode[o] + 4, 1, 1)
                                          ELSE Direct("INC_HLR", 52, 1, 3)]
OP_DEC == [o \in Operands |-> IF o \in R8 THEN Direct("DEC_R8", 8 * RegisterCode[o] + 5, 1, 1)
                                          ELSE Direct("DEC_HLR", 53, 1, 3)]

(* On 16 bits                                                              *)
OfPair(family, first, bytes, cycles) ==
  [p \in DOMAIN PairCode |-> Direct(family, first + (16 * PairCode[p]), bytes, cycles)]

OP_INC_R16    == OfPair("INC_R16SP", 3, 1, 2)
OP_DEC_R16    == OfPair("DEC_R16SP", 11, 1, 2)
OP_ADD_HL     == OfPair("ADD_HL_R16SP", 9, 1, 2)
OP_LD_R16_N16 == OfPair("LD_R16SP_N16", 1, 3, 3)
OP_POP        == OfPair("POP_R16", 193, 1, 3)
OP_PUSH       == OfPair("PUSH_R16", 197, 1, 4)

OP_ADD_SP_N    == Direct("LD_HLSP_S8", 232, 2, 4)
OP_LD_HL_SP_N8 == Direct("LD_HLSP_S8", 248, 2, 3)

OP_CPL   == Direct("CPL", 47, 1, 1)
OP_DAA   == Direct("DAA", 39, 1, 1)
OP_CCF   == Direct("SCCF", 63, 1, 1)
OP_SCF   == Direct("SCCF", 55, 1, 1)
OP_RLCA  == Direct("ROTCA", 7, 1, 1)
OP_RRCA  == Direct("ROTCA", 15, 1, 1)
OP_RLA   == Direct("ROTA", 23, 1, 1)
OP_RRA   == Direct("ROTA", 31, 1, 1)

-----------------------------------------------------------------------------
(* Loads.  A register loaded with itself is a NOP.                         *)
SwapsSourceAndTarget == [r \in Operands |-> [s \in Operands |->       \* fault
  LET code == 64 + 8 * RegisterCode[s] + RegisterCode[r]
  IN  CASE r = "HLR" -> Direct("LD_HLR_R8", code, 1, 2)
        [] r # "HLR" /\ s = "HLR" -> Direct("LD_R8_HLR", code, 1, 2)
        [] r # "HLR" /\ r = s -> Direct("NOP", code, 1, 1)
        [] OTHER -> Direct("LD_R8_R8", code, 1, 1)]]
OP_LD == [r \in Operands |-> [s \in Operands |->
  LET code == 64 + 8 * RegisterCode[r] + RegisterCode[s]
  IN  CASE r = "HLR" -> Direct("LD_HLR_R8", code, 1, 2)
        [] r # "HLR" /\ s = "HLR" -> Direct("LD_R8_HLR", code, 1, 2)
        [] r # "HLR" /\ r = s -> Direct("NOP", code, 1, 1)
        [] OTHER -> Direct("LD_R8_R8", code, 1, 1)]]

OP_LD_N8 == [r \in Operands |->
  IF r \in R8 THEN Direct("LD_R8_N8", 8 * RegisterCode[r] + 6, 2, 2) ELSE Direct("LD_HLR_N8", 54, 2, 3)]

OP_LD_BCR_A   == Direct("LD_BCR_A", 2, 1, 2)
OP_LD_DER_A   == Direct("LD_DER_A", 18, 1, 2)
OP_LD_HLRI_A  == Direct("LD_HLRU_A", 34, 1, 2)
OP_LD_HLRD_A  == Direct("LD_HLRU_A", 50, 1, 2)
OP_LD_A_BCR   == Direct("LD_A_BCR", 10, 1, 2)
OP_LD_A_DER   == Direct("LD_A_DER", 26, 1, 2)
OP_LD_A_HLRI  == Direct("LD_A_HLRU", 42, 1, 2)
OP_LD_A_HLRD  == Direct("LD_A_HLRU", 58, 1, 2)
OP_LD_N8R_A   == Direct("LD_N8R_A", 224, 2, 3)
OP_LD_A_N8R   == Direct("LD_A_N8R", 240, 2, 3)
OP_LD_CR_A    == Direct("LD_CR_A", 226, 1, 2)
OP_LD_A_CR    == Direct("LD_A_CR", 242, 1, 2)
OP_LD_N16R_A  == Direct("LD_N16R_A", 234, 3, 4)
OP_LD_A_N16R  == Direct("LD_A_N16R", 250, 3, 4)
OP_LD_N16R_SP == Direct("LD_N16R_SP", 8, 3, 5)
OP_LD_SP_HL   == Direct("LD_SP_HL", 249, 1, 2)

-----------------------------------------------------------------------------
(* Control.  HALT and STOP have no cycles.                                 *)
OnCondition(family, first, bytes, cycles) ==
  [cc \in DOMAIN ConditionCode |-> Direct(family, first + (8 * ConditionCode[cc]), bytes, cycles)]

OP_NOP      == Direct("NOP", 0, 1, 1)
OP_STOP     == Direct("STOP", 16, 1, 0)
OP_HALT     == Direct("HALT", 118, 1, 0)
OP_DI       == Direct("EDI", 243, 1, 1)
OP_EI       == Direct("EDI", 251, 1, 1)
OP_JP_CC    == OnCondition("JP_CC_N16", 194, 3, 3)
OP_JP_HL    == Direct("JP_HL", 233, 1, 1)
OP_JP_N16   == Direct("JP_N16", 195, 3, 4)
OP_JR_CC    == OnCondition("JR_CC_E8", 32, 2, 2)
OP_JR_E8    == Direct("JR_E8", 24, 2, 3)
OP_CALL_CC  == OnCondition("CALL_CC_N16", 196, 3, 3)
OP_CALL_N16 == Direct("CALL_N16", 205, 3, 6)
OP_RET_CC   == OnCondition("RET_CC", 192, 1, 2)
OP_RET      == Direct("RET", 201, 1, 4)
OP_RETI     == Direct("RETI", 217, 1, 4)
OP_RST      == [n \in 0 .. 7 |-> Direct("RST_U3", 199 + 8 * n, 1, 4)]

-----------------------------------------------------------------------------
(* Prefixed opcodes                                                        *)
OnOperand(first, r8, hlr, hlr_cycles) ==
  [o \in Operands |-> IF o \in R8 THEN Prefixed(r8, first + RegisterCode[o], 2, 2)
                                  ELSE Prefixed(hlr, first + RegisterCode[o], 2, hlr_cycles)]

OP_RLC  == OnOperand(0, "ROTC_R8", "ROTC_HLR", 4)
OP_RRC  == OnOperand(8, "ROTC_R8", "ROTC_HLR", 4)
OP_RL   == OnOperand(16, "ROT_R8", "ROT_HLR", 4)
OP_RR   == OnOperand(24, "ROT_R8", "ROT_HLR", 4)
OP_SLA  == OnOperand(32, "SLA_R8", "SLA_HLR", 4)
OP_SRA  == OnOperand(40, "SRA_R8", "SRA_HLR", 4)
OP_SWAP == OnOperand(48, "SWAP_R8", "SWAP_HLR", 4)
OP_SRL  == OnOperand(56, "SRL_R8", "SRL_HLR", 4)
OP_BIT  == [n \in 0 .. 7 |-> OnOperand(64 + 8 * n, "BIT_U3_R8", "BIT_U3_HLR", 3)]
OP_RES  == [n \in 0 .. 7 |-> OnOperand(128 + 8 * n, "CHG_U3_R8", "CHG_U3_HLR", 4)]
OP_SET  == [n \in 0 .. 7 |-> OnOperand(192 + 8 * n, "CHG_U3_R8", "CHG_U3_HLR", 4)]

-----------------------------------------------------------------------------
(***************************************************************************)
(* The tables, a quarter at a time, in rows of eight.                      *)
(***************************************************************************)
Operand == <<"B", "C", "D", "E", "H", "L", "HLR", "A">>
Pair    == <<"BC", "DE", "HL", "AF">>
CC      == <<"NZ", "Z", "NC", "C">>

Row(i)    == ((i \div 8) % 8) + 1
Column(i) == (i % 8) + 1

(* A listing of columns: those of two rows each, first and second          *)
ByTwo(p, first, second) == <<first[p[1]], second[p[1]], first[p[2]], second[p[2]],
                             first[p[3]], second[p[3]], first[p[4]], second[p[4]]>>
AllEight(f) == [k \in 1 .. 8 |-> f[Operand[k]]]

direct_from_00 == [i \in 0 .. 63 |->
  << << OP_NOP, OP_LD_N16R_SP, OP_STOP, OP_JR_E8,
        OP_JR_CC["NZ"], OP_JR_CC["Z"], OP_JR_CC["NC"], OP_JR_CC["C"] >>,
     ByTwo(Pair, OP_LD_R16_N16, OP_ADD_HL),
     << OP_LD_BCR_A, OP_LD_A_BCR, OP_LD_DER_A, OP_LD_A_DER,
        OP_LD_HLRI_A, OP_LD_A_HLRI, OP_LD_HLRD_A, OP_LD_A_HLRD >>,
     ByTwo(Pair, OP_INC_R16, OP_DEC_R16),
     AllEight(OP_INC),
     AllEight(OP_DEC),
     AllEight(OP_LD_N8),
     << OP_RLCA, OP_RRCA, OP_RLA, OP_RRA, OP_DAA, OP_CPL, OP_SCF, OP_CCF >>
  >>[Column(i)][Row(i)]]

direct_from_40 == [i \in 64 .. 127 |->
  IF i = 118 THEN OP_HALT ELSE OP_LD[Operand[Row(i)]][Operand[Column(i)]]]

direct_from_80 == [i \in 128 .. 191 |->
  << OP_ADD_A, OP_ADC_A, OP_SUB_A, OP_SBC_A, OP_AND_A, OP_XOR_A, OP_OR_A, OP_CP_A
  >>[Row(i)][Operand[Column(i)]]]

direct_from_C0 == [i \in 192 .. 255 |->
  << << OP_RET_CC["NZ"], OP_RET_CC["Z"], OP_RET_CC["NC"], OP_RET_CC["C"],
        OP_LD_N8R_A, OP_ADD_SP_N, OP_LD_A_N8R, OP_LD_HL_SP_N8 >>,
     << OP_POP["BC"], OP_RET, OP_POP["DE"], OP_RETI,
        OP_POP["HL"], OP_JP_HL, OP_POP["AF"], OP_LD_SP_HL >>,
     << OP_JP_CC["NZ"], OP_JP_CC["Z"], OP_JP_CC["NC"], OP_JP_CC["C"],
        OP_LD_CR_A, OP_LD_N16R_A, OP_LD_A_CR, OP_LD_A_N16R >>,
     << OP_JP_N16, OP_UNKOWN, OP_UNKOWN, OP_UNKOWN, OP_UNKOWN, OP_UNKOWN, OP_DI, OP_EI >>,
     << OP_CALL_CC["NZ"], OP_CALL_CC["Z"], OP_CALL_CC["NC"], OP_CALL_CC["C"],
        OP_UNKOWN, OP_UNKOWN, OP_UNKOWN, OP_UNKOWN >>,
     << OP_PUSH["BC"], OP_CALL_N16, OP_PUSH["DE"], OP_UNKOWN,
        OP_PUSH["HL"], OP_UNKOWN, OP_PUSH["AF"], OP_UNKOWN >>,
     << OP_ADD_A["N8"], OP_ADC_A["N8"], OP_SUB_A["N8"], OP_SBC_A["N8"],
        OP_AND_A["N8"], OP_XOR_A["N8"], OP_OR_A["N8"], OP_CP_A["N8"] >>,
     << OP_RST[0], OP_RST[1], OP_RST[2], OP_RST[3], OP_RST[4], OP_RST[5], OP_RST[6], OP_RST[7] >>
  >>[Column(i)][Row(i)]]

prefixed_from_00 == [i \in 0 .. 63 |->
  << OP_RLC, OP_RRC, OP_RL, OP_RR, OP_SLA, OP_SRA, OP_SWAP, OP_SRL
  >>[Row(i)][Operand[Column(i)]]]

prefixed_from_40 == [i \in 64 .. 127 |-> OP_BIT[Row(i) - 1][Operand[Column(i)]]]
prefixed_from_80 == [i \in 128 .. 191 |-> OP_RES[Row(i) - 1][Operand[Column(i)]]]
prefixed_from_C0 == [i \in 192 .. 255 |-> OP_SET[Row(i) - 1][Operand[Column(i)]]]

instruction_direct == [i \in 0 .. 255 |->
  CASE i <= 63               -> direct_from_00[i]
    [] i \in 64 .. 127       -> direct_from_40[i]
    [] i \in 128 .. 191      -> direct_from_80[i]
    [] OTHER                 -> direct_from_C0[i]]

instruction_prefixed == [i \in 0 .. 255 |->
  CASE i <= 63               -> prefixed_from_00[i]
    [] i \in 64 .. 127       -> prefixed_from_40[i]
    [] i \in 128 .. 191      -> prefixed_from_80[i]
    [] OTHER                 -> prefixed_from_C0[i]]
=============================================================================
