-------------------------- MODULE DatapathControl --------------------------
(***************************************************************************)
(* Datapath seen as the control side CPU: the refinement mapping.  Of the  *)
(* registers only PC and SP are kept, of memory the bytes at the addresses *)
(* Followed and the flags of the interrupt lines; an instruction is its    *)
(* family and the one address or value it names.  Code allows any program, *)
(* since the bytes of this one are in memory and may change.               *)
(***************************************************************************)
EXTENDS Datapath

CONSTANT Followed

ASSUME FollowedAssumption == Followed \subseteq Word \ {REG_IF, REG_IE}

(* The lines whose bit is up in the byte at addr                           *)
LinesUp(c, addr) == { i \in 0 .. 7 : bit_get(cpu_read_at_idx(c, addr), i) = 1 }

FollowedBytes(c) == [a \in Followed |-> cpu_read_at_idx(c, a)]

AnyInstruction ==
  [family : { "NOP", "STOP", "HALT", "EI", "DI", "JP", "JP_CC", "JR", "JR_CC", "CALL", "CALL_CC", "RST",
              "RET", "RET_CC", "RETI", "UNKN", "ALU", "INC_SP", "LD", "LD_SP", "ST", "ST16", "PUSH", "POP" },
   bytes : 1 .. 3, cycles : 0 .. 6, arg : Word]

ControlSide == INSTANCE CPU WITH
  Bits <- 8, Byte <- 256, NbLines <- 5, Handler <- [i \in 0 .. 4 |-> 64 + 8 * i], RegIF <- REG_IF,
  Tracked <- Followed, Code <- [a \in Word |-> AnyInstruction], InitialSP <- 0, InitialIE <- {},
  PC <- cpu.PC, SP <- cpu.SP, IME <- cpu.IME, HALT <- cpu.HALT, IE <- LinesUp(cpu, REG_IE),
  IFlags <- LinesUp(cpu, REG_IF), idle_time <- cpu.idle_time, write_listener <- cpu.write_listener,
  ram <- FollowedBytes(cpu)

-----------------------------------------------------------------------------
(* What CPU calls the family of an entry of the tables, and its argument.  *)
ControlFamily(lu) ==
  CASE lu.family \in {"NOP", "STOP", "HALT", "UNKN", "RET", "RET_CC", "RETI"} -> lu.family
    [] lu.family = "EDI" -> IF lu.opcode = OpcodeEI THEN "EI" ELSE "DI"
    [] lu.family \in {"JP_N16", "JP_HL"} -> "JP"
    [] lu.family = "JP_CC_N16" -> "JP_CC"
    [] lu.family = "JR_E8"     -> "JR"
    [] lu.family = "JR_CC_E8"  -> "JR_CC"
    [] lu.family = "CALL_N16"  -> "CALL"
    [] lu.family = "CALL_CC_N16" -> "CALL_CC"
    [] lu.family = "RST_U3"    -> "RST"
    [] lu.family = "PUSH_R16"  -> "PUSH"
    [] lu.family = "POP_R16"   -> "POP"
    [] lu.family = "LD_N16R_SP" -> "ST16"
    [] lu.family \in {"LD_HLR_N8", "LD_HLR_R8", "INC_HLR"} \cup StoresOfA -> "ST"
    [] lu.family = "INC_R16SP" -> IF extract_reg_pair(lu.opcode) = REG_AF_CODE THEN "INC_SP" ELSE "ALU"
    [] lu.family = "LD_R16SP_N16" -> IF extract_reg_pair(lu.opcode) = REG_AF_CODE THEN "LD_SP" ELSE "LD"
    [] lu.family = "LD_SP_HL" -> "LD_SP"
    [] OTHER -> IF lu.family \in StorageFamilies THEN "LD" ELSE "ALU"

ControlArgument(lu, c) ==
  CASE lu.family \in {"JR_E8", "JR_CC_E8"} -> Plus16(0, Signed(cpu_read_data_after_opcode(c)))
    [] lu.family = "RST_U3" -> 8 * extract_n3(lu.opcode)
    [] lu.family \in {"JP_HL", "LD_SP_HL", "INC_HLR", "LD_HLR_N8", "LD_HLR_R8"} -> HL(c)
    [] lu.family \in StoresOfA -> Address(lu, c)
    [] OTHER -> cpu_read_addr_after_opcode(c)

Abstract(lu, c) ==
  [family |-> ControlFamily(lu), bytes |-> lu.bytes, cycles |-> lu.cycles, arg |-> ControlArgument(lu, c)]

Executed ==
  \E lu \in { Fetched(cpu) } : \E abstract \in { Abstract(lu, cpu) } :
    CASE abstract.family \in {"ALU", "LD"} -> ControlSide!DataOnly(abstract)
      [] abstract.family = "PUSH" ->
           ControlSide!PushWord(abstract, cpu_reg_pair_get(cpu, extract_reg_pair(lu.opcode)))
      [] OTHER -> ControlSide!Execute(abstract)

ControlStep ==
  \/ IF cpu.idle_time > 0 THEN ControlSide!Wait ELSE ControlSide!Sleep
  \/ ControlSide!Interrupt \/ ControlSide!InterruptWithoutIndex
  \/ Executed
  \/ \E i \in 0 .. 4 : ControlSide!cpu_request_interrupt(i)

(***************************************************************************)
(* The CPU with its data does what CPU.tla says the control side may do:   *)
(* each cycle is a wait, a sleep, an interrupt or the execution of the     *)
(* instruction fetched, with the bytes, cycles and argument its opcode and *)
(* operands give (cpu_cycle, cpu_dispatch).  A unit test that dispatches   *)
(* an instruction of its own makes no cycle.                               *)
(***************************************************************************)
ImplementsControl == [][Next => ControlStep]_cpu
=============================================================================
