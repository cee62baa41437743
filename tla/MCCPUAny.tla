------------------------------ MODULE MCCPUAny ------------------------------
(***************************************************************************)
(* CPU running any program whatever: 2-bit bytes, 4-bit addresses, and at  *)
(* every address an instruction of any family, with operands that reach    *)
(* the stack, REG_IF and both ends of memory.  One interrupt line is wired *)
(* and the other bit of IE and IF is not, as the upper three are not in    *)
(* the program.                                                            *)
(***************************************************************************)
EXTENDS CPU

AnyBits    == 2
AnyByte    == 4
AnyLines   == 1
AnyRegIF   == 12
AnyHandler == [i \in 0 .. 0 |-> 4]
AnyTracked == {}
AnySP      == 9
AnyIE      == {}

NoOperand == { "NOP", "STOP", "HALT", "EI", "DI", "RET", "RET_CC", "RETI", "UNKN",
               "ALU", "INC_SP", "LD", "PUSH", "POP" }

Length(family) ==
  CASE family \in NoOperand \cup { "RST" } -> 1
    [] family \in { "JR", "JR_CC" }        -> 2
    [] OTHER                               -> 3

Duration(family) == IF family \in { "HALT", "STOP" } THEN 0 ELSE 1

Operands(family) ==
  CASE family \in NoOperand        -> { 0 }
    [] family \in { "ST", "ST16" } -> { 8, AnyRegIF, Top }
    [] OTHER                       -> { 8, Top }

AnyInstruction ==
  UNION { [family : { f }, bytes : { Length(f) }, cycles : { Duration(f) },
           arg : Operands(f)] : f \in Families }

AnyCode == [a \in Addrs |-> AnyInstruction]
=============================================================================
