----------------------------- MODULE MCGameboy -----------------------------
(***************************************************************************)
(* Gameboy on an address space of 32, laid out in the order of gameboy.h:  *)
(* the banks under the boot ROM, the RAMs, the registers with REG_IF among *)
(* them, the high RAM up to just below REG_IE.                             *)
(***************************************************************************)
EXTENDS Gameboy

MCComponents == Parts

MCArea == [c \in MCComponents |->
  CASE c = "cartridge"           -> << 0, 7 >>
    [] c = "bootrom"             -> << 0, 1 >>
    [] c = "video_ram"           -> << 8, 9 >>
    [] c = "extern_ram"          -> << 10, 11 >>
    [] c = "work_ram"            -> << 12, 14 >>
    [] c \in { "echo", "echo_ram" } -> << 15, 16 >>
    [] c = "graph_ram"           -> << 17, 18 >>
    [] c = "useless"             -> << 19, 20 >>
    [] c = "registers"           -> << 21, 24 >>
    [] c = "high_ram"            -> << 25, 30 >>]

MCRegIF == 22
MCRegIE == 31

Reliable   == { "done" }
Unreliable == { "done", "no_struct", "no_array" }
SoundFile  == { "ERR_NONE" }
AnyFile    == { "ERR_NONE", "ERR_IO", "ERR_NOT_IMPLEMENTED" }
=============================================================================
