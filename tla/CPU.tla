-------------------------------- MODULE CPU --------------------------------
(***************************************************************************)
(* The control side of the CPU of cpu.c: fetching, the cycles an           *)
(* instruction occupies, jumps, calls and returns through the stack in     *)
(* memory, interrupts and HALT.                                            *)
(*                                                                         *)
(* The data registers and flags are abstracted: a condition may hold or    *)
(* not, a value stored may be any byte.  What may be fetched at an address *)
(* is the constant Code, so one instance stands for many programs.  The    *)
(* whole address space is plugged, as test-cpu-week09.c plugs it, so a bus *)
(* access fails only at the top address.                                   *)
(*                                                                         *)
(* Definitions marked "fault" are plausible mistakes in the definition     *)
(* below them; nothing uses them but the check that each property can be   *)
(* broken.                                                                 *)
(***************************************************************************)
EXTENDS Integers, FiniteSets

CONSTANTS
  Bits,       (* bits of a data_t; 8 in the program                         *)
  Byte,       (* 2^Bits                                                     *)
  NbLines,    (* interrupt lines, interruptionNb; 5 in the program          *)
  Handler,    (* Handler[i]: address of line i's handler, 0x40 + 8 * i      *)
  RegIF,      (* REG_IF                                                     *)
  Tracked,    (* the RAM addresses whose content the model follows          *)
  Code,       (* Code[a]: the instructions the program may hold at a        *)
  InitialSP,  (* SP and IE when the program starts: 0 after cpu_init, or    *)
  InitialIE   (* what a test sets, as unit-test-cpu-dispatch-week09.c does  *)

Addrs == 0 .. Byte * Byte - 1
Top   == Byte * Byte - 1                 \* 0xFFFF
RegIE == Top                             \* REG_IE
Lines == 0 .. NbLines - 1                \* interrupt_t

(***************************************************************************)
(* instruction_t of opcode.h, the operands that follow it in memory        *)
(* included: arg is the address, offset or value the instruction names.    *)
(* Every entry of the opcode tables has xtra_cycles = 0.                   *)
(***************************************************************************)
Families == { "NOP", "STOP", "HALT", "EI", "DI", "JP", "JP_CC", "JR", "JR_CC",
              "CALL", "CALL_CC", "RST", "RET", "RET_CC", "RETI", "UNKN",
              "ALU", "INC_SP", "LD", "LD_SP", "ST", "ST16", "PUSH", "POP" }
Conditional == { "JP_CC", "JR_CC", "CALL_CC", "RET_CC" }
Instructions == [family : Families, bytes : 1 .. 3, cycles : 0 .. 6, arg : Addrs]

ASSUME WidthAssumption ==
  /\ Bits \in Nat \ {0} /\ Byte \in Nat /\ Byte = 2 ^ Bits /\ NbLines \in 1 .. Bits
  /\ Byte >= 4

ASSUME LayoutAssumption ==
  /\ Handler \in [Lines -> Addrs]
  /\ RegIF \in Addrs \ { RegIE }
  /\ Tracked \subseteq Addrs \ { RegIE, RegIF }
  /\ InitialSP \in Addrs /\ InitialIE \subseteq 0 .. Bits - 1
  /\ Code \in [Addrs -> SUBSET Instructions]

VARIABLES
  PC, SP,
  IME, HALT,
  IE,              (* cpu_t.IE and ...                                       *)
  IFlags,          (* ... cpu_t.IF, as the sets of their raised bits         *)
  idle_time,       (* cycles left to wait; a uint8_t                         *)
  write_listener,  (* the last address stored to in this cycle, 0 for none   *)
  ram              (* the bytes at the tracked addresses                     *)

vars == << PC, SP, IME, HALT, IE, IFlags, idle_time, write_listener, ram >>

TypeOK ==
  /\ PC \in Addrs /\ SP \in Addrs
  /\ IME \in BOOLEAN /\ HALT \in BOOLEAN
  /\ IE \subseteq 0 .. Bits - 1 /\ IFlags \subseteq 0 .. Bits - 1
  /\ idle_time \in 0 .. Byte - 1
  /\ write_listener \in Addrs
  /\ ram \in [Tracked -> 0 .. Byte - 1]

-----------------------------------------------------------------------------
Plus(a, b) == (a + b) % (Byte * Byte)    \* arithmetic on addr_t

lsb8(w) == w % Byte
msb8(w) == w \div Byte
merge8(lo, hi) == lo + Byte * hi

BitsOf(byte) == { i \in 0 .. Bits - 1 : (byte \div 2 ^ i) % 2 = 1 }

(* The memory behind the bus, as far as the model follows it.               *)
Memory == [ram |-> ram, IE |-> IE, flags |-> IFlags]

(* bus_write *)
Written(m, a, byte) ==
  [ram |-> IF a \in Tracked THEN [m.ram EXCEPT ![a] = byte] ELSE m.ram,
   IE  |-> IF a = RegIE THEN BitsOf(byte) ELSE m.IE,
   flags |-> IF a = RegIF THEN BitsOf(byte) ELSE m.flags]

(* bus_write16: nothing is written at the top address                       *)
Written16(m, a, word) ==
  IF a = Top THEN m ELSE Written(Written(m, a, lsb8(word)), a + 1, msb8(word))

(* What the program may read: the byte itself where it is tracked.          *)
ReadableAt(a) ==
  { byte \in 0 .. Byte - 1 : /\ a \in Tracked => byte = ram[a]
                             /\ a = RegIE => BitsOf(byte) = IE
                             /\ a = RegIF => BitsOf(byte) = IFlags }

(* bus_read16, and cpu_read16_at_idx's answer at the top address            *)
Readable16At(a) ==
  IF a = Top THEN { Byte - 1 }
  ELSE { merge8(lo, hi) : lo \in ReadableAt(a), hi \in ReadableAt(a + 1) }

MemoryBecomes(m) == ram' = m.ram /\ IE' = m.IE /\ IFlags' = m.flags

TellsTheNextByte(m, addr) == MemoryBecomes(m) /\ write_listener' = Plus(addr, 1)   \* fault
Stored(m, addr) == MemoryBecomes(m) /\ write_listener' = addr

NothingStored == UNCHANGED << ram, IE, IFlags >> /\ write_listener' = 0

Pending == IE \cap IFlags

-----------------------------------------------------------------------------
(* cpu_cycle while the last instruction still occupies the CPU               *)
Wait ==
  /\ idle_time > 0
  /\ idle_time' = idle_time - 1
  /\ NothingStored
  /\ UNCHANGED << PC, SP, IME, HALT >>

(* cpu_cycle of a halted CPU with nothing to wake it                         *)
Sleep ==
  /\ idle_time = 0 /\ HALT /\ Pending = {}
  /\ NothingStored
  /\ UNCHANGED << PC, SP, IME, HALT, idle_time >>

(* cpu_cycle reaches cpu_do_cycle, which interrupts or executes              *)
SleepsThrough == idle_time = 0 /\ ~HALT                              \* fault
Active == idle_time = 0 /\ (HALT => Pending # {})

(***************************************************************************)
(* handle_interruption: the lowest pending line's flag is cleared and its  *)
(* handler entered.  The push is not checked.  Bits above the five lines   *)
(* can be pending too: then there is no index, the error is dropped by     *)
(* cpu_cycle, and only IME has changed.                                    *)
(***************************************************************************)
PendingLines == Pending \cap Lines
find_interrupt_index == CHOOSE i \in PendingLines : \A j \in PendingLines : i <= j

TakesInterrupt == Active /\ IME /\ PendingLines # {}

ClearsAllFlags(i) == {}                                              \* fault
FlagsWithout(i) == IFlags \ { i }

Interrupt ==
  LET i  == find_interrupt_index
      sp == Plus(SP, -2)
  IN  /\ TakesInterrupt
      /\ HALT' = FALSE /\ IME' = FALSE
      /\ Stored(Written16([Memory EXCEPT !.flags = FlagsWithout(i)], sp, PC), sp)
      /\ SP' = sp
      /\ PC' = Handler[i]
      /\ idle_time' = 5 % Byte

InterruptWithoutIndex ==
  /\ Active /\ IME /\ Pending # {} /\ PendingLines = {}
  /\ HALT' = FALSE /\ IME' = FALSE
  /\ NothingStored
  /\ UNCHANGED << PC, SP, idle_time >>

-----------------------------------------------------------------------------
(***************************************************************************)
(* cpu_dispatch.  What every instruction does: the cycles it occupies are  *)
(* counted down from one less, in a byte, so the 0 of HALT and STOP in the *)
(* opcode tables becomes the longest wait there is.                        *)
(***************************************************************************)
CountsInAnInt(lu, families) ==                                       \* fault
  /\ Active /\ ~(IME /\ Pending # {})
  /\ lu \in Code[PC] /\ lu.family \in families
  /\ idle_time' = lu.cycles - 1
  /\ HALT' = (lu.family = "HALT")
Dispatch(lu, families) ==
  /\ Active /\ ~(IME /\ Pending # {})
  /\ lu \in Code[PC] /\ lu.family \in families
  /\ idle_time' = (lu.cycles - 1) % Byte
  /\ HALT' = (lu.family = "HALT")

After(lu)  == Plus(PC, lu.bytes)
Target(lu) == IF lu.family \in { "JR", "JR_CC" } THEN Plus(After(lu), lu.arg) ELSE lu.arg

(* NOP, STOP, HALT, and the conditional instructions whose condition fails   *)
Proceed(lu) ==
  /\ Dispatch(lu, { "NOP", "STOP", "HALT" } \cup Conditional)
  /\ PC' = After(lu)
  /\ NothingStored /\ UNCHANGED << SP, IME >>

(* EDI: the effect is immediate                                              *)
SetIME(lu) ==
  /\ Dispatch(lu, { "EI", "DI" })
  /\ PC' = After(lu)
  /\ IME' = (lu.family = "EI")
  /\ NothingStored /\ UNCHANGED SP

(* JP_N16, JP_HL, JP_CC_N16, JR_E8, JR_CC_E8                                  *)
Jump(lu) ==
  /\ Dispatch(lu, { "JP", "JP_CC", "JR", "JR_CC" })
  /\ PC' = Target(lu)
  /\ NothingStored /\ UNCHANGED << SP, IME >>

(* CALL_N16, CALL_CC_N16, RST_U3.  CALL_N16 does not look at the push's error *)
Call(lu) ==
  LET sp == Plus(SP, -2)
  IN  /\ Dispatch(lu, { "CALL", "CALL_CC", "RST" })
      /\ lu.family # "CALL" => sp # Top
      /\ SP' = sp /\ Stored(Written16(Memory, sp, After(lu)), sp)
      /\ PC' = Target(lu)
      /\ UNCHANGED IME

(***************************************************************************)
(* CALL_CC_N16 and RST_U3 push inside M_REQUIRE_NO_ERR, which evaluates a  *)
(* failing call once more to return its error.  The second push goes two   *)
(* bytes lower and succeeds, so cpu_dispatch returns ERR_NONE, without the *)
(* jump.                                                                   *)
(***************************************************************************)
CallPushedTwice(lu) ==
  LET sp == Plus(SP, -4)
  IN  /\ Dispatch(lu, { "CALL_CC", "RST" })
      /\ Plus(SP, -2) = Top
      /\ SP' = sp /\ Stored(Written16(Memory, sp, After(lu)), sp)
      /\ PC' = After(lu)
      /\ UNCHANGED IME

(* cpu_SP_pop                                                                *)
PopsBeforeReading == Readable16At(Plus(SP, 2))                       \* fault
Popped == Readable16At(SP)

(* RET, RET_CC, RETI                                                         *)
Return(lu) ==
  /\ Dispatch(lu, { "RET", "RET_CC", "RETI" })
  /\ PC' \in Popped
  /\ SP' = Plus(SP, 2)
  /\ IME' = (IME \/ lu.family = "RETI")
  /\ NothingStored

(* An unknown instruction: ERR_INSTR makes M_REQUIRE_NO_ERR dispatch it once  *)
(* more, and cpu_cycle drops the error.                                       *)
Unknown(lu) ==
  /\ Dispatch(lu, { "UNKN" })
  /\ PC' = Plus(PC, 2 * lu.bytes)
  /\ NothingStored /\ UNCHANGED << SP, IME >>

(***************************************************************************)
(* cpu_dispatch_alu and cpu_dispatch_storage run with PC still at the      *)
(* instruction, to read its operands, and PC stays there.                  *)
(***************************************************************************)
DataOnly(lu) ==
  /\ Dispatch(lu, { "ALU", "LD" })
  /\ NothingStored /\ UNCHANGED << PC, SP, IME >>

SetSP(lu) ==
  /\ Dispatch(lu, { "INC_SP", "LD_SP", "POP" })
  /\ SP' = CASE lu.family = "INC_SP" -> Plus(SP, 1)
             [] lu.family = "POP"    -> Plus(SP, 2)
             [] lu.family = "LD_SP"  -> lu.arg
  /\ NothingStored /\ UNCHANGED << PC, IME >>

Store(lu) ==
  /\ Dispatch(lu, { "ST" })
  /\ \E byte \in 0 .. Byte - 1 : Stored(Written(Memory, lu.arg, byte), lu.arg)
  /\ UNCHANGED << PC, SP, IME >>

(* LD_N16R_SP                                                                *)
StoreSP(lu) ==
  /\ Dispatch(lu, { "ST16" })
  /\ Stored(Written16(Memory, lu.arg, SP), lu.arg)
  /\ UNCHANGED << PC, SP, IME >>

PushWord(lu, word) ==
  LET sp == Plus(SP, -2)
  IN  /\ Dispatch(lu, { "PUSH" })
      /\ SP' = sp
      /\ Stored(Written16(Memory, sp, word), sp)
      /\ UNCHANGED << PC, IME >>

Push(lu) == \E word \in Addrs : PushWord(lu, word)

Execute(lu) ==
  \/ Proceed(lu) \/ SetIME(lu)
  \/ Jump(lu) \/ Call(lu) \/ CallPushedTwice(lu) \/ Return(lu)
  \/ Unknown(lu)
  \/ DataOnly(lu) \/ SetSP(lu) \/ Store(lu) \/ StoreSP(lu) \/ Push(lu)

(* One call of cpu_cycle                                                     *)
cpu_cycle ==
  \/ Wait \/ Sleep
  \/ Interrupt \/ InterruptWithoutIndex
  \/ \E lu \in Code[PC] : Execute(lu)

(* The other components, at any time                                         *)
cpu_request_interrupt(i) ==
  /\ IFlags' = IFlags \cup { i }
  /\ UNCHANGED << PC, SP, IME, HALT, IE, idle_time, write_listener, ram >>

-----------------------------------------------------------------------------
(* cpu_init, then what a test sets                                           *)
Init ==
  /\ PC = 0 /\ SP = InitialSP
  /\ IME = FALSE /\ HALT = FALSE
  /\ IE = InitialIE /\ IFlags = {}
  /\ idle_time = 0 /\ write_listener = 0
  /\ ram = [a \in Tracked |-> 0]

Next == cpu_cycle \/ \E i \in Lines : cpu_request_interrupt(i)

(***************************************************************************)
(* The main loops of gameboy_run_until and of the test programs call       *)
(* cpu_cycle for as long as they run; nothing makes an interrupt come.     *)
(***************************************************************************)
Spec == Init /\ [][Next]_vars /\ WF_vars(cpu_cycle)

-----------------------------------------------------------------------------
(***************************************************************************)
(* A requested interrupt is never lost: its flag stays up until the CPU    *)
(* enters its handler, as the lowest of the enabled ones and leaving the   *)
(* others up, or until a store lands on REG_IF (handle_interruption;       *)
(* cpu_request_interrupt may come between any two cycles).                 *)
(***************************************************************************)
StoresToIF == write_listener' \in { RegIF - 1, RegIF }

Takes(i) ==
  /\ IME /\ ~IME'
  /\ i \in Pending /\ \A j \in Pending : i <= j
  /\ PC' = Handler[i]
  /\ IFlags' = IFlags \ { i }

InterruptNotLost ==
  [][\A i \in Lines : i \in IFlags /\ i \notin IFlags' => Takes(i) \/ StoresToIF]_vars

(***************************************************************************)
(* The listeners of the timer and of the boot ROM learn of a store from    *)
(* write_listener alone: every byte the CPU changes lies at the address it *)
(* names, or just above it (cpu_write_at_idx, cpu_write16_at_idx, pushes). *)
(***************************************************************************)
Announced(a) == write_listener' \in { a, Plus(a, -1) }

EveryStoreAnnounced ==
  /\ \A a \in Tracked : ram'[a] # ram[a] => Announced(a)
  /\ IE' # IE => Announced(RegIE)

StoresAreAnnounced == [][EveryStoreAnnounced]_vars

(***************************************************************************)
(* With interrupts on, a pending one is taken (or the program turns them   *)
(* off first), and a halted CPU with one pending wakes up: neither the     *)
(* idle count nor HALT holds it back for ever (cpu_cycle, cpu_do_cycle).   *)
(***************************************************************************)
EnabledInterruptIsTaken == IME /\ PendingLines # {} ~> ~IME
HaltWakesUp             == HALT /\ Pending # {} ~> ~HALT
NothingPendsForEver     == EnabledInterruptIsTaken /\ HaltWakesUp

-----------------------------------------------------------------------------
(***************************************************************************)
(* The stack as a program means it: the return addresses of the calls and  *)
(* interrupts it is inside of, read back from the bytes between SP and     *)
(* InitialSP.                                                              *)
(***************************************************************************)

Depth == ((InitialSP - SP) % (Byte * Byte)) \div 2

ByteAt(a) == CHOOSE byte \in ReadableAt(a) : TRUE

Frames == [k \in 1 .. Depth |-> merge8(ByteAt(Plus(InitialSP, -2 * k)),
                                       ByteAt(Plus(InitialSP, 1 - 2 * k)))]

Stack == INSTANCE CallStack WITH
           N        <- Byte * Byte,
           Longest  <- 3,
           Handlers <- { Handler[i] : i \in Lines },
           pc       <- PC,
           frames   <- Frames

(***************************************************************************)
(* A program of calls and returns comes back exactly where it left, from   *)
(* subroutines and from interrupts nested anywhere in them (cpu_SP_push,   *)
(* cpu_SP_pop, handle_interruption, the call and return families).         *)
(***************************************************************************)
ComesBackWhereItLeft == Stack!Spec

(***************************************************************************)
(* What a program has to keep to for that: the return addresses and the    *)
(* bytes the next one goes to are memory (of the registers behind the bus  *)
(* only REG_IE, the first byte of a stack that starts at 0), no word of    *)
(* them is at the top address, no instruction but calls and returns moves  *)
(* SP, none stores where they are, and none returns from what it has not   *)
(* entered.                                                                *)
(***************************************************************************)
StackBytes == { Plus(InitialSP, -k) : k \in 1 .. 2 * Depth }

KeepsToItsStack ==
  /\ 2 * Depth + 4 < Byte * Byte
  /\ StackBytes \subseteq Tracked \cup { RegIE }
  /\ \A k \in 1 .. Depth : Plus(InitialSP, -2 * k) # Top
  /\ \A lu \in Code[PC] :
       /\ lu.family \notin { "INC_SP", "LD_SP", "PUSH", "POP" }
       /\ lu.family \in { "RET", "RET_CC", "RETI" } => Depth > 0
       /\ lu.family = "ST" => lu.arg \notin StackBytes
       /\ lu.family = "ST16" => lu.arg \notin StackBytes /\ lu.arg + 1 \notin StackBytes

(* A byte is what its bits are.  The proofs take it from here, TLC settles   *)
(* it: of 2 ^ Bits they know nothing.                                        *)
BytesAreTheirBits == \A b, c \in 0 .. Byte - 1 : BitsOf(b) = BitsOf(c) => b = c
=============================================================================
