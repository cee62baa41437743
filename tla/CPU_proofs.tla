----------------------------- MODULE CPU_proofs -----------------------------
(***************************************************************************)
(* CPU for every width of its bytes, every layout of the interrupt lines   *)
(* and every program: type correctness, that neither an interrupt request  *)
(* nor a store goes unnoticed, and that a program which keeps to its stack *)
(* comes back where it left.                                               *)
(***************************************************************************)
EXTENDS CPU, Sequences, SequenceTheorems, WellFoundedInduction, TLAPS

-----------------------------------------------------------------------------
(* Arithmetic on addresses and bytes.                                        *)

(* There is more than one byte and so more than one address.                 *)
LEMMA Sizes ==
  /\ Byte \in Nat /\ Byte >= 4
  /\ Byte * Byte \in Nat /\ Byte * Byte > Byte
BY WidthAssumption, SMT

(* Addition on addresses stays among them, whatever the operands' signs.     *)
LEMMA PlusType ==
  ASSUME NEW a \in Int, NEW b \in Int
  PROVE  Plus(a, b) \in Addrs
<1> DEFINE n == Byte * Byte
<1>1. n \in Nat /\ n > 0
  BY Sizes
<1> HIDE DEF n
<1>2. (a + b) % n \in 0 .. n - 1
  BY <1>1
<1> QED BY <1>2 DEF Plus, Addrs, n

(* The two halves of an address are bytes, and two bytes make an address.    *)
LEMMA Halves ==
  ASSUME NEW w \in Addrs
  PROVE  lsb8(w) \in 0 .. Byte - 1 /\ msb8(w) \in 0 .. Byte - 1
<1>1. w \in Nat /\ w < Byte * Byte
  BY Sizes DEF Addrs
<1>2. w % Byte \in 0 .. Byte - 1 /\ w \div Byte \in Nat /\ w = Byte * (w \div Byte) + (w % Byte)
  BY <1>1, Sizes
<1>3. \A q, r \in Nat : w = Byte * q + r => q < Byte
  <2> SUFFICES ASSUME NEW q \in Nat, NEW r \in Nat, w = Byte * q + r, q >= Byte PROVE FALSE
    BY Sizes
  <2>1. Byte * q >= Byte * Byte
    BY Sizes
  <2> QED BY <1>1, <2>1, Sizes
<1>4. w % Byte \in Nat
  BY <1>2, Sizes
<1>5. w \div Byte < Byte
  BY <1>2, <1>3, <1>4, Zenon
<1> QED BY <1>2, <1>5, Sizes DEF lsb8, msb8

LEMMA Merged ==
  ASSUME NEW lo \in 0 .. Byte - 1, NEW hi \in 0 .. Byte - 1
  PROVE  merge8(lo, hi) \in Addrs
<1>1. Byte * hi <= Byte * (Byte - 1) /\ Byte * hi >= 0
  BY Sizes
<1>2. Byte * (Byte - 1) = Byte * Byte - Byte
  BY Sizes
<1> QED BY <1>1, <1>2, Sizes DEF merge8, Addrs

-----------------------------------------------------------------------------
(* Memory.                                                                   *)

(* The worlds a store can find and leave.                                    *)
Memories == [ram : [Tracked -> 0 .. Byte - 1],
             IE : SUBSET (0 .. Bits - 1), flags : SUBSET (0 .. Bits - 1)]

LEMMA WrittenType ==
  ASSUME NEW m \in Memories, NEW a \in Addrs, NEW byte \in 0 .. Byte - 1
  PROVE  Written(m, a, byte) \in Memories
<1>1. BitsOf(byte) \in SUBSET (0 .. Bits - 1)
  BY DEF BitsOf
<1> QED BY <1>1 DEF Written, Memories

LEMMA Written16Type ==
  ASSUME NEW m \in Memories, NEW a \in Addrs, NEW w \in Addrs
  PROVE  Written16(m, a, w) \in Memories
<1>1. CASE a = Top
  BY <1>1 DEF Written16
<1>2. CASE a # Top
  <2>1. a + 1 \in Addrs
    BY <1>2, Sizes DEF Addrs, Top
  <2>2. Written(m, a, lsb8(w)) \in Memories
    BY Halves, WrittenType
  <2> QED BY <1>2, <2>1, <2>2, Halves, WrittenType DEF Written16
<1> QED BY <1>1, <1>2

(* A two-byte store changes bytes at its address and just above only.        *)
LEMMA Written16Frame ==
  ASSUME NEW m \in Memories, NEW a \in Addrs, NEW w \in Addrs
  PROVE  /\ \A b \in Tracked : Written16(m, a, w).ram[b] # m.ram[b] => b \in { a, a + 1 }
         /\ Written16(m, a, w).IE # m.IE => RegIE \in { a, a + 1 }
         /\ Written16(m, a, w).flags # m.flags => RegIF \in { a, a + 1 }
BY DEF Written16, Written, Memories

LEMMA WrittenFrame ==
  ASSUME NEW m \in Memories, NEW a \in Addrs, NEW byte
  PROVE  /\ \A b \in Tracked : Written(m, a, byte).ram[b] # m.ram[b] => b = a
         /\ Written(m, a, byte).IE # m.IE => RegIE = a
         /\ Written(m, a, byte).flags # m.flags => RegIF = a
BY DEF Written, Memories

LEMMA MemoryType == TypeOK => Memory \in Memories
BY DEF TypeOK, Memory, Memories

(* What a pop reads is an address.                                           *)
LEMMA PoppedType == TypeOK => Popped \subseteq Addrs
<1> SUFFICES ASSUME TypeOK PROVE Popped \subseteq Addrs
  OBVIOUS
<1>1. Byte - 1 \in Addrs
  BY Sizes DEF Addrs
<1>2. \A a : ReadableAt(a) \subseteq 0 .. Byte - 1
  BY DEF ReadableAt
<1>3. \A lo, hi \in 0 .. Byte - 1 : merge8(lo, hi) \in Addrs
  BY Merged
<1> QED BY <1>1, <1>2, <1>3 DEF Popped, Readable16At

(* Some pending line is the lowest: CHOOSE has something to choose.          *)
LEMMA LowestLine ==
  ASSUME TypeOK, PendingLines # {}
  PROVE  /\ find_interrupt_index \in PendingLines
         /\ \A j \in PendingLines : find_interrupt_index <= j
<1>1. PendingLines \in SUBSET Nat
  BY WidthAssumption DEF PendingLines, Lines
<1>2. \E i \in PendingLines : \A j \in PendingLines : i <= j
  <2>1. \E i \in PendingLines : \A j \in PendingLines : << j, i >> \notin OpToRel(<, Nat)
    BY <1>1, NatLessThanWellFounded, WFMin, Zenon
  <2>2. PICK i \in PendingLines : \A j \in PendingLines : << j, i >> \notin OpToRel(<, Nat)
    BY <2>1, Zenon
  <2>3. \A j \in PendingLines : << j, i >> \notin { ss \in Nat \X Nat : ss[1] < ss[2] }
    BY <2>2, Zenon DEF OpToRel
  <2>4. \A j \in PendingLines : i <= j
    <3> SUFFICES ASSUME NEW j \in PendingLines PROVE i <= j
      OBVIOUS
    <3>1. i \in Nat /\ j \in Nat /\ << j, i >> \in Nat \X Nat
      BY <1>1
    <3>2. ~ (j < i)
      BY <2>3, <3>1
    <3> QED BY <3>1, <3>2
  <2> QED BY <2>4
<1> QED BY <1>2 DEF find_interrupt_index

-----------------------------------------------------------------------------
(* Every kind of step keeps the types.                                       *)

(* A store that names an address leaves the memory well typed.               *)
LEMMA StoredType ==
  ASSUME NEW m \in Memories, NEW a \in Addrs, Stored(m, a)
  PROVE  /\ IE' \subseteq 0 .. Bits - 1 /\ IFlags' \subseteq 0 .. Bits - 1
         /\ write_listener' \in Addrs
         /\ ram' \in [Tracked -> 0 .. Byte - 1]
BY DEF Stored, MemoryBecomes, Memories

LEMMA NothingStoredType ==
  ASSUME TypeOK, NothingStored
  PROVE  /\ IE' \subseteq 0 .. Bits - 1 /\ IFlags' \subseteq 0 .. Bits - 1
         /\ write_listener' \in Addrs
         /\ ram' \in [Tracked -> 0 .. Byte - 1]
<1>1. 0 \in Addrs
  BY Sizes DEF Addrs
<1> QED BY <1>1 DEF NothingStored, TypeOK

(* Whatever is dispatched is an instruction and leaves HALT and the idle     *)
(* count well typed.                                                         *)
LEMMA Dispatched ==
  ASSUME TypeOK, NEW lu, NEW families, Dispatch(lu, families)
  PROVE  /\ lu \in Instructions /\ lu.bytes \in 1 .. 3 /\ lu.arg \in Addrs
         /\ HALT' \in BOOLEAN /\ idle_time' \in 0 .. Byte - 1
<1>1. lu \in Instructions
  BY LayoutAssumption DEF Dispatch, TypeOK
<1>2. lu.bytes \in 1 .. 3 /\ lu.arg \in Addrs /\ lu.cycles \in 0 .. 6
  BY <1>1 DEF Instructions
<1>3. (lu.cycles - 1) % Byte \in 0 .. Byte - 1
  BY <1>2, Sizes
<1> QED BY <1>1, <1>2, <1>3 DEF Dispatch

(* The addresses an instruction can move PC or SP to.                        *)
LEMMA Destinations ==
  ASSUME TypeOK, NEW lu \in Instructions
  PROVE  /\ After(lu) \in Addrs /\ Target(lu) \in Addrs
         /\ Plus(PC, 2 * lu.bytes) \in Addrs
         /\ Plus(SP, 1) \in Addrs /\ Plus(SP, 2) \in Addrs
         /\ Plus(SP, -2) \in Addrs /\ Plus(SP, -4) \in Addrs
<1>1. lu.bytes \in Int /\ lu.arg \in Addrs /\ 2 * lu.bytes \in Int
  BY DEF Instructions
<1>2. \A a \in Addrs : a \in Int
  BY Sizes DEF Addrs
<1>3. PC \in Int /\ SP \in Int
  BY <1>2 DEF TypeOK
<1>4. After(lu) \in Addrs
  BY <1>1, <1>3, PlusType DEF After
<1>5. Target(lu) \in Addrs
  BY <1>1, <1>2, <1>4, PlusType DEF Target
<1> QED BY <1>1, <1>3, <1>4, <1>5, PlusType

(* An interrupt's new values.                                                *)
LEMMA Interrupted ==
  ASSUME TypeOK, Interrupt
  PROVE  LET i == find_interrupt_index
             sp == Plus(SP, -2)
         IN  /\ i \in Lines /\ sp \in Addrs
             /\ [Memory EXCEPT !.flags = FlagsWithout(i)] \in Memories
<1> DEFINE i == find_interrupt_index
           sp == Plus(SP, -2)
<1>1. i \in PendingLines
  BY LowestLine DEF Interrupt, TakesInterrupt
<1>2. i \in Lines
  BY <1>1 DEF PendingLines
<1>3. sp \in Addrs
  <2>1. SP \in Int
    BY Sizes DEF TypeOK, Addrs
  <2> QED BY <2>1, PlusType
<1>4. FlagsWithout(i) \in SUBSET (0 .. Bits - 1)
  BY DEF FlagsWithout, TypeOK
<1>5. [Memory EXCEPT !.flags = FlagsWithout(i)] \in Memories
  BY <1>4, MemoryType DEF Memories
<1> QED BY <1>2, <1>3, <1>5

LEMMA ExecuteType ==
  ASSUME TypeOK, NEW lu, Execute(lu)
  PROVE  TypeOK'
<1>1. lu \in Instructions /\ HALT' \in BOOLEAN /\ idle_time' \in 0 .. Byte - 1
  BY Dispatched DEF Execute, Proceed, SetIME, Jump, Call, CallPushedTwice, Return, Unknown,
                    DataOnly, SetSP, Store, StoreSP, Push, PushWord
<1>2. Memory \in Memories
  BY MemoryType
<1>3. PC \in Addrs /\ SP \in Addrs /\ IME \in BOOLEAN /\ lu.arg \in Addrs
  BY <1>1 DEF TypeOK, Instructions
<1>4. CASE Proceed(lu)
  <2>1. PC' \in Addrs /\ SP' \in Addrs /\ IME' \in BOOLEAN /\ NothingStored
    BY <1>1, <1>3, <1>4, Destinations DEF Proceed
  <2> QED BY <1>1, <2>1, NothingStoredType DEF TypeOK
<1>5. CASE SetIME(lu)
  <2>1. PC' \in Addrs /\ SP' \in Addrs /\ IME' \in BOOLEAN /\ NothingStored
    BY <1>1, <1>3, <1>5, Destinations DEF SetIME
  <2> QED BY <1>1, <2>1, NothingStoredType DEF TypeOK
<1>6. CASE Jump(lu)
  <2>1. PC' \in Addrs /\ SP' \in Addrs /\ IME' \in BOOLEAN /\ NothingStored
    BY <1>1, <1>3, <1>6, Destinations DEF Jump
  <2> QED BY <1>1, <2>1, NothingStoredType DEF TypeOK
<1>7. CASE Call(lu)
  <2>1. PC' \in Addrs /\ SP' \in Addrs /\ IME' \in BOOLEAN
    BY <1>1, <1>3, <1>7, Destinations DEF Call
  <2>2. /\ Plus(SP, -2) \in Addrs
        /\ Written16(Memory, Plus(SP, -2), After(lu)) \in Memories
    BY <1>1, <1>2, Destinations, Written16Type
  <2>3. Stored(Written16(Memory, Plus(SP, -2), After(lu)), Plus(SP, -2))
    BY <1>7 DEF Call
  <2> QED BY <1>1, <2>1, <2>2, <2>3, StoredType DEF TypeOK
<1>8. CASE CallPushedTwice(lu)
  <2>1. PC' \in Addrs /\ SP' \in Addrs /\ IME' \in BOOLEAN
    BY <1>1, <1>3, <1>8, Destinations DEF CallPushedTwice
  <2>2. /\ Plus(SP, -4) \in Addrs
        /\ Written16(Memory, Plus(SP, -4), After(lu)) \in Memories
    BY <1>1, <1>2, Destinations, Written16Type
  <2>3. Stored(Written16(Memory, Plus(SP, -4), After(lu)), Plus(SP, -4))
    BY <1>8 DEF CallPushedTwice
  <2> QED BY <1>1, <2>1, <2>2, <2>3, StoredType DEF TypeOK
<1>9. CASE Return(lu)
  <2>1. PC' \in Addrs /\ SP' \in Addrs /\ IME' \in BOOLEAN /\ NothingStored
    BY <1>1, <1>3, <1>9, Destinations, PoppedType DEF Return
  <2> QED BY <1>1, <2>1, NothingStoredType DEF TypeOK
<1>10. CASE Unknown(lu)
  <2>1. PC' \in Addrs /\ SP' \in Addrs /\ IME' \in BOOLEAN /\ NothingStored
    BY <1>1, <1>3, <1>10, Destinations DEF Unknown
  <2> QED BY <1>1, <2>1, NothingStoredType DEF TypeOK
<1>11. CASE DataOnly(lu)
  <2>1. PC' \in Addrs /\ SP' \in Addrs /\ IME' \in BOOLEAN /\ NothingStored
    BY <1>3, <1>11 DEF DataOnly
  <2> QED BY <1>1, <2>1, NothingStoredType DEF TypeOK
<1>12. CASE SetSP(lu)
  <2>1. lu.family \in { "INC_SP", "LD_SP", "POP" }
    BY <1>12 DEF SetSP, Dispatch
  <2>2. PC' \in Addrs /\ SP' \in Addrs /\ IME' \in BOOLEAN /\ NothingStored
    BY <1>1, <1>3, <1>12, <2>1, Destinations DEF SetSP
  <2> QED BY <1>1, <2>2, NothingStoredType DEF TypeOK
<1>13. CASE Store(lu)
  <2>1. PC' \in Addrs /\ SP' \in Addrs /\ IME' \in BOOLEAN
    BY <1>3, <1>13 DEF Store
  <2>2. PICK byte \in 0 .. Byte - 1 : Stored(Written(Memory, lu.arg, byte), lu.arg)
    BY <1>13 DEF Store
  <2>3. Written(Memory, lu.arg, byte) \in Memories
    BY <1>2, <1>3, WrittenType
  <2> QED BY <1>1, <1>3, <2>1, <2>2, <2>3, StoredType DEF TypeOK
<1>14. CASE StoreSP(lu)
  <2>1. PC' \in Addrs /\ SP' \in Addrs /\ IME' \in BOOLEAN
    BY <1>3, <1>14 DEF StoreSP
  <2>2. Written16(Memory, lu.arg, SP) \in Memories
    BY <1>2, <1>3, Written16Type
  <2>3. Stored(Written16(Memory, lu.arg, SP), lu.arg)
    BY <1>14 DEF StoreSP
  <2> QED BY <1>1, <1>3, <2>1, <2>2, <2>3, StoredType DEF TypeOK
<1>15. CASE Push(lu)
  <2>1. PC' \in Addrs /\ SP' \in Addrs /\ IME' \in BOOLEAN /\ Plus(SP, -2) \in Addrs
    BY <1>1, <1>3, <1>15, Destinations DEF Push, PushWord
  <2>2. PICK word \in Addrs : Stored(Written16(Memory, Plus(SP, -2), word), Plus(SP, -2))
    BY <1>15 DEF Push, PushWord
  <2>3. Written16(Memory, Plus(SP, -2), word) \in Memories
    BY <1>2, <2>1, Written16Type
  <2> QED BY <1>1, <2>1, <2>2, <2>3, StoredType DEF TypeOK
<1> QED
  BY <1>4, <1>5, <1>6, <1>7, <1>8, <1>9, <1>10, <1>11, <1>12, <1>13, <1>14, <1>15 DEF Execute

(* The CPU's registers, IE, IF, the idle count and the memory keep their     *)
(* widths under every program and every interleaving of interrupt requests:  *)
(* the invariant the other proofs rest on.                                   *)
THEOREM TypeCorrect == Spec => []TypeOK
<1>1. Init => TypeOK
  <2>1. 0 \in Addrs /\ 0 \in 0 .. Byte - 1
    BY Sizes DEF Addrs
  <2> QED BY <2>1, LayoutAssumption DEF Init, TypeOK
<1>2. TypeOK /\ [Next]_vars => TypeOK'
  <2> SUFFICES ASSUME TypeOK, [Next]_vars PROVE TypeOK'
    OBVIOUS
  <2>1. CASE Wait
    <3>1. idle_time' \in 0 .. Byte - 1
      BY <2>1, Sizes DEF Wait, TypeOK
    <3> QED BY <2>1, <3>1, NothingStoredType DEF Wait, TypeOK
  <2>2. CASE Sleep
    BY <2>2, NothingStoredType DEF Sleep, TypeOK
  <2>3. CASE Interrupt
    <3> DEFINE i == find_interrupt_index
               sp == Plus(SP, -2)
               m == [Memory EXCEPT !.flags = FlagsWithout(i)]
    <3>1. i \in Lines /\ sp \in Addrs /\ m \in Memories
      BY <2>3, Interrupted
    <3>2. /\ HALT' = FALSE /\ IME' = FALSE /\ SP' = sp /\ PC' = Handler[i]
          /\ Stored(Written16(m, sp, PC), sp) /\ idle_time' = 5 % Byte
      BY <2>3 DEF Interrupt
    <3> HIDE DEF i, sp, m
    <3>3. Handler[i] \in Addrs /\ PC \in Addrs
      BY <3>1, LayoutAssumption DEF TypeOK
    <3>4. Written16(m, sp, PC) \in Memories
      BY <3>1, <3>3, Written16Type
    <3>5. 5 % Byte \in 0 .. Byte - 1
      BY Sizes
    <3> QED BY <3>1, <3>2, <3>3, <3>4, <3>5, StoredType DEF TypeOK
  <2>4. CASE InterruptWithoutIndex
    BY <2>4, NothingStoredType DEF InterruptWithoutIndex, TypeOK
  <2>5. CASE \E lu \in Code[PC] : Execute(lu)
    BY <2>5, ExecuteType
  <2>6. CASE \E i \in Lines : cpu_request_interrupt(i)
    <3>1. Lines \subseteq 0 .. Bits - 1
      BY WidthAssumption DEF Lines
    <3> QED BY <2>6, <3>1 DEF cpu_request_interrupt, TypeOK
  <2>7. CASE UNCHANGED vars
    BY <2>7 DEF vars, TypeOK
  <2> QED BY <2>1, <2>2, <2>3, <2>4, <2>5, <2>6, <2>7 DEF Next, cpu_cycle
<1> QED BY <1>1, <1>2, PTL DEF Spec

-----------------------------------------------------------------------------
(* What changes memory is announced.                                         *)

(* The address below a + 1 is a.                                             *)
LEMMA JustBelow ==
  ASSUME NEW a \in Addrs
  PROVE  Plus(a + 1, -1) = a
<1> DEFINE n == Byte * Byte
<1>1. n \in Nat /\ n > 0 /\ a \in 0 .. n - 1
  BY Sizes DEF Addrs
<1>2. Plus(a + 1, -1) = ((a + 1) + (-1)) % n
  BY DEF Plus
<1> HIDE DEF n
<1>3. (a + 1) + (-1) = a /\ a % n = a
  BY <1>1
<1> QED BY <1>2, <1>3

(* Everything a store of two bytes, or of one, changes with respect to the   *)
(* memory m it is made on.                                                   *)
Noticed(m) ==
  /\ \A b \in Tracked : ram'[b] # m.ram[b] => Announced(b)
  /\ IE' # m.IE => Announced(RegIE)
  /\ IFlags' # m.flags => StoresToIF

LEMMA Written16Noticed ==
  ASSUME NEW m \in Memories, NEW a \in Addrs, NEW w \in Addrs,
         Stored(Written16(m, a, w), a)
  PROVE  Noticed(m)
<1>1. write_listener' = a /\ Plus(a + 1, -1) = a
  BY JustBelow DEF Stored
<1>2. ram' = Written16(m, a, w).ram /\ IE' = Written16(m, a, w).IE /\ IFlags' = Written16(m, a, w).flags
  BY DEF Stored, MemoryBecomes
<1>3. \A b : b \in { a, a + 1 } => Announced(b)
  BY <1>1 DEF Announced
<1>4. \A b \in Tracked : ram'[b] # m.ram[b] => Announced(b)
  BY <1>2, <1>3, Written16Frame
<1>5. IE' # m.IE => Announced(RegIE)
  BY <1>2, <1>3, Written16Frame
<1>6. IFlags' # m.flags => RegIF \in { a, a + 1 }
  BY <1>2, Written16Frame
<1>7. IFlags' # m.flags => StoresToIF
  <2>1. a \in Int /\ RegIF \in Int
    BY LayoutAssumption, Sizes DEF Addrs
  <2> QED BY <1>1, <1>6, <2>1 DEF StoresToIF
<1> QED BY <1>4, <1>5, <1>7 DEF Noticed

LEMMA WrittenNoticed ==
  ASSUME NEW m \in Memories, NEW a \in Addrs, NEW byte \in 0 .. Byte - 1,
         Stored(Written(m, a, byte), a)
  PROVE  Noticed(m)
BY WrittenFrame DEF Stored, MemoryBecomes, Noticed, Announced, StoresToIF

LEMMA NothingNoticed ==
  ASSUME ram' = ram, IE' = IE, IFlags' = IFlags
  PROVE  Noticed(Memory)
BY DEF Noticed, Memory

LEMMA ExecuteNoticed ==
  ASSUME TypeOK, NEW lu, Execute(lu)
  PROVE  Noticed(Memory)
<1>1. lu \in Instructions /\ lu.arg \in Addrs
  BY Dispatched DEF Execute, Proceed, SetIME, Jump, Call, CallPushedTwice, Return, Unknown,
                    DataOnly, SetSP, Store, StoreSP, Push, PushWord
<1>2. Memory \in Memories /\ SP \in Addrs
  BY MemoryType DEF TypeOK
<1>3. Plus(SP, -2) \in Addrs /\ Plus(SP, -4) \in Addrs /\ After(lu) \in Addrs
  BY <1>1, Destinations
<1>4. CASE Proceed(lu) \/ SetIME(lu) \/ Jump(lu) \/ Return(lu) \/ Unknown(lu)
           \/ DataOnly(lu) \/ SetSP(lu)
  <2>1. NothingStored
    BY <1>4 DEF Proceed, SetIME, Jump, Return, Unknown, DataOnly, SetSP
  <2> QED BY <2>1, NothingNoticed DEF NothingStored
<1>5. CASE Call(lu)
  <2>1. Stored(Written16(Memory, Plus(SP, -2), After(lu)), Plus(SP, -2))
    BY <1>5 DEF Call
  <2> QED BY <1>2, <1>3, <2>1, Written16Noticed
<1>6. CASE CallPushedTwice(lu)
  <2>1. Stored(Written16(Memory, Plus(SP, -4), After(lu)), Plus(SP, -4))
    BY <1>6 DEF CallPushedTwice
  <2> QED BY <1>2, <1>3, <2>1, Written16Noticed
<1>7. CASE Store(lu)
  <2>1. PICK byte \in 0 .. Byte - 1 : Stored(Written(Memory, lu.arg, byte), lu.arg)
    BY <1>7 DEF Store
  <2> QED BY <1>1, <1>2, <2>1, WrittenNoticed
<1>8. CASE StoreSP(lu)
  <2>1. Stored(Written16(Memory, lu.arg, SP), lu.arg)
    BY <1>8 DEF StoreSP
  <2> QED BY <1>1, <1>2, <2>1, Written16Noticed
<1>9. CASE Push(lu)
  <2>1. PICK word \in Addrs : Stored(Written16(Memory, Plus(SP, -2), word), Plus(SP, -2))
    BY <1>9 DEF Push, PushWord
  <2> QED BY <1>2, <1>3, <2>1, Written16Noticed
<1> QED BY <1>4, <1>5, <1>6, <1>7, <1>8, <1>9 DEF Execute

(* An interrupt takes the lowest pending line, and all that changes besides  *)
(* that line's flag is what its push announces.                              *)
LEMMA InterruptNoticed ==
  ASSUME TypeOK, Interrupt
  PROVE  LET i == find_interrupt_index
         IN  /\ Noticed([Memory EXCEPT !.flags = FlagsWithout(i)])
             /\ i \in Pending /\ \A j \in Pending : i <= j
<1> DEFINE i == find_interrupt_index
           sp == Plus(SP, -2)
           m == [Memory EXCEPT !.flags = FlagsWithout(i)]
<1>1. i \in Lines /\ sp \in Addrs /\ m \in Memories /\ PC \in Addrs
  BY Interrupted DEF TypeOK
<1>2. Stored(Written16(m, sp, PC), sp)
  BY DEF Interrupt
<1>3. i \in PendingLines /\ \A j \in PendingLines : i <= j
  BY LowestLine DEF Interrupt, TakesInterrupt
<1> HIDE DEF i, sp, m
<1>4. Noticed(m)
  BY <1>1, <1>2, Written16Noticed
<1>5. \A j \in Pending : i <= j
  <2> SUFFICES ASSUME NEW j \in Pending PROVE i <= j
    OBVIOUS
  <2>1. i \in 0 .. NbLines - 1 /\ NbLines \in Nat /\ j \in Nat
    BY <1>1, WidthAssumption DEF Lines, Pending, TypeOK
  <2>2. CASE j \in Lines
    BY <1>3, <2>2 DEF PendingLines
  <2>3. CASE j \notin Lines
    BY <2>1, <2>3 DEF Lines
  <2> QED BY <2>2, <2>3
<1> QED BY <1>3, <1>4, <1>5 DEF PendingLines, i, m

(* No interrupt request is ever lost, whatever the program and whenever the  *)
(* other components make their requests.                                     *)
THEOREM RequestsAreKept == Spec => InterruptNotLost
<1>1. TypeOK /\ [Next]_vars =>
        \A i \in Lines : i \in IFlags /\ i \notin IFlags' => Takes(i) \/ StoresToIF
  <2> SUFFICES ASSUME TypeOK, [Next]_vars, NEW i \in Lines, i \in IFlags, i \notin IFlags'
               PROVE  Takes(i) \/ StoresToIF
    OBVIOUS
  <2>1. CASE Wait \/ Sleep \/ InterruptWithoutIndex \/ UNCHANGED vars
    BY <2>1 DEF Wait, Sleep, InterruptWithoutIndex, NothingStored, vars
  <2>2. CASE Interrupt
    <3> DEFINE k == find_interrupt_index
    <3>1. /\ Noticed([Memory EXCEPT !.flags = FlagsWithout(k)])
          /\ k \in Pending /\ \A j \in Pending : k <= j
      BY <2>2, InterruptNoticed
    <3>2. IME /\ ~IME' /\ PC' = Handler[k]
      BY <2>2 DEF Interrupt, TakesInterrupt
    <3> HIDE DEF k
    <3>3. CASE IFlags' = IFlags \ { k }
      <4>1. i = k
        BY <3>3
      <4> QED BY <3>1, <3>2, <3>3, <4>1 DEF Takes
    <3>4. CASE IFlags' # IFlags \ { k }
      BY <3>1, <3>4 DEF Noticed, Memory, FlagsWithout
    <3> QED BY <3>3, <3>4
  <2>3. CASE \E lu \in Code[PC] : Execute(lu)
    <3>1. Noticed(Memory)
      BY <2>3, ExecuteNoticed
    <3> QED BY <3>1 DEF Noticed, Memory
  <2>4. CASE \E j \in Lines : cpu_request_interrupt(j)
    BY <2>4 DEF cpu_request_interrupt
  <2> QED BY <2>1, <2>2, <2>3, <2>4 DEF Next, cpu_cycle
<1> QED BY <1>1, TypeCorrect, PTL DEF Spec, InterruptNotLost

(* The listeners hear of every store: to RAM and to REG_IE, by instructions, *)
(* calls and interrupts alike.                                               *)
THEOREM StoresAreHeard == Spec => StoresAreAnnounced
<1>1. TypeOK /\ [Next]_vars => EveryStoreAnnounced
  <2> USE DEF EveryStoreAnnounced
  <2> SUFFICES ASSUME TypeOK, [Next]_vars
               PROVE  EveryStoreAnnounced
    OBVIOUS
  <2>1. CASE Wait \/ Sleep \/ InterruptWithoutIndex \/ UNCHANGED vars
    BY <2>1 DEF Wait, Sleep, InterruptWithoutIndex, NothingStored, vars
  <2>2. CASE Interrupt
    <3>1. Noticed([Memory EXCEPT !.flags = FlagsWithout(find_interrupt_index)])
      BY <2>2, InterruptNoticed
    <3> QED BY <3>1 DEF Noticed, Memory
  <2>3. CASE \E lu \in Code[PC] : Execute(lu)
    <3>1. Noticed(Memory)
      BY <2>3, ExecuteNoticed
    <3> QED BY <3>1 DEF Noticed, Memory
  <2>4. CASE \E j \in Lines : cpu_request_interrupt(j)
    BY <2>4 DEF cpu_request_interrupt
  <2> QED BY <2>1, <2>2, <2>3, <2>4 DEF Next, cpu_cycle
<1> QED BY <1>1, TypeCorrect, PTL DEF Spec, StoresAreAnnounced

-----------------------------------------------------------------------------
(* The stack of a program that keeps to it.                                  *)

(* A remainder that needs one addition at most.                              *)
LEMMA Around ==
  ASSUME NEW n \in Nat \ {0}, NEW x \in Int
  PROVE  /\ x \in 0 .. n - 1 => x % n = x
         /\ x \in -n .. -1 => x % n = x + n
<1>1. x \in 0 .. n - 1 => x % n = x
  OBVIOUS
<1>2. ASSUME x \in -n .. -1 PROVE x % n = x + n
  <2>1. x + n \in 0 .. n - 1
    BY <1>2
  <2> QED BY <1>2, <2>1, SMTT(30)
<1> QED BY <1>1, <1>2

(* Where the stack has got to, k bytes from its start.                       *)
Under(k) == Plus(InitialSP, -k)

LEMMA UnderIs ==
  ASSUME NEW k \in 0 .. Byte * Byte - 1
  PROVE  Under(k) = IF k <= InitialSP THEN InitialSP - k ELSE InitialSP - k + Byte * Byte
<1>1. PICK n \in Nat \ {0} : n = Byte * Byte
  BY Sizes
<1>2. InitialSP \in 0 .. n - 1 /\ k \in 0 .. n - 1
  BY <1>1, LayoutAssumption DEF Addrs
<1>3. Under(k) = (InitialSP + (-k)) % n
  BY <1>1 DEF Under, Plus
<1>4. PICK x \in Int : x = InitialSP + (-k)
  BY <1>2
<1>5. IF k <= InitialSP THEN x \in 0 .. n - 1 ELSE x \in -n .. -1
  BY <1>2, <1>4
<1>6. x % n = IF k <= InitialSP THEN x ELSE x + n
  BY <1>5, Around
<1> QED BY <1>1, <1>2, <1>3, <1>4, <1>6

LEMMA UnderInAddrs ==
  ASSUME NEW k \in 0 .. Byte * Byte - 1
  PROVE  Under(k) \in Addrs
<1>1. PICK n \in Nat : n = Byte * Byte
  BY Sizes
<1>2. InitialSP \in 0 .. n - 1 /\ k \in 0 .. n - 1
  BY <1>1, LayoutAssumption DEF Addrs
<1> QED BY <1>1, <1>2, UnderIs DEF Addrs

LEMMA Apart ==
  ASSUME NEW j \in 0 .. Byte * Byte - 1, NEW k \in 0 .. Byte * Byte - 1, Under(j) = Under(k)
  PROVE  j = k
<1>1. PICK n \in Nat : n = Byte * Byte
  BY Sizes
<1>2. InitialSP \in 0 .. n - 1 /\ k \in 0 .. n - 1 /\ j \in 0 .. n - 1
  BY <1>1, LayoutAssumption DEF Addrs
<1> QED BY <1>1, <1>2, UnderIs

(* Going up or down from there.                                              *)
LEMMA UnderMoves ==
  ASSUME NEW k \in 0 .. Byte * Byte - 1, NEW d \in Int, k - d \in 0 .. Byte * Byte - 1
  PROVE  Plus(Under(k), d) = Under(k - d)
<1>1. PICK n \in Nat \ {0} : n = Byte * Byte
  BY Sizes
<1>2. InitialSP \in 0 .. n - 1 /\ k \in 0 .. n - 1 /\ k - d \in 0 .. n - 1
  BY <1>1, LayoutAssumption DEF Addrs
<1>3. Plus(Under(k), d) = (Under(k) + d) % n
  BY <1>1 DEF Plus
<1>4. Under(k) = IF k <= InitialSP THEN InitialSP - k ELSE InitialSP - k + n
  BY <1>1, UnderIs
<1>5. Under(k - d) = IF k - d <= InitialSP THEN InitialSP - (k - d) ELSE InitialSP - (k - d) + n
  BY <1>1, UnderIs
<1>6. PICK u \in 0 .. n - 1, v \in 0 .. n - 1 : u = Under(k) /\ v = Under(k - d)
  <2>1. Under(k) \in 0 .. n - 1 /\ Under(k - d) \in 0 .. n - 1
    BY <1>1, UnderInAddrs DEF Addrs
  <2> QED BY <2>1
<1>7. u + d = v \/ u + d = v + n \/ u + d = v - n
  BY <1>2, <1>4, <1>5, <1>6
<1>8. v % n = v
  BY <1>6, Around
<1>9. CASE u + d = v
  BY <1>3, <1>6, <1>8, <1>9
<1>10. CASE u + d = v - n
  <2>1. v - n \in -n .. -1
    BY <1>6
  <2>2. (v - n) % n = v - n + n
    BY <2>1, Around
  <2> QED BY <1>3, <1>6, <1>10, <2>2
<1>11. CASE u + d = v + n
  <2>1. (v + n) % n = v
    BY <1>6, SMTT(30)
  <2> QED BY <1>3, <1>6, <1>11, <2>1
<1> QED BY <1>7, <1>9, <1>10, <1>11

(* SP is a whole number of words from where it started.                      *)
Reaches(k) == k \in Nat /\ 2 * k < Byte * Byte /\ SP = Under(2 * k)
WholeWords == \E k \in Nat : Reaches(k)

LEMMA DepthIs ==
  ASSUME NEW k, Reaches(k)
  PROVE  Depth = k
<1>1. PICK n \in Nat \ {0} : n = Byte * Byte
  BY Sizes
<1>2. InitialSP \in 0 .. n - 1 /\ k \in Nat /\ 2 * k < n
  BY <1>1, LayoutAssumption DEF Addrs, Reaches
<1>3. SP = IF 2 * k <= InitialSP THEN InitialSP - 2 * k ELSE InitialSP - 2 * k + n
  BY <1>1, <1>2, UnderIs DEF Reaches
<1>4. PICK x \in Int : x = InitialSP - SP
  <2>1. SP \in 0 .. n - 1
    BY <1>1, <1>2, UnderInAddrs DEF Addrs, Reaches
  <2> QED BY <1>2, <2>1
<1>5. x = 2 * k \/ x = 2 * k - n
  BY <1>2, <1>3, <1>4
<1>6. x % n = 2 * k
  <2>1. CASE x = 2 * k
    <3>1. x \in 0 .. n - 1
      BY <1>2, <2>1
    <3> QED BY <2>1, <3>1, Around
  <2>2. CASE x = 2 * k - n
    <3>1. x \in -n .. -1 /\ x + n = 2 * k
      BY <1>2, <2>2
    <3> QED BY <3>1, Around
  <2> QED BY <1>5, <2>1, <2>2
<1>7. Depth = (2 * k) \div 2
  BY <1>1, <1>4, <1>6 DEF Depth
<1> QED BY <1>2, <1>7

DepthIsReached == \A k : Reaches(k) => Depth = k

LEMMA WhereverItIs == DepthIsReached
BY DepthIs DEF DepthIsReached

LEMMA DepthType ==
  ASSUME WholeWords
  PROVE  Depth \in Nat /\ 2 * Depth < Byte * Byte /\ SP = Under(2 * Depth) /\ Reaches(Depth)
BY DepthIs DEF WholeWords, Reaches

LEMMA StackBytesAre == StackBytes = { Under(k) : k \in 1 .. 2 * Depth }
BY DEF StackBytes, Under

(* The frames, from the bytes.                                               *)
WordAt(i) == merge8(ByteAt(Under(2 * i)), ByteAt(Under(2 * i - 1)))

LEMMA FramesAre == WholeWords => Frames = [i \in 1 .. Depth |-> WordAt(i)]
<1> SUFFICES ASSUME WholeWords PROVE Frames = [i \in 1 .. Depth |-> WordAt(i)]
  OBVIOUS
<1>1. ASSUME NEW i \in 1 .. Depth
      PROVE  merge8(ByteAt(Plus(InitialSP, -2 * i)), ByteAt(Plus(InitialSP, 1 - 2 * i))) = WordAt(i)
  <2>1. i \in Int /\ -2 * i = -(2 * i) /\ 1 - 2 * i = -(2 * i - 1)
    BY DepthType
  <2> QED BY <2>1 DEF WordAt, Under
<1> QED BY <1>1 DEF Frames

(* A byte of the stack is read as it was until it is stored to.              *)
LEMMA SameByte ==
  ASSUME NEW a \in Tracked \cup { RegIE }, a \in Tracked => ram'[a] = ram[a], a = RegIE => IE' = IE
  PROVE  ByteAt(a)' = ByteAt(a)
<1>1. a # RegIF
  BY LayoutAssumption
<1>2. ReadableAt(a)' = ReadableAt(a)
  BY <1>1 DEF ReadableAt
<1> QED BY <1>2 DEF ByteAt

Untouched(a) == (a \in Tracked => ram'[a] = ram[a]) /\ (a = RegIE => IE' = IE)

LEMMA SameWord ==
  ASSUME NEW i \in Nat, Under(2 * i) \in Tracked \cup { RegIE }, Under(2 * i - 1) \in Tracked \cup { RegIE },
         Untouched(Under(2 * i)), Untouched(Under(2 * i - 1))
  PROVE  WordAt(i)' = WordAt(i)
<1>1. ByteAt(Under(2 * i))' = ByteAt(Under(2 * i)) /\ ByteAt(Under(2 * i - 1))' = ByteAt(Under(2 * i - 1))
  BY SameByte DEF Untouched, Under
<1> QED BY <1>1 DEF WordAt, Under

(* The bytes of a frame are bytes of the stack.                              *)
LEMMA BytesOfAFrame ==
  ASSUME WholeWords, NEW i \in 1 .. Depth
  PROVE  /\ 2 * i \in 1 .. 2 * Depth /\ 2 * i - 1 \in 1 .. 2 * Depth
         /\ Under(2 * i) \in StackBytes /\ Under(2 * i - 1) \in StackBytes
<1>1. Depth \in Nat
  BY DepthType
<1>2. 2 * i \in 1 .. 2 * Depth /\ 2 * i - 1 \in 1 .. 2 * Depth
  BY <1>1
<1> QED BY <1>2, StackBytesAre

LEMMA Steady ==
  ASSUME WholeWords, KeepsToItsStack, SP' = SP, \A a \in StackBytes : Untouched(a)
  PROVE  WholeWords' /\ Frames' = Frames
<1>1. WholeWords'
  BY DEF WholeWords, Reaches, Under
<1>2. Depth' = Depth
  BY DEF Depth
<1>3. \A i \in 1 .. Depth : WordAt(i)' = WordAt(i)
  <2> SUFFICES ASSUME NEW i \in 1 .. Depth PROVE WordAt(i)' = WordAt(i)
    OBVIOUS
  <2>1. Under(2 * i) \in StackBytes /\ Under(2 * i - 1) \in StackBytes /\ i \in Nat
    BY BytesOfAFrame, DepthType
  <2> QED BY <2>1, SameWord DEF KeepsToItsStack
<1>4. Frames' = [i \in 1 .. Depth' |-> WordAt(i)']
  <2>1. (WholeWords => Frames = [i \in 1 .. Depth |-> WordAt(i)])'
    BY FramesAre, PTL
  <2> QED BY <1>1, <2>1
<1> QED BY <1>1, <1>2, <1>3, <1>4, FramesAre

(* A byte just stored on the stack is the one that is read.                  *)
LEMMA ByteIsRead ==
  ASSUME BytesAreTheirBits, NEW a \in Tracked \cup { RegIE }, NEW byte \in 0 .. Byte - 1,
         a \in Tracked => ram'[a] = byte, a = RegIE => IE' = BitsOf(byte)
  PROVE  ByteAt(a)' = byte
<1>1. a # RegIF /\ (a = RegIE => a \notin Tracked)
  BY LayoutAssumption
<1>2. ReadableAt(a)' = { byte }
  BY <1>1 DEF ReadableAt, BytesAreTheirBits
<1> QED BY <1>2 DEF ByteAt

LEMMA HalvesMerged ==
  ASSUME NEW w \in Addrs
  PROVE  merge8(lsb8(w), msb8(w)) = w
<1>1. w \in Nat /\ Byte \in Nat \ {0}
  BY Sizes DEF Addrs
<1>2. w = Byte * (w \div Byte) + (w % Byte)
  BY <1>1
<1>3. w % Byte \in Int /\ Byte * (w \div Byte) \in Int
  BY <1>1
<1> QED BY <1>2, <1>3 DEF merge8, lsb8, msb8

(* Going down by d bytes, SP is a whole number of words down if d is.         *)
LEMMA Lower ==
  ASSUME WholeWords, NEW d \in Nat, 2 * Depth + 2 * d < Byte * Byte, SP' = Plus(SP, -2 * d)
  PROVE  WholeWords' /\ Depth' = Depth + d /\ SP' = Under(2 * (Depth + d))
<1>1. PICK n \in Nat, k \in Nat : n = Byte * Byte /\ k = Depth /\ SP = Under(2 * k) /\ 2 * k < n
  BY Sizes, DepthType
<1>2. 2 * k \in 0 .. n - 1 /\ -2 * d \in Int /\ 2 * k - (-2 * d) = 2 * (k + d) /\ 2 * (k + d) \in 0 .. n - 1
  BY <1>1
<1>3. SP' = Under(2 * (k + d))
  BY <1>1, <1>2, UnderMoves
<1>4. Reaches(k + d)'
  BY <1>1, <1>2, <1>3 DEF Reaches, Under
<1>5. (Reaches(k + d) => Depth = k + d)'
  <2>1. DepthIsReached'
    BY WhereverItIs, PTL
  <2> QED BY <2>1 DEF DepthIsReached
<1> QED BY <1>1, <1>3, <1>4, <1>5 DEF WholeWords

LEMMA Higher ==
  ASSUME WholeWords, Depth > 0, SP' = Plus(SP, 2)
  PROVE  WholeWords' /\ Depth' = Depth - 1
<1>1. PICK n \in Nat, k \in Nat : n = Byte * Byte /\ k = Depth /\ SP = Under(2 * k) /\ 2 * k < n
  BY Sizes, DepthType
<1>2. 2 * k \in 0 .. n - 1 /\ 2 * k - 2 = 2 * (k - 1) /\ 2 * (k - 1) \in 0 .. n - 1 /\ k - 1 \in Nat
  BY <1>1
<1>3. SP' = Under(2 * (k - 1))
  BY <1>1, <1>2, UnderMoves
<1>4. Reaches(k - 1)'
  BY <1>1, <1>2, <1>3 DEF Reaches, Under
<1>5. (Reaches(k - 1) => Depth = k - 1)'
  <2>1. DepthIsReached'
    BY WhereverItIs, PTL
  <2> QED BY <2>1 DEF DepthIsReached
<1> QED BY <1>1, <1>2, <1>3, <1>4, <1>5 DEF WholeWords

(* What a push leaves.                                                       *)
LEMMA PushedWord ==
  ASSUME BytesAreTheirBits, NEW m \in Memories, NEW a \in Addrs, NEW w \in Addrs,
         a # Top, a \in Tracked \cup { RegIE }, a + 1 \in Tracked \cup { RegIE },
         Stored(Written16(m, a, w), a)
  PROVE  /\ merge8(ByteAt(a)', ByteAt(a + 1)') = w
         /\ \A b : b \notin { a, a + 1 } => (b \in Tracked => ram'[b] = m.ram[b]) /\ (b = RegIE => IE' = m.IE)
<1>1. PICK lo \in 0 .. Byte - 1, hi \in 0 .. Byte - 1 : lo = lsb8(w) /\ hi = msb8(w) /\ merge8(lo, hi) = w
  BY Halves, HalvesMerged
<1>2. a # a + 1 /\ a # RegIE
  BY Sizes DEF Addrs, RegIE, Top
<1>3. ram' = Written(Written(m, a, lo), a + 1, hi).ram /\ IE' = Written(Written(m, a, lo), a + 1, hi).IE
  BY <1>1 DEF Stored, MemoryBecomes, Written16
<1>4. m.ram \in [Tracked -> 0 .. Byte - 1]
  BY DEF Memories
<1>5. /\ a + 1 \in Tracked => ram'[a + 1] = hi
      /\ a + 1 = RegIE => IE' = BitsOf(hi)
      /\ a \in Tracked => ram'[a] = lo
      /\ \A b \in Tracked : b # a /\ b # a + 1 => ram'[b] = m.ram[b]
      /\ a + 1 # RegIE => IE' = m.IE
  BY <1>2, <1>3, <1>4 DEF Written
<1>6. ByteAt(a)' = lo
  BY <1>2, <1>5, ByteIsRead
<1>7. ByteAt(a + 1)' = hi
  BY <1>5, ByteIsRead
<1> QED BY <1>1, <1>5, <1>6, <1>7

(* A list of given length.                                                   *)
IsList(f, k) == f = [i \in 1 .. k |-> f[i]]

LEMMA ListIs ==
  ASSUME NEW k \in Nat, NEW f, IsList(f, k)
  PROVE  f \in Seq({ f[i] : i \in 1 .. k }) /\ Len(f) = k
<1>1. f \in [1 .. k -> { f[i] : i \in 1 .. k }]
  BY DEF IsList
<1> QED BY <1>1

LEMMA OneMore ==
  ASSUME NEW k \in Nat, NEW f, IsList(f, k),
         NEW g, IsList(g, k + 1), \A i \in 1 .. k : g[i] = f[i]
  PROVE  g = Append(f, g[k + 1])
<1>1. PICK S : S = { f[i] : i \in 1 .. k } \cup { g[k + 1] }
  OBVIOUS
<1>2. f \in [1 .. k -> S] /\ g[k + 1] \in S
  BY <1>1 DEF IsList
<1>3. f \in Seq(S) /\ Len(f) = k
  BY <1>2
<1>4. PICK h : h = Append(f, g[k + 1])
  OBVIOUS
<1>5. h \in Seq(S) /\ Len(h) = k + 1 /\ (\A i \in 1 .. k : h[i] = f[i]) /\ h[k + 1] = g[k + 1]
  BY <1>2, <1>3, <1>4, AppendProperties
<1>6. h = [i \in 1 .. k + 1 |-> h[i]]
  BY <1>5, LenProperties
<1>7. \A i \in 1 .. k + 1 : h[i] = g[i]
  <2> SUFFICES ASSUME NEW i \in 1 .. k + 1 PROVE h[i] = g[i]
    OBVIOUS
  <2>1. CASE i \in 1 .. k
    BY <1>5, <2>1
  <2>2. CASE i = k + 1
    BY <1>5, <2>2
  <2> QED BY <2>1, <2>2
<1>8. h = g
  BY <1>6, <1>7 DEF IsList
<1> QED BY <1>4, <1>8

LEMMA OneLess ==
  ASSUME NEW k \in Nat \ {0}, NEW f, IsList(f, k),
         NEW g, IsList(g, k - 1), \A i \in 1 .. k - 1 : g[i] = f[i]
  PROVE  f # << >> /\ Len(f) = k /\ g = SubSeq(f, 1, Len(f) - 1)
<1>1. Len(f) = k
  BY ListIs
<1>2. PICK S : S = { f[i] : i \in 1 .. k }
  OBVIOUS
<1>3. PICK h : h = SubSeq(f, 1, k - 1)
  OBVIOUS
<1>4. h \in Seq(S) /\ Len(h) = k - 1 /\ \A i \in 1 .. k - 1 : h[i] = f[i]
  <2>1. \A i \in 1 .. k - 1 : f[i] \in S
    BY <1>2
  <2>2. PICK n \in Nat : n = k - 1
    OBVIOUS
  <2>3. h = SubSeq(f, 1, n) /\ \A i \in 1 .. n : f[i] \in S
    BY <1>3, <2>1, <2>2
  <2>4. /\ h \in Seq(S) /\ Len(h) = IF 1 <= n THEN n - 1 + 1 ELSE 0
        /\ \A i \in 1 .. n - 1 + 1 : h[i] = f[1 + i - 1]
    <3>1. f \in [1 .. k -> S]
      BY <1>2 DEF IsList
    <3>2. n \in 0 .. k
      BY <2>2
    <3> QED BY <2>3, <3>1, <3>2, SMTT(30)
  <2>5. \A i \in 1 .. n : 1 + i - 1 = i /\ i \in 1 .. n - 1 + 1
    OBVIOUS
  <2>6. \A i \in 1 .. n : h[i] = f[i]
    BY <2>4, <2>5
  <2>7. Len(h) = n
    BY <2>4
  <2> QED BY <2>2, <2>4, <2>6, <2>7
<1>5. h = [i \in 1 .. k - 1 |-> h[i]]
  BY <1>4, LenProperties
<1>6. h = g
  BY <1>4, <1>5 DEF IsList
<1>7. f # << >>
  BY <1>1
<1> QED BY <1>1, <1>3, <1>6, <1>7

LEMMA FramesBecome == WholeWords' => Frames' = [i \in 1 .. Depth' |-> WordAt(i)']
<1>1. (WholeWords => Frames = [i \in 1 .. Depth |-> WordAt(i)])'
  BY FramesAre, PTL
<1> QED BY <1>1

(* A push adds the word it stores, and changes none of those before.         *)
LEMMA Pushes ==
  ASSUME BytesAreTheirBits, TypeOK, WholeWords, KeepsToItsStack, KeepsToItsStack',
         NEW m \in Memories, m.ram = ram, m.IE = IE, NEW w \in Addrs,
         SP' = Plus(SP, -2), Stored(Written16(m, SP', w), SP')
  PROVE  WholeWords' /\ Frames' = Append(Frames, w)
<1>1. PICK k \in Nat : k = Depth /\ 2 * k + 4 < Byte * Byte
  BY DepthType DEF KeepsToItsStack
<1>2. WholeWords' /\ Depth' = k + 1 /\ SP' = Under(2 * (k + 1))
  <2>1. 2 * Depth + 2 * 1 < Byte * Byte
    BY <1>1, Sizes
  <2>2. SP' = Plus(SP, -2 * 1)
    OBVIOUS
  <2> QED BY <1>1, <2>1, <2>2, Lower
<1>3. PICK a : a = SP'
  OBVIOUS
<1>4. a \in Addrs /\ a # Top /\ a \in Tracked \cup { RegIE }
  <2>1. 2 * (k + 1) \in 1 .. 2 * (k + 1) /\ k + 1 \in 1 .. k + 1 /\ -2 * (k + 1) = -(2 * (k + 1))
    BY <1>1
  <2>2. a \in StackBytes'
    BY <1>2, <1>3, <2>1 DEF StackBytes, Under
  <2>3. a # Top
    BY <1>2, <1>3, <2>1 DEF KeepsToItsStack, Under
  <2>4. a \in Tracked \cup { RegIE }
    BY <2>2 DEF KeepsToItsStack
  <2>5. a \in Addrs
    BY <2>4, LayoutAssumption DEF RegIE, Top, Addrs
  <2> QED BY <2>3, <2>4, <2>5
<1>5. a + 1 = Under(2 * (k + 1) - 1) /\ a + 1 \in Tracked \cup { RegIE }
  <2>1. PICK n \in Nat : n = Byte * Byte
    BY Sizes
  <2>2. 2 * (k + 1) \in 0 .. n - 1 /\ 2 * (k + 1) - 1 \in 0 .. n - 1
    BY <1>1, <2>1
  <2>3. Plus(a, 1) = Under(2 * (k + 1) - 1)
    BY <1>2, <1>3, <2>1, <2>2, UnderMoves
  <2>4. Plus(a, 1) = a + 1
    <3>1. a + 1 \in 0 .. n - 1
      BY <1>4, <2>1 DEF Addrs, Top
    <3> QED BY <2>1, <3>1, Around DEF Plus
  <2>5. 2 * (k + 1) - 1 \in 1 .. 2 * (k + 1)
    BY <1>1
  <2>6. a + 1 \in StackBytes'
    BY <1>2, <2>3, <2>4, <2>5 DEF StackBytes, Under
  <2> QED BY <2>3, <2>4, <2>6 DEF KeepsToItsStack
<1>6. /\ merge8(ByteAt(a)', ByteAt(a + 1)') = w
      /\ \A b : b \notin { a, a + 1 } => Untouched(b)
  BY <1>3, <1>4, <1>5, PushedWord DEF Untouched
<1>7. WordAt(k + 1)' = w
  BY <1>2, <1>3, <1>5, <1>6 DEF WordAt, Under
<1>8. \A i \in 1 .. k : WordAt(i)' = WordAt(i)
  <2> SUFFICES ASSUME NEW i \in 1 .. k PROVE WordAt(i)' = WordAt(i)
    OBVIOUS
  <2>1. /\ i \in Nat /\ Under(2 * i) \in StackBytes /\ Under(2 * i - 1) \in StackBytes
    BY <1>1, BytesOfAFrame
  <2>2. Under(2 * i) \notin { a, a + 1 } /\ Under(2 * i - 1) \notin { a, a + 1 }
    <3>1. PICK n \in Nat : n = Byte * Byte
      BY Sizes
    <3>2. \A x \in { 2 * i, 2 * i - 1 }, y \in { 2 * (k + 1), 2 * (k + 1) - 1 } :
            x \in 0 .. n - 1 /\ y \in 0 .. n - 1 /\ x # y
      BY <1>1, <3>1
    <3>3. \A x \in { 2 * i, 2 * i - 1 }, y \in { 2 * (k + 1), 2 * (k + 1) - 1 } : Under(x) # Under(y)
      BY <3>1, <3>2, Apart
    <3> QED BY <1>2, <1>3, <1>5, <3>3
  <2> QED BY <1>6, <2>1, <2>2, SameWord DEF KeepsToItsStack
<1>9. PICK f, g : f = Frames /\ g = Frames'
  OBVIOUS
<1>10. f = [i \in 1 .. k |-> WordAt(i)] /\ g = [i \in 1 .. k + 1 |-> WordAt(i)']
  BY <1>1, <1>2, <1>9, FramesAre, FramesBecome
<1>11. IsList(f, k) /\ IsList(g, k + 1)
  BY <1>10 DEF IsList
<1>12. \A i \in 1 .. k : g[i] = f[i]
  BY <1>1, <1>8, <1>10
<1>13. g[k + 1] = w
  BY <1>1, <1>7, <1>10
<1>14. g = Append(f, g[k + 1])
  BY <1>11, <1>12, OneMore
<1> QED BY <1>2, <1>9, <1>13, <1>14

(* A return takes the last word away, and goes where it says.                *)
LEMMA Pops ==
  ASSUME BytesAreTheirBits, TypeOK, WholeWords, KeepsToItsStack, Depth > 0,
         SP' = Plus(SP, 2), NothingStored, PC' \in Popped
  PROVE  /\ WholeWords' /\ Frames # << >> /\ PC' = Frames[Len(Frames)]
         /\ Frames' = SubSeq(Frames, 1, Len(Frames) - 1)
<1>1. PICK k \in Nat \ {0} : k = Depth /\ 2 * k < Byte * Byte
  BY DepthType
<1>2. WholeWords' /\ Depth' = k - 1
  BY <1>1, Higher
<1>3. SP = Under(2 * k) /\ k \in 1 .. Depth
  BY <1>1, DepthType
<1>4. Under(2 * k) \in StackBytes /\ Under(2 * k - 1) \in StackBytes
  BY <1>3, BytesOfAFrame
<1>5. SP # Top /\ SP \in Addrs
  <2>1. -2 * k = -(2 * k)
    BY <1>1
  <2> QED BY <1>3, <2>1 DEF KeepsToItsStack, Under, TypeOK
<1>6. SP + 1 = Under(2 * k - 1)
  <2>1. PICK n \in Nat : n = Byte * Byte
    BY Sizes
  <2>2. 2 * k \in 0 .. n - 1 /\ 2 * k - 1 \in 0 .. n - 1
    BY <1>1, <2>1
  <2>3. Plus(SP, 1) = Under(2 * k - 1)
    BY <1>3, <2>1, <2>2, UnderMoves
  <2>4. SP + 1 \in 0 .. n - 1
    BY <1>5, <2>1 DEF Addrs, Top
  <2> QED BY <2>1, <2>3, <2>4, Around DEF Plus
<1>7. ASSUME NEW a \in StackBytes, NEW byte \in ReadableAt(a)
      PROVE  ByteAt(a) = byte
  <2>1. a \in Tracked \cup { RegIE }
    BY DEF KeepsToItsStack
  <2>2. ReadableAt(a) = { byte }
    BY <2>1 DEF ReadableAt, BytesAreTheirBits
  <2> QED BY <2>2 DEF ByteAt
<1>8. PICK lo \in ReadableAt(SP), hi \in ReadableAt(SP + 1) : PC' = merge8(lo, hi)
  BY <1>5 DEF Popped, Readable16At
<1>9. PC' = WordAt(k)
  BY <1>3, <1>4, <1>6, <1>7, <1>8 DEF WordAt
<1>10. \A i \in 1 .. k - 1 : WordAt(i)' = WordAt(i)
  <2> SUFFICES ASSUME NEW i \in 1 .. k - 1 PROVE WordAt(i)' = WordAt(i)
    OBVIOUS
  <2>1. i \in 1 .. Depth /\ i \in Nat
    BY <1>1
  <2>2. Under(2 * i) \in StackBytes /\ Under(2 * i - 1) \in StackBytes
    BY <2>1, BytesOfAFrame
  <2> QED BY <2>1, <2>2, SameWord DEF KeepsToItsStack, Untouched, NothingStored
<1>11. PICK f, g : f = Frames /\ g = Frames'
  OBVIOUS
<1>12. f = [i \in 1 .. k |-> WordAt(i)] /\ g = [i \in 1 .. k - 1 |-> WordAt(i)']
  BY <1>1, <1>2, <1>11, FramesAre, FramesBecome
<1>13. IsList(f, k) /\ IsList(g, k - 1)
  BY <1>12 DEF IsList
<1>14. \A i \in 1 .. k - 1 : g[i] = f[i]
  BY <1>1, <1>10, <1>12
<1>15. f # << >> /\ Len(f) = k /\ g = SubSeq(f, 1, Len(f) - 1)
  BY <1>13, <1>14, OneLess
<1>16. f[k] = WordAt(k)
  BY <1>1, <1>12
<1> QED BY <1>2, <1>9, <1>11, <1>15, <1>16

(* Every step of such a program is one of CallStack, or none.                *)
FollowsTheStack == WholeWords' /\ [Stack!Next]_(Stack!vars)

LEMMA Entering ==
  ASSUME BytesAreTheirBits, TypeOK, WholeWords, KeepsToItsStack, KeepsToItsStack', TypeOK',
         NEW m \in Memories, m.ram = ram, m.IE = IE, NEW w \in Addrs,
         SP' = Plus(SP, -2), Stored(Written16(m, SP', w), SP'),
         \/ \E length \in 1 .. 3 : w = Plus(PC, length)
         \/ w = PC /\ PC' \in { Handler[i] : i \in Lines }
  PROVE  FollowsTheStack
<1>1. WholeWords' /\ Frames' = Append(Frames, w)
  BY Pushes
<1>2. PC' \in 0 .. Byte * Byte - 1
  BY DEF TypeOK, Addrs
<1>3. CASE \E length \in 1 .. 3 : w = Plus(PC, length)
  <2>1. PICK length \in 1 .. 3 : w = (PC + length) % (Byte * Byte)
    BY <1>3 DEF Plus
  <2>2. Stack!Call
    BY <1>1, <1>2, <2>1, Zenon DEF Stack!Call
  <2> QED BY <1>1, <2>2 DEF FollowsTheStack, Stack!Next
<1>4. CASE w = PC /\ PC' \in { Handler[i] : i \in Lines }
  <2>1. Stack!Interrupt
    BY <1>1, <1>4, Zenon DEF Stack!Interrupt
  <2> QED BY <1>1, <2>1 DEF FollowsTheStack, Stack!Next
<1> QED BY <1>3, <1>4

LEMMA Staying ==
  ASSUME TypeOK', WholeWords, KeepsToItsStack, SP' = SP, \A a \in StackBytes : Untouched(a)
  PROVE  FollowsTheStack
<1>1. WholeWords' /\ Frames' = Frames
  BY Steady
<1>2. Stack!Run
  BY <1>1 DEF Stack!Run, TypeOK, Addrs
<1> QED BY <1>1, <1>2 DEF FollowsTheStack, Stack!Next

LEMMA NothingTouched ==
  ASSUME UNCHANGED << ram, IE >>
  PROVE  \A a \in StackBytes : Untouched(a)
BY DEF Untouched

(* A call whose push fails would put a word at the top address.              *)
LEMMA NoSecondPush ==
  ASSUME TypeOK, WholeWords, KeepsToItsStack, KeepsToItsStack', Plus(SP, -2) = Top, SP' = Plus(SP, -4)
  PROVE  FALSE
<1>1. PICK n \in Nat, k \in Nat : n = Byte * Byte /\ k = Depth /\ SP = Under(2 * k) /\ 2 * k + 4 < n
  BY Sizes, DepthType DEF KeepsToItsStack
<1>2. Depth' = k + 2
  <2>1. 2 * Depth + 2 * 2 < Byte * Byte /\ SP' = Plus(SP, -2 * 2)
    BY <1>1
  <2> QED BY <1>1, <2>1, Lower
<1>3. Plus(SP, -2) = Under(2 * (k + 1))
  <2>1. 2 * k \in 0 .. n - 1 /\ 2 * k - (-2) = 2 * (k + 1) /\ 2 * (k + 1) \in 0 .. n - 1
    BY <1>1
  <2> QED BY <1>1, <2>1, UnderMoves
<1>4. k + 1 \in 1 .. Depth' /\ -2 * (k + 1) = -(2 * (k + 1))
  BY <1>1, <1>2
<1> QED BY <1>3, <1>4 DEF KeepsToItsStack, Under

LEMMA ExecuteFollows ==
  ASSUME BytesAreTheirBits, TypeOK, TypeOK', WholeWords, KeepsToItsStack, KeepsToItsStack',
         NEW lu \in Code[PC], Execute(lu)
  PROVE  FollowsTheStack
<1>1. lu \in Instructions /\ lu.arg \in Addrs /\ lu.bytes \in 1 .. 3
  BY Dispatched DEF Execute, Proceed, SetIME, Jump, Call, CallPushedTwice, Return, Unknown,
                    DataOnly, SetSP, Store, StoreSP, Push, PushWord
<1>2. Memory \in Memories /\ Memory.ram = ram /\ Memory.IE = IE /\ SP \in Addrs
  BY MemoryType DEF Memory, TypeOK
<1>3. /\ lu.family \notin { "INC_SP", "LD_SP", "PUSH", "POP" }
      /\ lu.family \in { "RET", "RET_CC", "RETI" } => Depth > 0
      /\ lu.family = "ST" => lu.arg \notin StackBytes
      /\ lu.family = "ST16" => lu.arg \notin StackBytes /\ lu.arg + 1 \notin StackBytes
  BY DEF KeepsToItsStack
<1>4. CASE Proceed(lu) \/ SetIME(lu) \/ Jump(lu) \/ Unknown(lu) \/ DataOnly(lu)
  <2>1. SP' = SP /\ UNCHANGED << ram, IE >>
    BY <1>4 DEF Proceed, SetIME, Jump, Unknown, DataOnly, NothingStored
  <2> QED BY <2>1, NothingTouched, Staying
<1>5. CASE Call(lu)
  <2>1. SP' = Plus(SP, -2) /\ Stored(Written16(Memory, SP', After(lu)), SP')
    BY <1>5 DEF Call
  <2>2. After(lu) \in Addrs /\ \E length \in 1 .. 3 : After(lu) = Plus(PC, length)
    BY <1>1, Destinations DEF After
  <2> QED BY <1>2, <2>1, <2>2, Entering
<1>6. CASE CallPushedTwice(lu)
  BY <1>6, NoSecondPush DEF CallPushedTwice
<1>7. CASE Return(lu)
  <2>1. /\ Depth > 0 /\ SP' = Plus(SP, 2) /\ NothingStored /\ PC' \in Popped
    BY <1>3, <1>7 DEF Return, Dispatch
  <2>2. /\ WholeWords' /\ Frames # << >> /\ PC' = Frames[Len(Frames)]
        /\ Frames' = SubSeq(Frames, 1, Len(Frames) - 1)
    BY <2>1, Pops
  <2>3. Stack!ComeBack
    BY <2>2, Zenon DEF Stack!ComeBack
  <2> QED BY <2>2, <2>3 DEF FollowsTheStack, Stack!Next
<1>8. CASE SetSP(lu) \/ Push(lu)
  BY <1>3, <1>8 DEF SetSP, Push, PushWord, Dispatch
<1>9. CASE Store(lu)
  <2>1. PICK byte \in 0 .. Byte - 1 : Stored(Written(Memory, lu.arg, byte), lu.arg)
    BY <1>9 DEF Store
  <2>2. SP' = SP /\ lu.arg \notin StackBytes
    BY <1>3, <1>9 DEF Store, Dispatch
  <2>3. \A a \in StackBytes : Untouched(a)
    BY <1>1, <1>2, <2>1, <2>2, WrittenFrame DEF Stored, MemoryBecomes, Untouched
  <2> QED BY <2>2, <2>3, Staying
<1>10. CASE StoreSP(lu)
  <2>1. Stored(Written16(Memory, lu.arg, SP), lu.arg)
    BY <1>10 DEF StoreSP
  <2>2. SP' = SP /\ lu.arg \notin StackBytes /\ lu.arg + 1 \notin StackBytes
    BY <1>3, <1>10 DEF StoreSP, Dispatch
  <2>3. \A a \in StackBytes : Untouched(a)
    BY <1>1, <1>2, <2>1, <2>2, Written16Frame DEF Stored, MemoryBecomes, Untouched
  <2> QED BY <2>2, <2>3, Staying
<1> QED BY <1>4, <1>5, <1>6, <1>7, <1>8, <1>9, <1>10 DEF Execute

LEMMA NextFollows ==
  ASSUME BytesAreTheirBits, TypeOK, TypeOK', WholeWords, KeepsToItsStack, KeepsToItsStack', [Next]_vars
  PROVE  FollowsTheStack
<1>1. CASE Wait \/ Sleep \/ InterruptWithoutIndex \/ UNCHANGED vars
            \/ \E i \in Lines : cpu_request_interrupt(i)
  <2>1. SP' = SP /\ UNCHANGED << ram, IE >>
    BY <1>1 DEF Wait, Sleep, InterruptWithoutIndex, NothingStored, vars, cpu_request_interrupt
  <2> QED BY <2>1, NothingTouched, Staying
<1>2. CASE Interrupt
  <2>1. PICK i, m : i = find_interrupt_index /\ m = [Memory EXCEPT !.flags = FlagsWithout(i)]
    OBVIOUS
  <2>2. i \in Lines /\ m \in Memories
    BY <1>2, <2>1, Interrupted
  <2>3. m.ram = ram /\ m.IE = IE
    BY <2>1 DEF Memory
  <2>4. SP' = Plus(SP, -2) /\ Stored(Written16(m, SP', PC), SP') /\ PC' = Handler[i]
    BY <1>2, <2>1 DEF Interrupt
  <2>5. PC \in Addrs /\ PC' \in { Handler[j] : j \in Lines }
    BY <2>2, <2>4 DEF TypeOK
  <2> QED BY <2>2, <2>3, <2>4, <2>5, Entering
<1>3. CASE \E lu \in Code[PC] : Execute(lu)
  BY <1>3, ExecuteFollows
<1> QED BY <1>1, <1>2, <1>3 DEF Next, cpu_cycle

LEMMA StartsEmpty == Init => WholeWords /\ Stack!Init
<1> SUFFICES ASSUME Init PROVE WholeWords /\ Stack!Init
  OBVIOUS
<1>1. PICK n \in Nat \ {0} : n = Byte * Byte
  BY Sizes
<1>2. SP = Under(0) /\ 2 * 0 < n
  <2>1. InitialSP \in 0 .. n - 1 /\ 0 \in 0 .. n - 1
    BY <1>1, LayoutAssumption DEF Addrs
  <2> QED BY <1>1, <2>1, UnderIs DEF Init
<1>3. Reaches(0)
  BY <1>1, <1>2 DEF Reaches
<1>4. WholeWords /\ Depth = 0
  BY <1>3, DepthIs DEF WholeWords
<1>5. Frames = << >>
  BY <1>4, FramesAre
<1> QED BY <1>4, <1>5 DEF Init, Stack!Init

(* A program that keeps to its stack comes back where it left, from every    *)
(* call and every interrupt, however deep they nest and wherever the stack   *)
(* lies: at the end of memory, where cpu_init puts it and REG_IE is its      *)
(* first byte, as well                                                       *)
THEOREM ComesBack ==
  ASSUME BytesAreTheirBits
  PROVE  Spec /\ []KeepsToItsStack => ComesBackWhereItLeft
<1>1. Init => WholeWords /\ Stack!Init
  BY StartsEmpty
<1>2. TypeOK /\ TypeOK' /\ WholeWords /\ KeepsToItsStack /\ KeepsToItsStack' /\ [Next]_vars
        => WholeWords' /\ [Stack!Next]_(Stack!vars)
  BY NextFollows DEF FollowsTheStack
<1> QED BY <1>1, <1>2, TypeCorrect, PTL DEF Spec, ComesBackWhereItLeft, Stack!Spec
=============================================================================
