-------------------------------- MODULE ALU --------------------------------
(***************************************************************************)
(* The bit operations of bit.c and the arithmetic of alu.c, as operators   *)
(* on bytes (0 .. 255) and 16-bit words.  A pointer that is modified in C  *)
(* is an argument whose new value the operator returns.                    *)
(*                                                                         *)
(* Definitions marked "fault" are plausible mistakes in the definition     *)
(* below them; nothing uses them but the check that each property can be   *)
(* broken.                                                                 *)
(***************************************************************************)
EXTENDS Integers

Byte == 0 .. 255                         \* uint8_t
Word == 0 .. 65535                       \* uint16_t
Bit  == 0 .. 1                           \* bit_t

-----------------------------------------------------------------------------
(* bit.c.  The argument of lsb4 and msb4 is converted to a byte, that of    *)
(* lsb8 and msb8 to a word.                                                 *)
lsb4(v) == v % 16
msb4(v) == (v % 256) \div 16
lsb8(v) == v % 256
msb8(v) == (v % 65536) \div 256
merge4(lo, hi) == 16 * (hi % 16) + (lo % 16)
merge8(lo, hi) == 256 * (hi % 256) + (lo % 256)

CLAMP07(i) == IF i \in 0 .. 7 THEN i ELSE 0
Power2 == [i \in 0 .. 8 |-> 2 ^ i]       \* 1 << i

bit_get(v, i)   == (v \div Power2[CLAMP07(i)]) % 2
bit_set(v, i)   == IF bit_get(v, i) = 1 THEN v ELSE v + Power2[CLAMP07(i)]
bit_unset(v, i) == IF bit_get(v, i) = 0 THEN v ELSE v - Power2[CLAMP07(i)]
bit_edit(v, i, b) == IF b = 0 THEN bit_unset(v, i) ELSE bit_set(v, i)

(* rot_dir_t; any other direction leaves the value as it is                 *)
LEFT  == 0
RIGHT == 1

bit_rotate(v, dir, d) ==
  LET index == CLAMP07(d)
  IN  CASE dir = LEFT  -> ((v * Power2[index]) % 256) + (v \div Power2[8 - index])
        [] dir = RIGHT -> ((v * Power2[8 - index]) % 256) + (v \div Power2[index])
        [] OTHER       -> v

-----------------------------------------------------------------------------
(* flag_bit_t, and flags_t as the byte it is                                *)
FLAG_Z == 128
FLAG_N == 64
FLAG_H == 32
FLAG_C == 16

get_flag(flags, flag) == IF (flags \div flag) % 2 = 1 THEN flag ELSE 0
set_flag(flags, flag) == IF get_flag(flags, flag) = 0 THEN flags + flag ELSE flags

(* set_flags_value on a result whose flags have just been cleared           *)
set_flags_value(zero, setH, setC) ==
  (IF zero = 0 THEN FLAG_Z ELSE 0) + (IF setH # 0 THEN FLAG_H ELSE 0)
    + (IF setC # 0 THEN FLAG_C ELSE 0)

(* alu_output_t, as alu_add8 and the others leave it                        *)
Output(value, flags) == [value |-> value, flags |-> flags]

alu_add8(x, y, c0) ==
  LET v1 == lsb4(x) + lsb4(y) + c0
      v2 == msb4(x) + msb4(y) + msb4(v1)
      res == merge4(v1, v2)
  IN  Output(res, set_flags_value(res, msb4(v1), msb4(v2)))

(* The differences of nibbles are computed in a byte: a borrow leaves bit 5  *)
(* raised.                                                                   *)
alu_sub8(x, y, b0) ==
  LET v1 == (lsb4(x) - lsb4(y) - b0) % 256
      v2 == (msb4(x) - msb4(y) - bit_get(v1, 5)) % 256
      res == merge4(v1, v2)
  IN  Output(res, FLAG_N + set_flags_value(res, bit_get(v1, 5), bit_get(v2, 5)))

(* H and C from the low byte                                                 *)
alu_add16_low(x, y) ==
  LET v1 == lsb8(x) + lsb8(y)
      v2 == msb8(x) + msb8(y) + msb8(v1)
      v1_low == lsb4(x) + lsb4(y)
      v2_low == msb4(x) + msb4(y) + msb4(v1_low)
      res == merge8(v1, v2)
  IN  Output(res, set_flags_value(res, msb4(v1_low), msb4(v2_low)))

(* H and C from the high byte: two additions of bytes, the carry handed on   *)
alu_add16_high_in_halves(x, y) ==                                    \* fault
  LET low  == alu_add8(lsb8(x), lsb8(y), 0)
      high == alu_add8(msb8(x), msb8(y), 0)
      res  == merge8(low.value, high.value)
  IN  Output(res, set_flags_value(res, get_flag(high.flags, FLAG_H),
                                       get_flag(high.flags, FLAG_C)))
alu_add16_high(x, y) ==
  LET low  == alu_add8(lsb8(x), lsb8(y), 0)
      high == alu_add8(msb8(x), msb8(y), get_flag(low.flags, FLAG_C) \div 16)
      res  == merge8(low.value, high.value)
  IN  Output(res, set_flags_value(res, get_flag(high.flags, FLAG_H),
                                       get_flag(high.flags, FLAG_C)))

(* The bit that leaves a byte shifted or rotated by one, and the place that  *)
(* becomes free.  The direction is always one of the two: ERR_BAD_PARAMETER   *)
(* cannot come from extract_rot_dir.                                         *)
BitOut(x, dir) == bit_get(x, IF dir = LEFT THEN 7 ELSE 0)
BitIn(dir)     == IF dir = LEFT THEN 0 ELSE 7

alu_shift(x, dir) ==
  LET res == bit_unset(bit_rotate(x, dir, 1), BitIn(dir))
  IN  Output(res, set_flags_value(res, 0, BitOut(x, dir)))

alu_shiftR_A(x) ==
  LET rotated == bit_rotate(x, RIGHT, 1)
      res == IF bit_get(x, 7) = 1 THEN bit_set(rotated, 7) ELSE rotated
  IN  Output(res, set_flags_value(res, 0, bit_get(x, 0)))

(* Z is that of the operand, which is zero exactly when the result is        *)
alu_rotate(x, dir) ==
  Output(bit_rotate(x, dir, 1), set_flags_value(x, 0, BitOut(x, dir)))

alu_carry_rotate(x, dir, flags) ==
  LET res == bit_edit(bit_rotate(x, dir, 1), BitIn(dir), get_flag(flags, FLAG_C))
  IN  Output(res, set_flags_value(res, 0, BitOut(x, dir)))

-----------------------------------------------------------------------------
(***************************************************************************)
(* What the operations amount to, in the arithmetic of numbers: the value, *)
(* and the flags Z, N, H and C.                                            *)
(***************************************************************************)
Flags(z, n, h, c) ==
  (IF z THEN FLAG_Z ELSE 0) + (IF n THEN FLAG_N ELSE 0)
    + (IF h THEN FLAG_H ELSE 0) + (IF c THEN FLAG_C ELSE 0)

SumIsExact(x, y, c0) ==
  alu_add8(x, y, c0) =
    LET v == (x + y + c0) % 256
    IN  Output(v, Flags(v = 0, FALSE, (x % 16) + (y % 16) + c0 > 15, x + y + c0 > 255))

DifferenceIsExact(x, y, b0) ==
  alu_sub8(x, y, b0) =
    LET v == (x - y - b0) % 256
    IN  Output(v, Flags(v = 0, TRUE, (x % 16) - (y % 16) - b0 < 0, x - y - b0 < 0))

WideSumIsExact(x, y) ==
  alu_add16_high(x, y) =
    LET v == (x + y) % 65536
    IN  Output(v, Flags(v = 0, FALSE, (x % 4096) + (y % 4096) > 4095, x + y > 65535))

(* A rotation through the carry is one of nine bits                          *)
CarryRotationIsExact(x, c) ==
  LET left  == (2 * x) + c
      right == x + (256 * c)
      flags == IF c = 1 THEN FLAG_C ELSE 0
  IN  /\ alu_carry_rotate(x, LEFT, flags) =
           Output(left % 256, Flags(left % 256 = 0, FALSE, FALSE, left > 255))
      /\ alu_carry_rotate(x, RIGHT, flags) =
           Output(right \div 2, Flags(right \div 2 = 0, FALSE, FALSE, x % 2 = 1))

ShiftIsExact(x) ==
  /\ alu_shift(x, LEFT) = Output((2 * x) % 256, Flags((2 * x) % 256 = 0, FALSE, FALSE, x > 127))
  /\ alu_shift(x, RIGHT) = Output(x \div 2, Flags(x \div 2 = 0, FALSE, FALSE, x % 2 = 1))
=============================================================================
