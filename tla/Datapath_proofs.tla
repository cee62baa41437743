-------------------------- MODULE Datapath_proofs --------------------------
(***************************************************************************)
(* The laws of alu.c for every byte and every word, and, for every program *)
(* in memory and every CPU, the types of cpu_t, what a push and a pop of a *)
(* pair give back, and that each cycle is a step CPU allows.               *)
(***************************************************************************)
EXTENDS MCDatapath, TLAPS

-----------------------------------------------------------------------------
(* Numbers.  The bounds of a word are hidden in a variable: the provers     *)
(* unroll a range that long.                                                *)
LEMMA InRange ==
  ASSUME NEW n \in Nat
  PROVE  \A x : x \in 0 .. n <=> x \in Int /\ 0 <= x /\ x <= n
  BY SMT

LEMMA InWord == \A x : x \in Word <=> x \in Int /\ 0 <= x /\ x <= 65535
<1> DEFINE n == 65535
<1>1. n \in Nat
  BY SMT
<1>2. Word = 0 .. n
  BY SMT DEF Word
<1> HIDE DEF n
<1>3. \A x : x \in Word <=> x \in Int /\ 0 <= x /\ x <= n
  BY <1>1, <1>2, InRange
<1> QED BY <1>3, SMT DEF n

NibblesAre(x, lo, hi) == x = 16 * hi + lo /\ lo = lsb4(x) /\ hi = msb4(x) /\ lo = x % 16

LEMMA NibblesOf ==
  ASSUME NEW x \in 0 .. 255
  PROVE  \E lo \in 0 .. 15, hi \in 0 .. 15 : NibblesAre(x, lo, hi)
<1>1. /\ lsb4(x) \in 0 .. 15 /\ msb4(x) \in 0 .. 15
      /\ x = 16 * msb4(x) + lsb4(x) /\ lsb4(x) = x % 16
  BY SMT DEF lsb4, msb4
<1>2. NibblesAre(x, lsb4(x), msb4(x))
  BY <1>1 DEF NibblesAre
<1> QED BY <1>1, <1>2

BytesAre(x, lo, hi) == x = 256 * hi + lo /\ lo = lsb8(x) /\ hi = msb8(x)

LEMMA BytesOf ==
  ASSUME NEW x \in Word
  PROVE  \E lo \in 0 .. 255, hi \in 0 .. 255 : BytesAre(x, lo, hi)
<1>1. x \in Int /\ 0 <= x /\ x <= 65535
  BY InWord
<1>2. lsb8(x) \in 0 .. 255 /\ msb8(x) \in 0 .. 255 /\ x = 256 * msb8(x) + lsb8(x)
  BY <1>1, SMT DEF lsb8, msb8
<1>3. BytesAre(x, lsb8(x), msb8(x))
  BY <1>2 DEF BytesAre
<1> QED BY <1>2, <1>3

LEMMA NibblesAdded ==
  ASSUME NEW a \in 0 .. 15, NEW b \in 0 .. 15, NEW k \in 0 .. 1
  PROVE  /\ msb4(a + b + k) = IF a + b + k > 15 THEN 1 ELSE 0
         /\ (a + b + k) % 16 = IF a + b + k > 15 THEN a + b + k - 16 ELSE a + b + k
  BY SMT DEF msb4

LEMMA WordsAdded ==
  ASSUME NEW a \in Word, NEW b \in Word
  PROVE  (a + b) % 65536 = IF a + b > 65535 THEN a + b - 65536 ELSE a + b
<1>1. a \in Int /\ 0 <= a /\ a <= 65535 /\ b \in Int /\ 0 <= b /\ b <= 65535
  BY InWord
<1> QED BY <1>1, SMT

LEMMA Parity ==
  ASSUME NEW q \in Nat, NEW b \in 0 .. 1
  PROVE  (2 * q + b) % 2 = b
  BY SMT

-----------------------------------------------------------------------------
(* Each flag of a flags_t built of four is read back.                       *)
LEMMA FlagBits ==
  ASSUME NEW z \in 0 .. 1, NEW n \in 0 .. 1, NEW h \in 0 .. 1, NEW c \in 0 .. 1
  PROVE  /\ get_flag(128 * z + 64 * n + 32 * h + 16 * c, FLAG_Z) = 128 * z
         /\ get_flag(128 * z + 64 * n + 32 * h + 16 * c, FLAG_N) = 64 * n
         /\ get_flag(128 * z + 64 * n + 32 * h + 16 * c, FLAG_H) = 32 * h
         /\ get_flag(128 * z + 64 * n + 32 * h + 16 * c, FLAG_C) = 16 * c
<1>1. PICK f \in 0 .. 255 : f = 128 * z + 64 * n + 32 * h + 16 * c
  BY SMT
<1>2. f \div 128 = z /\ z % 2 = z
  BY <1>1, SMT
<1>3. f \div 64 = 2 * z + n /\ (2 * z + n) % 2 = n
  BY <1>1, SMT
<1>4. f \div 32 = 2 * (2 * z + n) + h /\ (2 * (2 * z + n) + h) % 2 = h
  BY <1>1, Parity, SMT
<1>5. f \div 16 = 2 * (2 * (2 * z + n) + h) + c /\ (2 * (2 * (2 * z + n) + h) + c) % 2 = c
  BY <1>1, Parity, SMT
<1>6. get_flag(f, 128) = 128 * z /\ get_flag(f, 64) = 64 * n
  BY <1>2, <1>3, SMT DEF get_flag
<1>7. get_flag(f, 32) = 32 * h /\ get_flag(f, 16) = 16 * c
  BY <1>4, <1>5, SMT DEF get_flag
<1> QED BY <1>1, <1>6, <1>7 DEF FLAG_Z, FLAG_N, FLAG_H, FLAG_C

-----------------------------------------------------------------------------
(* The sum of two bytes, nibble by nibble, as alu_add8 forms it.            *)
ByNibbles(xl, xh, yl, yh, c) ==
  /\ msb4(xl + yl + c) = IF xl + yl + c > 15 THEN 1 ELSE 0
  /\ msb4(xh + yh + msb4(xl + yl + c)) = IF 16 * xh + xl + (16 * yh + yl) + c > 255 THEN 1 ELSE 0
  /\ merge4(xl + yl + c, xh + yh + msb4(xl + yl + c)) = (16 * xh + xl + (16 * yh + yl) + c) % 256

LEMMA SumByNibbles ==
  ASSUME NEW xl \in 0 .. 15, NEW xh \in 0 .. 15, NEW yl \in 0 .. 15, NEW yh \in 0 .. 15,
         NEW c \in 0 .. 1
  PROVE  ByNibbles(xl, xh, yl, yh, c)
<1>1. PICK k \in 0 .. 1 : k = IF xl + yl + c > 15 THEN 1 ELSE 0
  OBVIOUS
<1>2. msb4(xl + yl + c) = k /\ (xl + yl + c) % 16 = xl + yl + c - 16 * k
  BY <1>1, NibblesAdded
<1>3. PICK h \in 0 .. 1 : h = IF xh + yh + k > 15 THEN 1 ELSE 0
  OBVIOUS
<1>4. msb4(xh + yh + k) = h /\ (xh + yh + k) % 16 = xh + yh + k - 16 * h
  BY <1>3, NibblesAdded
<1>5. 16 * xh + xl + (16 * yh + yl) + c > 255 <=> h = 1
  BY <1>1, <1>3
<1>6. (16 * xh + xl + (16 * yh + yl) + c) % 256 = 16 * xh + xl + (16 * yh + yl) + c - 256 * h
  BY <1>5, SMT
<1>7. merge4(xl + yl + c, xh + yh + k) = 16 * (xh + yh + k - 16 * h) + (xl + yl + c - 16 * k)
  BY <1>2, <1>4 DEF merge4
<1>8. merge4(xl + yl + c, xh + yh + k) = (16 * xh + xl + (16 * yh + yl) + c) % 256
  BY <1>6, <1>7
<1>9. h = IF 16 * xh + xl + (16 * yh + yl) + c > 255 THEN 1 ELSE 0
  BY <1>5
<1> QED BY <1>1, <1>2, <1>4, <1>8, <1>9 DEF ByNibbles

(* The flags of set_flags_value as bits.                                    *)
LEMMA FlagsSet ==
  ASSUME NEW zero \in Int, NEW setH \in Int, NEW setC \in Int,
         NEW z \in 0 .. 1, NEW h \in 0 .. 1, NEW c \in 0 .. 1,
         zero = 0 <=> z = 1, setH # 0 <=> h = 1, setC # 0 <=> c = 1
  PROVE  set_flags_value(zero, setH, setC) = 128 * z + 64 * 0 + 32 * h + 16 * c
  BY DEF set_flags_value, FLAG_Z, FLAG_H, FLAG_C

SumBits(x, y, c0, z, h, c) ==
  /\ (x + y + c0) % 256 = 0 <=> z = 1
  /\ (x % 16) + (y % 16) + c0 > 15 <=> h = 1
  /\ x + y + c0 > 255 <=> c = 1
  /\ alu_add8(x, y, c0) = Output((x + y + c0) % 256, 128 * z + 64 * 0 + 32 * h + 16 * c)

LEMMA SumInBits ==
  ASSUME NEW x \in Byte, NEW y \in Byte, NEW c0 \in Bit
  PROVE  \E z \in 0 .. 1, h \in 0 .. 1, c \in 0 .. 1 : SumBits(x, y, c0, z, h, c)
<1>1. PICK xl \in 0 .. 15, xh \in 0 .. 15 : NibblesAre(x, xl, xh)
  BY NibblesOf DEF Byte
<1>2. PICK yl \in 0 .. 15, yh \in 0 .. 15 : NibblesAre(y, yl, yh)
  BY NibblesOf DEF Byte
<1>3. c0 \in 0 .. 1
  BY DEF Bit
<1>4. PICK s \in Nat : s = x + y + c0 /\ s = 16 * xh + xl + (16 * yh + yl) + c0
  <2>1. 16 * xh + xl + (16 * yh + yl) + c0 \in Nat
    BY <1>3
  <2> QED BY <1>1, <1>2, <2>1 DEF NibblesAre
<1>5. /\ msb4(xl + yl + c0) = IF xl + yl + c0 > 15 THEN 1 ELSE 0
      /\ msb4(xh + yh + msb4(xl + yl + c0)) = IF s > 255 THEN 1 ELSE 0
      /\ merge4(xl + yl + c0, xh + yh + msb4(xl + yl + c0)) = s % 256
  <2>1. ByNibbles(xl, xh, yl, yh, c0)
    BY <1>3, SumByNibbles
  <2> QED BY <1>4, <2>1 DEF ByNibbles
<1>6. PICK k, h2 : k = msb4(xl + yl + c0) /\ h2 = msb4(xh + yh + k)
  OBVIOUS
<1>7. alu_add8(x, y, c0) = Output(s % 256, set_flags_value(s % 256, k, h2))
  <2>1. lsb4(x) = xl /\ msb4(x) = xh /\ lsb4(y) = yl /\ msb4(y) = yh
    BY <1>1, <1>2 DEF NibblesAre
  <2>2. PICK v1, v2 : v1 = xl + yl + c0 /\ v2 = xh + yh + k
    OBVIOUS
  <2>3. merge4(v1, v2) = s % 256 /\ msb4(v1) = k /\ msb4(v2) = h2
    BY <1>5, <1>6, <2>2
  <2>4. v1 = lsb4(x) + lsb4(y) + c0 /\ v2 = msb4(x) + msb4(y) + msb4(v1)
    BY <2>1, <2>2, <2>3
  <2> QED BY <2>3, <2>4, ZenonT(30) DEF alu_add8
<1>8. s \in Int /\ s % 256 \in Int
  BY <1>4, SMT
<1>9. PICK z \in 0 .. 1, h \in 0 .. 1, c \in 0 .. 1 :
        /\ s % 256 = 0 <=> z = 1
        /\ xl + yl + c0 > 15 <=> h = 1
        /\ s > 255 <=> c = 1
  OBVIOUS
<1>10. set_flags_value(s % 256, k, h2) = 128 * z + 64 * 0 + 32 * h + 16 * c
  <2>1. k \in Int /\ h2 \in Int /\ (k # 0 <=> h = 1) /\ (h2 # 0 <=> c = 1)
    BY <1>5, <1>6, <1>9
  <2> QED BY <1>8, <1>9, <2>1, FlagsSet
<1>11. SumBits(x, y, c0, z, h, c)
  <2>1. (x % 16) + (y % 16) + c0 > 15 <=> h = 1
    BY <1>1, <1>2, <1>9 DEF NibblesAre
  <2> QED BY <1>4, <1>7, <1>9, <1>10, <2>1 DEF SumBits
<1> QED BY <1>11

LEMMA SumsAreExact ==
  ASSUME NEW x \in Byte, NEW y \in Byte, NEW c0 \in Bit
  PROVE  SumIsExact(x, y, c0)
<1>1. PICK z \in 0 .. 1, h \in 0 .. 1, c \in 0 .. 1 : SumBits(x, y, c0, z, h, c)
  BY SumInBits
<1>2. 128 * z + 64 * 0 + 32 * h + 16 * c
        = Flags((x + y + c0) % 256 = 0, FALSE, (x % 16) + (y % 16) + c0 > 15, x + y + c0 > 255)
  BY <1>1 DEF SumBits, Flags, FLAG_Z, FLAG_N, FLAG_H, FLAG_C
<1>3. alu_add8(x, y, c0)
        = Output((x + y + c0) % 256,
                 Flags((x + y + c0) % 256 = 0, FALSE, (x % 16) + (y % 16) + c0 > 15, x + y + c0 > 255))
  <2>1. alu_add8(x, y, c0) = Output((x + y + c0) % 256, 128 * z + 64 * 0 + 32 * h + 16 * c)
    BY <1>1 DEF SumBits
  <2> QED BY <1>2, <2>1, Zenon
<1> QED BY <1>3, Zenon DEF SumIsExact

(* What the sum of two words takes from the sums of its bytes.              *)
LEMMA SumParts ==
  ASSUME NEW x \in Byte, NEW y \in Byte, NEW c0 \in Bit, NEW out, out = alu_add8(x, y, c0)
  PROVE  \E h \in 0 .. 1, c \in 0 .. 1 :
           /\ out.value = (x + y + c0) % 256
           /\ get_flag(out.flags, FLAG_H) = 32 * h /\ get_flag(out.flags, FLAG_C) = 16 * c
           /\ (x % 16) + (y % 16) + c0 > 15 <=> h = 1
           /\ x + y + c0 > 255 <=> c = 1
<1>1. PICK z \in 0 .. 1, h \in 0 .. 1, c \in 0 .. 1 : SumBits(x, y, c0, z, h, c)
  BY SumInBits
<1>2. PICK v, f : v = (x + y + c0) % 256 /\ f = 128 * z + 64 * 0 + 32 * h + 16 * c
  OBVIOUS
<1>3. out.value = v /\ out.flags = f
  BY <1>1, <1>2 DEF SumBits, Output
<1>4. get_flag(f, FLAG_H) = 32 * h /\ get_flag(f, FLAG_C) = 16 * c
  BY <1>2, FlagBits
<1> QED BY <1>1, <1>2, <1>3, <1>4 DEF SumBits

-----------------------------------------------------------------------------
(* A difference of nibbles, computed in a byte, borrows when its bit 5 is    *)
(* raised.                                                                  *)
Borrows(a, b, k) ==
  /\ bit_get((a - b - k) % 256, 5) = IF a - b - k < 0 THEN 1 ELSE 0
  /\ ((a - b - k) % 256) % 16 = IF a - b - k < 0 THEN a - b - k + 16 ELSE a - b - k

LEMMA NibblesSubtracted ==
  ASSUME NEW a \in 0 .. 15, NEW b \in 0 .. 15, NEW k \in 0 .. 1
  PROVE  Borrows(a, b, k)
<1>1. CLAMP07(5) = 5 /\ Power2[5] = 32
  BY SMT DEF CLAMP07, Power2
<1>2. PICK d \in Int : d = a - b - k /\ -16 <= d /\ d <= 15
  OBVIOUS
<1>3. d % 256 = IF d < 0 THEN d + 256 ELSE d
  BY <1>2, SMT
<1>4. ((d % 256) \div 32) % 2 = IF d < 0 THEN 1 ELSE 0
  BY <1>2, <1>3, SMT
<1>5. (d % 256) % 16 = IF d < 0 THEN d + 16 ELSE d
  BY <1>2, <1>3, SMT
<1>6. bit_get(d % 256, 5) = ((d % 256) \div 32) % 2
  BY <1>1 DEF bit_get
<1> QED BY <1>2, <1>4, <1>5, <1>6 DEF Borrows

ByBorrows(xl, xh, yl, yh, b0, k, h) ==
  /\ bit_get((xl - yl - b0) % 256, 5) = k /\ bit_get((xh - yh - k) % 256, 5) = h
  /\ xl - yl - b0 < 0 <=> k = 1
  /\ (16 * xh + xl) - (16 * yh + yl) - b0 < 0 <=> h = 1
  /\ merge4((xl - yl - b0) % 256, (xh - yh - k) % 256) = ((16 * xh + xl) - (16 * yh + yl) - b0) % 256

LEMMA DifferenceByNibbles ==
  ASSUME NEW xl \in 0 .. 15, NEW xh \in 0 .. 15, NEW yl \in 0 .. 15, NEW yh \in 0 .. 15,
         NEW b0 \in 0 .. 1
  PROVE  \E k \in 0 .. 1, h \in 0 .. 1 : ByBorrows(xl, xh, yl, yh, b0, k, h)
<1>1. PICK k \in 0 .. 1 : k = IF xl - yl - b0 < 0 THEN 1 ELSE 0
  OBVIOUS
<1>2. PICK h \in 0 .. 1 : h = IF xh - yh - k < 0 THEN 1 ELSE 0
  OBVIOUS
<1>3. bit_get((xl - yl - b0) % 256, 5) = k /\ ((xl - yl - b0) % 256) % 16 = xl - yl - b0 + 16 * k
  <2>1. Borrows(xl, yl, b0)
    BY NibblesSubtracted
  <2> QED BY <1>1, <2>1 DEF Borrows
<1>4. bit_get((xh - yh - k) % 256, 5) = h /\ ((xh - yh - k) % 256) % 16 = xh - yh - k + 16 * h
  <2>1. Borrows(xh, yh, k)
    BY NibblesSubtracted
  <2> QED BY <1>2, <2>1 DEF Borrows
<1>5. PICK d \in Int : d = (16 * xh + xl) - (16 * yh + yl) - b0
  OBVIOUS
<1>6. d < 0 <=> h = 1
  BY <1>1, <1>2, <1>5
<1>7. -256 <= d /\ d <= 255 /\ d % 256 = d + 256 * h
  <2>1. -256 <= d /\ d <= 255
    BY <1>5
  <2> QED BY <1>6, <2>1, SMT
<1>8. merge4((xl - yl - b0) % 256, (xh - yh - k) % 256)
        = 16 * (xh - yh - k + 16 * h) + (xl - yl - b0 + 16 * k)
  BY <1>3, <1>4 DEF merge4
<1>9. merge4((xl - yl - b0) % 256, (xh - yh - k) % 256) = d % 256
  BY <1>5, <1>7, <1>8
<1>10. ByBorrows(xl, xh, yl, yh, b0, k, h)
  BY <1>1, <1>3, <1>4, <1>5, <1>6, <1>9 DEF ByBorrows
<1> QED BY <1>10

LEMMA DifferencesAreExact ==
  ASSUME NEW x \in Byte, NEW y \in Byte, NEW b0 \in Bit
  PROVE  DifferenceIsExact(x, y, b0)
<1>1. PICK xl \in 0 .. 15, xh \in 0 .. 15 : NibblesAre(x, xl, xh)
  BY NibblesOf DEF Byte
<1>2. PICK yl \in 0 .. 15, yh \in 0 .. 15 : NibblesAre(y, yl, yh)
  BY NibblesOf DEF Byte
<1>3. b0 \in 0 .. 1
  BY DEF Bit
<1>4. PICK k \in 0 .. 1, h \in 0 .. 1 : ByBorrows(xl, xh, yl, yh, b0, k, h)
  BY <1>3, DifferenceByNibbles
<1>5. x - y - b0 = (16 * xh + xl) - (16 * yh + yl) - b0
  BY <1>1, <1>2 DEF NibblesAre
<1>6. PICK d \in Int : d = x - y - b0
  <2>1. (16 * xh + xl) - (16 * yh + yl) - b0 \in Int
    BY <1>3
  <2> QED BY <1>5, <2>1
<1>7. PICK res : res = d % 256
  OBVIOUS
<1>8. alu_sub8(x, y, b0) = Output(res, FLAG_N + set_flags_value(res, k, h))
  <2>1. PICK v1, v2 : v1 = (xl - yl - b0) % 256 /\ v2 = (xh - yh - k) % 256
    OBVIOUS
  <2>2. bit_get(v1, 5) = k /\ bit_get(v2, 5) = h /\ merge4(v1, v2) = res
    BY <1>4, <1>5, <1>6, <1>7, <2>1 DEF ByBorrows
  <2>3. v1 = (lsb4(x) - lsb4(y) - b0) % 256 /\ v2 = (msb4(x) - msb4(y) - k) % 256
    BY <1>1, <1>2, <2>1, Zenon DEF NibblesAre
  <2> QED BY <2>2, <2>3 DEF alu_sub8
<1>9. (x % 16) - (y % 16) - b0 < 0 <=> k = 1
  <2>1. xl - yl - b0 < 0 <=> k = 1
    BY <1>4 DEF ByBorrows
  <2> QED BY <1>1, <1>2, <2>1 DEF NibblesAre
<1>10. d < 0 <=> h = 1
  BY <1>4, <1>5, <1>6 DEF ByBorrows
<1>11. FLAG_N + set_flags_value(res, k, h)
         = Flags(res = 0, TRUE, (x % 16) - (y % 16) - b0 < 0, d < 0)
  BY <1>9, <1>10 DEF set_flags_value, Flags, FLAG_Z, FLAG_N, FLAG_H, FLAG_C
<1>12. alu_sub8(x, y, b0)
         = Output((x - y - b0) % 256,
                  Flags((x - y - b0) % 256 = 0, TRUE,
                        (x % 16) - (y % 16) - b0 < 0, x - y - b0 < 0))
  <2>1. d = x - y - b0
    BY <1>6
  <2>2. alu_sub8(x, y, b0)
          = Output(res, Flags(res = 0, TRUE, (x % 16) - (y % 16) - b0 < 0, d < 0))
    BY <1>8, <1>11
  <2> QED BY <1>7, <2>1, <2>2, ZenonT(60)
<1> QED BY <1>12, Zenon DEF DifferenceIsExact

-----------------------------------------------------------------------------
(* Two sums of bytes, the carry handed on, make a sum of words.             *)
Carries(xl, xh, yl, yh, k, h, c) ==
  /\ xl + yl > 255 <=> k = 1
  /\ (xh % 16) + (yh % 16) + k > 15 <=> h = 1
  /\ xh + yh + k > 255 <=> c = 1

ByBytes(xl, xh, yl, yh, k, h, c) ==
  /\ ((256 * xh + xl) % 4096) + ((256 * yh + yl) % 4096) > 4095 <=> h = 1
  /\ 256 * xh + xl + (256 * yh + yl) > 65535 <=> c = 1
  /\ 256 * ((xh + yh + k) % 256) + ((xl + yl) % 256)
       = (256 * xh + xl + (256 * yh + yl)) - 65536 * c

LEMMA WideSumByBytes ==
  ASSUME NEW xl \in 0 .. 255, NEW xh \in 0 .. 255, NEW yl \in 0 .. 255, NEW yh \in 0 .. 255,
         NEW k \in 0 .. 1, NEW h \in 0 .. 1, NEW c \in 0 .. 1, Carries(xl, xh, yl, yh, k, h, c)
  PROVE  ByBytes(xl, xh, yl, yh, k, h, c)
<1> USE DEF Carries
<1>1. (256 * xh + xl) % 4096 = 256 * (xh % 16) + xl
  BY SMT
<1>2. (256 * yh + yl) % 4096 = 256 * (yh % 16) + yl
  BY SMT
<1>3. (256 * (xh % 16) + xl) + (256 * (yh % 16) + yl) > 4095 <=> h = 1
  BY SMT
<1>4. 256 * xh + xl + (256 * yh + yl) > 65535 <=> c = 1
  BY SMT
<1>5. (xl + yl) % 256 = xl + yl - 256 * k
  BY SMT
<1>6. (xh + yh + k) % 256 = xh + yh + k - 256 * c
  BY SMT
<1>7. 256 * (xh + yh + k - 256 * c) + (xl + yl - 256 * k)
        = (256 * xh + xl + (256 * yh + yl)) - 65536 * c
  BY SMT
<1> QED BY <1>1, <1>2, <1>3, <1>4, <1>5, <1>6, <1>7, SMT DEF ByBytes

LEMMA WideSumsAreExact ==
  ASSUME NEW x \in Word, NEW y \in Word
  PROVE  WideSumIsExact(x, y)
<1>1. PICK xl \in 0 .. 255, xh \in 0 .. 255 : BytesAre(x, xl, xh)
  BY BytesOf
<1>2. PICK yl \in 0 .. 255, yh \in 0 .. 255 : BytesAre(y, yl, yh)
  BY BytesOf
<1>3. PICK low, high :
        /\ low = alu_add8(xl, yl, 0)
        /\ high = alu_add8(xh, yh, get_flag(low.flags, FLAG_C) \div 16)
  OBVIOUS
<1>4. PICK k \in 0 .. 1 :
        low.value = (xl + yl + 0) % 256 /\ get_flag(low.flags, FLAG_C) = 16 * k /\ (xl + yl + 0 > 255 <=> k = 1)
  <2>1. xl \in Byte /\ yl \in Byte /\ 0 \in Bit
    BY SMT DEF Byte, Bit
  <2> QED BY <1>3, <2>1, SumParts
<1>5. k \in Bit /\ high = alu_add8(xh, yh, k) /\ (xl + yl > 255 <=> k = 1) /\ low.value = (xl + yl) % 256
  <2>1. (16 * k) \div 16 = k
    BY SMT
  <2>2. xl + yl + 0 = xl + yl
    OBVIOUS
  <2> QED BY <1>3, <1>4, <2>1, <2>2 DEF Bit
<1>6. PICK h \in 0 .. 1, c \in 0 .. 1 :
        /\ high.value = (xh + yh + k) % 256
        /\ get_flag(high.flags, FLAG_H) = 32 * h /\ get_flag(high.flags, FLAG_C) = 16 * c
        /\ (xh % 16) + (yh % 16) + k > 15 <=> h = 1
        /\ xh + yh + k > 255 <=> c = 1
  <2>1. xh \in Byte /\ yh \in Byte
    BY SMT DEF Byte
  <2> QED BY <1>5, <2>1, SumParts
<1>7. ByBytes(xl, xh, yl, yh, k, h, c)
  <2>1. Carries(xl, xh, yl, yh, k, h, c)
    BY <1>5, <1>6, SMT DEF Carries
  <2> QED BY <2>1, WideSumByBytes
<1>8. PICK lv \in 0 .. 255 : lv = (xl + yl) % 256
  OBVIOUS
<1>9. PICK hv \in 0 .. 255 : hv = (xh + yh + k) % 256
  OBVIOUS
<1>10. PICK s \in Int : s = x + y /\ s = 256 * xh + xl + (256 * yh + yl)
  <2>1. 256 * xh + xl + (256 * yh + yl) \in Int
    BY SMT
  <2> QED BY <1>1, <1>2, <2>1, SMT DEF BytesAre
<1>11. 0 <= s /\ s <= 131070 /\ (s > 65535 <=> c = 1) /\ 256 * hv + lv = s - 65536 * c
  BY <1>7, <1>8, <1>9, <1>10, SMT DEF ByBytes
<1>12. PICK sum \in Int : sum = (x + y) % 65536 /\ sum = 256 * hv + lv
  <2>1. s % 65536 = s - 65536 * c
    BY <1>11, SMT
  <2>2. 256 * hv + lv \in Int
    BY SMT
  <2> QED BY <1>10, <1>11, <2>1, <2>2, SMT
<1>13. merge8(low.value, high.value) = sum
  <2>1. hv % 256 = hv /\ lv % 256 = lv
    BY SMT
  <2> QED BY <1>5, <1>6, <1>8, <1>9, <1>12, <2>1, SMT DEF merge8
<1>14. (x % 4096) + (y % 4096) > 4095 <=> h = 1
  BY <1>1, <1>2, <1>7, SMT DEF ByBytes, BytesAre
<1>15. PICK fh, fc : fh = get_flag(high.flags, FLAG_H) /\ fc = get_flag(high.flags, FLAG_C)
  OBVIOUS
<1>16. alu_add16_high(x, y) = Output(sum, set_flags_value(sum, fh, fc))
  <2>1. xl = lsb8(x) /\ yl = lsb8(y) /\ xh = msb8(x) /\ yh = msb8(y)
    BY <1>1, <1>2 DEF BytesAre
  <2>2. low = alu_add8(lsb8(x), lsb8(y), 0)
    BY <1>3, <2>1, Zenon
  <2>3. high = alu_add8(msb8(x), msb8(y), get_flag(low.flags, FLAG_C) \div 16)
    BY <1>3, <2>1, Zenon
  <2> QED BY <1>13, <1>15, <2>2, <2>3, SMT DEF alu_add16_high
<1>17. (fh # 0 <=> h = 1) /\ (fc # 0 <=> c = 1)
  BY <1>6, <1>15, SMT
<1>18. x + y > 65535 <=> c = 1
  BY <1>10, <1>11, SMT
<1>19. set_flags_value(sum, fh, fc)
         = Flags(sum = 0, FALSE, (x % 4096) + (y % 4096) > 4095, x + y > 65535)
  BY <1>14, <1>17, <1>18, SMT DEF set_flags_value, Flags, FLAG_Z, FLAG_N, FLAG_H, FLAG_C
<1>20. PICK r : r = (x + y) % 65536
  OBVIOUS
<1>21. sum = r
  BY <1>12, <1>20, SMT
<1>22. alu_add16_high(x, y)
         = Output(r, Flags(r = 0, FALSE, (x % 4096) + (y % 4096) > 4095, x + y > 65535))
  BY <1>16, <1>19, <1>21, SMT
<1> QED BY <1>20, <1>22, SMT DEF WideSumIsExact

-----------------------------------------------------------------------------
(* A byte by its high and by its low bit, and what bit_rotate makes of it.  *)
LEMMA Powers ==
  /\ CLAMP07(0) = 0 /\ CLAMP07(1) = 1 /\ CLAMP07(7) = 7
  /\ Power2[0] = 1 /\ Power2[1] = 2 /\ Power2[7] = 128 /\ 8 - 1 = 7
  BY SMT DEF CLAMP07, Power2

LEMMA Rotations ==
  ASSUME NEW x \in 0 .. 255
  PROVE  /\ bit_rotate(x, LEFT, 1) = ((x * 2) % 256) + (x \div 128)
         /\ bit_rotate(x, RIGHT, 1) = ((x * 128) % 256) + (x \div 2)
         /\ BitOut(x, LEFT) = (x \div 128) % 2 /\ BitOut(x, RIGHT) = (x \div 1) % 2
  BY Powers DEF bit_rotate, BitOut, bit_get, LEFT, RIGHT

LEMMA BitsIn == BitIn(LEFT) = 0 /\ BitIn(RIGHT) = 7
  BY DEF BitIn, LEFT, RIGHT

(* The low and the high bit of a byte, given the others                     *)
EndBits(q, r, b) ==
  /\ bit_get(2 * r + b, 0) = b /\ bit_unset(2 * r + b, 0) = 2 * r /\ bit_set(2 * r + b, 0) = 2 * r + 1
  /\ bit_get(128 * b + q, 7) = b /\ bit_unset(128 * b + q, 7) = q /\ bit_set(128 * b + q, 7) = q + 128

LEMMA EndBitsEdited ==
  ASSUME NEW q \in 0 .. 127, NEW r \in 0 .. 127, NEW b \in 0 .. 1
  PROVE  EndBits(q, r, b)
<1>1. ((2 * r + b) \div 1) % 2 = b
  BY SMT
<1>2. ((128 * b + q) \div 128) % 2 = b
  BY SMT
<1>3. bit_get(2 * r + b, 0) = b
  BY <1>1, Powers, Zenon DEF bit_get
<1>4. bit_get(128 * b + q, 7) = b
  BY <1>2, Powers, Zenon DEF bit_get
<1>5. bit_unset(2 * r + b, 0) = 2 * r /\ bit_set(2 * r + b, 0) = 2 * r + 1
  BY <1>3, Powers DEF bit_unset, bit_set
<1>6. bit_unset(128 * b + q, 7) = q /\ bit_set(128 * b + q, 7) = q + 128
  BY <1>4, Powers DEF bit_unset, bit_set
<1> QED BY <1>3, <1>4, <1>5, <1>6 DEF EndBits

(* x as it leaves on the left (high bit b, the rest r) and on the right     *)
(* (low bit a, the rest q).                                                 *)
Ends(x, b, r, a, q) ==
  /\ x = 128 * b + r /\ x = 2 * q + a
  /\ bit_rotate(x, LEFT, 1) = 2 * r + b /\ BitOut(x, LEFT) = b
  /\ bit_rotate(x, RIGHT, 1) = 128 * a + q /\ BitOut(x, RIGHT) = a

LEMMA ByteByItsEnds ==
  ASSUME NEW x \in 0 .. 255
  PROVE  \E b \in 0 .. 1, r \in 0 .. 127, a \in 0 .. 1, q \in 0 .. 127 : Ends(x, b, r, a, q)
<1>1. PICK b \in 0 .. 1 : b = x \div 128
  BY SMT
<1>2. PICK r \in 0 .. 127 : r = x - 128 * b
  BY <1>1, SMT
<1>3. PICK q \in 0 .. 127 : q = x \div 2
  BY SMT
<1>4. PICK a \in 0 .. 1 : a = x - 2 * q
  BY <1>3, SMT
<1>5. (x * 2) % 256 = 2 * r /\ b % 2 = b
  BY <1>2, SMT
<1>6. (x * 128) % 256 = 128 * a /\ (x \div 1) % 2 = a
  BY <1>4, SMT
<1>7. x = 128 * b + r /\ x = 2 * q + a
  BY <1>2, <1>4
<1>8. /\ bit_rotate(x, LEFT, 1) = 2 * r + b /\ BitOut(x, LEFT) = b
      /\ bit_rotate(x, RIGHT, 1) = 128 * a + q /\ BitOut(x, RIGHT) = a
  BY <1>1, <1>3, <1>5, <1>6, Rotations
<1>9. Ends(x, b, r, a, q)
  BY <1>7, <1>8 DEF Ends
<1> QED BY <1>9

LEMMA ShiftsAreExact ==
  ASSUME NEW x \in Byte
  PROVE  ShiftIsExact(x)
<1>1. x \in 0 .. 255
  BY DEF Byte
<1>2. PICK b \in 0 .. 1, r \in 0 .. 127, a \in 0 .. 1, q \in 0 .. 127 : Ends(x, b, r, a, q)
  BY <1>1, ByteByItsEnds
<1>3. EndBits(q, r, b) /\ EndBits(q, r, a)
  BY EndBitsEdited
<1>4. (2 * x) % 256 = 2 * r /\ (x > 127 <=> b = 1)
  BY <1>1, <1>2, SMT DEF Ends
<1>5. x \div 2 = q /\ x % 2 = a
  BY <1>1, <1>2, SMT DEF Ends
<1>6. BitIn(LEFT) = 0 /\ BitIn(RIGHT) = 7
  BY BitsIn
<1>7. alu_shift(x, LEFT) = Output(2 * r, set_flags_value(2 * r, 0, b))
  BY <1>2, <1>3, <1>6 DEF alu_shift, Ends, EndBits
<1>8. alu_shift(x, RIGHT) = Output(q, set_flags_value(q, 0, a))
  BY <1>2, <1>3, <1>6 DEF alu_shift, Ends, EndBits
<1>9. set_flags_value(2 * r, 0, b) = Flags((2 * x) % 256 = 0, FALSE, FALSE, x > 127)
  BY <1>4 DEF set_flags_value, Flags, FLAG_Z, FLAG_N, FLAG_H, FLAG_C
<1>10. set_flags_value(q, 0, a) = Flags(x \div 2 = 0, FALSE, FALSE, x % 2 = 1)
  BY <1>5 DEF set_flags_value, Flags, FLAG_Z, FLAG_N, FLAG_H, FLAG_C
<1> QED BY <1>4, <1>5, <1>7, <1>8, <1>9, <1>10 DEF ShiftIsExact

LEMMA CarryRotationsAreExact ==
  ASSUME NEW x \in Byte, NEW c \in Bit
  PROVE  CarryRotationIsExact(x, c)
<1>1. x \in 0 .. 255 /\ c \in 0 .. 1
  BY DEF Byte, Bit
<1>2. PICK b \in 0 .. 1, r \in 0 .. 127, a \in 0 .. 1, q \in 0 .. 127 : Ends(x, b, r, a, q)
  BY <1>1, ByteByItsEnds
<1>3. EndBits(q, r, b) /\ EndBits(q, r, a)
  BY EndBitsEdited
<1>4. BitIn(LEFT) = 0 /\ BitIn(RIGHT) = 7
  BY BitsIn
<1>5. PICK flags : flags = IF c = 1 THEN FLAG_C ELSE 0
  OBVIOUS
<1>6. get_flag(flags, FLAG_C) = 16 * c
  <2>1. flags = 128 * 0 + 64 * 0 + 32 * 0 + 16 * c
    BY <1>1, <1>5 DEF FLAG_C
  <2>2. 0 \in 0 .. 1
    BY SMT
  <2> QED BY <1>1, <2>1, <2>2, FlagBits
<1>7. /\ bit_edit(2 * r + b, 0, 16 * c) = 2 * r + c
      /\ bit_edit(128 * a + q, 7, 16 * c) = q + 128 * c
  <2>1. 16 * c = 0 <=> c = 0
    BY <1>1
  <2> QED BY <1>1, <1>3, <2>1 DEF bit_edit, EndBits
<1>8. alu_carry_rotate(x, LEFT, flags) = Output(2 * r + c, set_flags_value(2 * r + c, 0, b))
  BY <1>2, <1>4, <1>6, <1>7 DEF alu_carry_rotate, Ends
<1>9. alu_carry_rotate(x, RIGHT, flags) = Output(q + 128 * c, set_flags_value(q + 128 * c, 0, a))
  BY <1>2, <1>4, <1>6, <1>7 DEF alu_carry_rotate, Ends
<1>10. PICK left \in Nat, right \in Nat : left = (2 * x) + c /\ right = x + (256 * c)
  BY <1>1
<1>11. /\ left % 256 = 2 * r + c /\ (left > 255 <=> b = 1)
       /\ right \div 2 = q + 128 * c /\ x % 2 = a
  BY <1>1, <1>2, <1>10, SMT DEF Ends
<1>12. set_flags_value(2 * r + c, 0, b) = Flags(left % 256 = 0, FALSE, FALSE, left > 255)
  BY <1>11 DEF set_flags_value, Flags, FLAG_Z, FLAG_N, FLAG_H, FLAG_C
<1>13. set_flags_value(q + 128 * c, 0, a) = Flags(right \div 2 = 0, FALSE, FALSE, x % 2 = 1)
  BY <1>11 DEF set_flags_value, Flags, FLAG_Z, FLAG_N, FLAG_H, FLAG_C
<1>14. /\ alu_carry_rotate(x, LEFT, flags)
            = Output(left % 256, Flags(left % 256 = 0, FALSE, FALSE, left > 255))
       /\ alu_carry_rotate(x, RIGHT, flags)
            = Output(right \div 2, Flags(right \div 2 = 0, FALSE, FALSE, x % 2 = 1))
  BY <1>8, <1>9, <1>11, <1>12, <1>13
<1>15. alu_carry_rotate(x, LEFT, flags)
         = Output(((2 * x) + c) % 256,
                  Flags(((2 * x) + c) % 256 = 0, FALSE, FALSE, (2 * x) + c > 255))
  BY <1>10, <1>14, ZenonT(60)
<1>16. alu_carry_rotate(x, RIGHT, flags)
         = Output((x + (256 * c)) \div 2,
                  Flags((x + (256 * c)) \div 2 = 0, FALSE, FALSE, x % 2 = 1))
  BY <1>10, <1>14, ZenonT(60)
<1> QED BY <1>5, <1>15, <1>16, Zenon DEF CarryRotationIsExact

-----------------------------------------------------------------------------
(* The sums and differences of any two bytes, the sum of any two words and  *)
(* the shifts and rotations of any byte are those of numbers, in value and  *)
(* in flags (alu_add8, alu_sub8, alu_add16_high, alu_shift,                 *)
(* alu_carry_rotate).                                                       *)
THEOREM ArithmeticOfNumbers ==
  /\ \A x, y \in Byte, c \in Bit : SumIsExact(x, y, c) /\ DifferenceIsExact(x, y, c)
  /\ \A x, y \in Word : WideSumIsExact(x, y)
  /\ \A x \in Byte, c \in Bit : CarryRotationIsExact(x, c)
  /\ \A x \in Byte : ShiftIsExact(x)
  BY SumsAreExact, DifferencesAreExact, WideSumsAreExact, CarryRotationsAreExact, ShiftsAreExact

(* So are those of the accumulator, whatever byte it holds (reg A).         *)
LEMMA TypedArithmetic == TypeOK => ArithmeticIsExact
<1> SUFFICES ASSUME TypeOK
             PROVE  ArithmeticIsExact
  OBVIOUS
<1>1. PICK x : x = cpu.reg[REG_A_CODE]
  OBVIOUS
<1>2. x \in Byte
  BY <1>1 DEF TypeOK, Typed, RegCodes, REG_A_CODE
<1>3. ASSUME NEW y \in Byte
      PROVE  /\ WideSumIsExact(merge8(x, y), merge8(y, x)) /\ WideSumIsExact(257 * x, y)
  <2>1. x \in 0 .. 255 /\ y \in 0 .. 255
    BY <1>2, <1>3 DEF Byte
  <2>2. x % 256 = x /\ y % 256 = y
    BY <2>1, SMT
  <2>3. merge8(x, y) = 256 * y + x /\ merge8(y, x) = 256 * x + y
    BY <2>2 DEF merge8
  <2>4. 256 * y + x \in Word /\ 256 * x + y \in Word /\ 257 * x \in Word /\ y \in Word
    BY <2>1, InWord, SMT
  <2> QED BY <2>3, <2>4, WideSumsAreExact
<1> QED BY <1>1, <1>2, <1>3, SumsAreExact, DifferencesAreExact, CarryRotationsAreExact,
           ShiftsAreExact DEF ArithmeticIsExact

-----------------------------------------------------------------------------
(* Every entry of the tables of opcode.c has a byte as its opcode, the       *)
(* bytes and cycles of an instruction, and a family that cpu_dispatch knows *)
(* or that of an unknown instruction.                                       *)
Known == AluFamilies \cup StorageFamilies \cup ControlFamilies \cup {"UNKN"}

Decoded(lu) ==
  lu.opcode \in Byte /\ lu.bytes \in 1 .. 3 /\ lu.cycles \in 0 .. 6 /\ lu.family \in Known

LEMMA FamiliesKnown ==
  /\ "NOP" \in Known
  /\ "ADD_A_HLR" \in Known /\ "ADD_A_N8" \in Known /\ "ADD_A_R8" \in Known /\ "ADD_HL_R16SP" \in Known
  /\ "AND_A_HLR" \in Known /\ "AND_A_N8" \in Known /\ "AND_A_R8" \in Known /\ "BIT_U3_HLR" \in Known
  /\ "BIT_U3_R8" \in Known /\ "CALL_CC_N16" \in Known /\ "CALL_N16" \in Known /\ "CHG_U3_HLR" \in Known
  /\ "CHG_U3_R8" \in Known /\ "CPL" \in Known /\ "CP_A_HLR" \in Known /\ "CP_A_N8" \in Known
  /\ "CP_A_R8" \in Known /\ "DAA" \in Known /\ "DEC_HLR" \in Known /\ "DEC_R16SP" \in Known
  /\ "DEC_R8" \in Known /\ "EDI" \in Known /\ "HALT" \in Known /\ "INC_HLR" \in Known
  /\ "INC_R16SP" \in Known /\ "INC_R8" \in Known /\ "JP_CC_N16" \in Known /\ "JP_HL" \in Known
  /\ "JP_N16" \in Known /\ "JR_CC_E8" \in Known /\ "JR_E8" \in Known /\ "LD_A_BCR" \in Known
  /\ "LD_A_CR" \in Known /\ "LD_A_DER" \in Known /\ "LD_A_HLRU" \in Known /\ "LD_A_N16R" \in Known
  /\ "LD_A_N8R" \in Known /\ "LD_BCR_A" \in Known /\ "LD_CR_A" \in Known /\ "LD_DER_A" \in Known
  /\ "LD_HLRU_A" \in Known /\ "LD_HLR_N8" \in Known /\ "LD_HLR_R8" \in Known /\ "LD_HLSP_S8" \in Known
  /\ "LD_N16R_A" \in Known /\ "LD_N16R_SP" \in Known /\ "LD_N8R_A" \in Known /\ "LD_R16SP_N16" \in Known
  /\ "LD_R8_HLR" \in Known /\ "LD_R8_N8" \in Known /\ "LD_R8_R8" \in Known /\ "LD_SP_HL" \in Known
  /\ "OR_A_HLR" \in Known /\ "OR_A_N8" \in Known /\ "OR_A_R8" \in Known /\ "POP_R16" \in Known
  /\ "PUSH_R16" \in Known /\ "RET" \in Known /\ "RETI" \in Known /\ "RET_CC" \in Known
  /\ "ROTA" \in Known /\ "ROTCA" \in Known /\ "ROTC_HLR" \in Known /\ "ROTC_R8" \in Known
  /\ "ROT_HLR" \in Known /\ "ROT_R8" \in Known /\ "RST_U3" \in Known /\ "SCCF" \in Known
  /\ "SLA_HLR" \in Known /\ "SLA_R8" \in Known /\ "SRA_HLR" \in Known /\ "SRA_R8" \in Known
  /\ "SRL_HLR" \in Known /\ "SRL_R8" \in Known /\ "STOP" \in Known /\ "SUB_A_HLR" \in Known
  /\ "SUB_A_N8" \in Known /\ "SUB_A_R8" \in Known /\ "SWAP_HLR" \in Known /\ "SWAP_R8" \in Known
  /\ "UNKN" \in Known /\ "XOR_A_HLR" \in Known /\ "XOR_A_N8" \in Known /\ "XOR_A_R8" \in Known
  BY SMT DEF Known, AluFamilies, StorageFamilies, LoadsOfA, StoresOfA, ControlFamilies, ConditionalFamilies

Column8(f) == \A j \in 1 .. 8 : Decoded(f[j])

LEMMA OperandNames ==
  /\ Operands = {"B", "C", "D", "E", "H", "L", "HLR", "A"}
  /\ R8 = {"B", "C", "D", "E", "H", "L", "A"}
  /\ DOMAIN PairCode = {"BC", "DE", "HL", "AF"}
  /\ DOMAIN ConditionCode = {"NZ", "Z", "NC", "C"}
<1>1. Operands = {"B", "C", "D", "E", "H", "L", "HLR", "A"}
  BY SMT DEF Operands, RegisterCode
<1>2. DOMAIN PairCode = {"BC", "DE", "HL", "AF"}
  BY SMT DEF PairCode
<1>3. DOMAIN ConditionCode = {"NZ", "Z", "NC", "C"}
  BY SMT DEF ConditionCode
<1> QED BY <1>1, <1>2, <1>3, SMT DEF R8

LEMMA OperandCodes ==
  /\ \A o \in Operands : RegisterCode[o] \in 0 .. 7
  /\ \A p \in DOMAIN PairCode : PairCode[p] \in 0 .. 3
  /\ \A cc \in DOMAIN ConditionCode : ConditionCode[cc] \in 0 .. 3
<1>1. \A o \in Operands : RegisterCode[o] \in 0 .. 7
  BY OperandNames, SMT DEF RegisterCode
<1>2. \A p \in DOMAIN PairCode : PairCode[p] \in 0 .. 3
  BY OperandNames, SMT DEF PairCode
<1>3. \A cc \in DOMAIN ConditionCode : ConditionCode[cc] \in 0 .. 3
  BY OperandNames, SMT DEF ConditionCode
<1> QED BY <1>1, <1>2, <1>3

LEMMA OperandsListed ==
  /\ \A k \in 1 .. 8 : Operand[k] \in Operands
  /\ \A k \in 1 .. 4 : Pair[k] \in DOMAIN PairCode
  /\ \A k \in 1 .. 4 : CC[k] \in DOMAIN ConditionCode
  BY OperandNames, SMT DEF Operand, Pair, CC

LEMMA SinglesDecode ==
  /\ Decoded(OP_NOP) /\ Decoded(OP_LD_N16R_SP) /\ Decoded(OP_STOP) /\ Decoded(OP_JR_E8)
  /\ Decoded(OP_LD_BCR_A) /\ Decoded(OP_LD_A_BCR) /\ Decoded(OP_LD_DER_A) /\ Decoded(OP_LD_A_DER)
  /\ Decoded(OP_LD_HLRI_A) /\ Decoded(OP_LD_A_HLRI) /\ Decoded(OP_LD_HLRD_A) /\ Decoded(OP_LD_A_HLRD)
  /\ Decoded(OP_RLCA) /\ Decoded(OP_RRCA) /\ Decoded(OP_RLA) /\ Decoded(OP_RRA)
  /\ Decoded(OP_DAA) /\ Decoded(OP_CPL) /\ Decoded(OP_SCF) /\ Decoded(OP_CCF)
  /\ Decoded(OP_HALT) /\ Decoded(OP_LD_N8R_A) /\ Decoded(OP_ADD_SP_N) /\ Decoded(OP_LD_A_N8R)
  /\ Decoded(OP_LD_HL_SP_N8) /\ Decoded(OP_RET) /\ Decoded(OP_RETI) /\ Decoded(OP_JP_HL)
  /\ Decoded(OP_LD_SP_HL) /\ Decoded(OP_LD_CR_A) /\ Decoded(OP_LD_N16R_A) /\ Decoded(OP_LD_A_CR)
  /\ Decoded(OP_LD_A_N16R) /\ Decoded(OP_JP_N16) /\ Decoded(OP_UNKOWN) /\ Decoded(OP_DI)
  /\ Decoded(OP_EI) /\ Decoded(OP_CALL_N16)
  BY FamiliesKnown, SMT DEF Decoded, Direct, INSTR_DEF, Byte, OP_NOP, OP_LD_N16R_SP, OP_STOP,
              OP_JR_E8, OP_LD_BCR_A, OP_LD_A_BCR, OP_LD_DER_A, OP_LD_A_DER, OP_LD_HLRI_A,
              OP_LD_A_HLRI, OP_LD_HLRD_A, OP_LD_A_HLRD, OP_RLCA, OP_RRCA, OP_RLA, OP_RRA,
              OP_DAA, OP_CPL, OP_SCF, OP_CCF, OP_HALT, OP_LD_N8R_A, OP_ADD_SP_N, OP_LD_A_N8R,
              OP_LD_HL_SP_N8, OP_RET, OP_RETI, OP_JP_HL, OP_LD_SP_HL, OP_LD_CR_A,
              OP_LD_N16R_A, OP_LD_A_CR, OP_LD_A_N16R, OP_JP_N16, OP_UNKOWN, OP_DI, OP_EI,
              OP_CALL_N16

LEMMA GroupsDecode ==
  /\ \A p \in DOMAIN PairCode :
       /\ Decoded(OP_INC_R16[p]) /\ Decoded(OP_DEC_R16[p]) /\ Decoded(OP_ADD_HL[p])
       /\ Decoded(OP_LD_R16_N16[p]) /\ Decoded(OP_POP[p]) /\ Decoded(OP_PUSH[p])
  /\ \A cc \in DOMAIN ConditionCode :
       /\ Decoded(OP_JP_CC[cc]) /\ Decoded(OP_JR_CC[cc])
       /\ Decoded(OP_CALL_CC[cc]) /\ Decoded(OP_RET_CC[cc])
  /\ \A n \in 0 .. 7 : Decoded(OP_RST[n])
<1>1. ASSUME NEW p \in DOMAIN PairCode
      PROVE  /\ Decoded(OP_INC_R16[p]) /\ Decoded(OP_DEC_R16[p]) /\ Decoded(OP_ADD_HL[p])
             /\ Decoded(OP_LD_R16_N16[p]) /\ Decoded(OP_POP[p]) /\ Decoded(OP_PUSH[p])
  <2>1. PairCode[p] \in 0 .. 3
    BY OperandCodes
  <2> QED BY <2>1, FamiliesKnown, SMT DEF OP_INC_R16, OP_DEC_R16, OP_ADD_HL, OP_LD_R16_N16, OP_POP, OP_PUSH,
                    OfPair, Decoded, Direct, INSTR_DEF, Byte
<1>2. ASSUME NEW cc \in DOMAIN ConditionCode
      PROVE  /\ Decoded(OP_JP_CC[cc]) /\ Decoded(OP_JR_CC[cc])
             /\ Decoded(OP_CALL_CC[cc]) /\ Decoded(OP_RET_CC[cc])
  <2>1. ConditionCode[cc] \in 0 .. 3
    BY OperandCodes
  <2> QED BY <2>1, FamiliesKnown, SMT DEF OP_JP_CC, OP_JR_CC, OP_CALL_CC, OP_RET_CC, OnCondition,
                    Decoded, Direct, INSTR_DEF, Byte
<1>3. ASSUME NEW n \in 0 .. 7 PROVE Decoded(OP_RST[n])
  BY FamiliesKnown, SMT DEF OP_RST, Decoded, Direct, INSTR_DEF, Byte
<1> QED BY <1>1, <1>2, <1>3

LEMMA OperandsDecode ==
  ASSUME NEW o \in Operands
  PROVE  /\ Decoded(OP_INC[o]) /\ Decoded(OP_DEC[o]) /\ Decoded(OP_LD_N8[o])
         /\ \A s \in Operands : Decoded(OP_LD[o][s])
<1>0. RegisterCode[o] \in 0 .. 7
  BY OperandCodes
<1>1. Decoded(OP_INC[o]) /\ Decoded(OP_DEC[o]) /\ Decoded(OP_LD_N8[o])
  BY <1>0, FamiliesKnown, SMT DEF OP_INC, OP_DEC, OP_LD_N8, Decoded, Direct, INSTR_DEF, Byte
<1>2. ASSUME NEW s \in Operands PROVE Decoded(OP_LD[o][s])
  <2>1. PICK code : code = 64 + 8 * RegisterCode[o] + RegisterCode[s]
    OBVIOUS
  <2>2. code \in 0 .. 255
    BY OperandCodes, <2>1
  <2>3. \E f \in Known : \E n \in {1, 2} : OP_LD[o][s] = Direct(f, code, 1, n)
    BY <2>1, FamiliesKnown DEF OP_LD
  <2> QED BY <2>2, <2>3, SMT DEF Decoded, Direct, INSTR_DEF, Byte
<1> QED BY <1>1, <1>2

LEMMA WithADecode ==
  ASSUME NEW o \in Operands \cup {"N8"}
  PROVE  /\ Decoded(OP_ADD_A[o]) /\ Decoded(OP_ADC_A[o]) /\ Decoded(OP_SUB_A[o])
         /\ Decoded(OP_SBC_A[o]) /\ Decoded(OP_AND_A[o]) /\ Decoded(OP_XOR_A[o])
         /\ Decoded(OP_OR_A[o]) /\ Decoded(OP_CP_A[o])
<1> USE DEF OP_ADD_A, OP_ADC_A, OP_SUB_A, OP_SBC_A, OP_AND_A, OP_XOR_A, OP_OR_A, OP_CP_A, WithA,
            Decoded, Direct, INSTR_DEF, Byte
<1>1. CASE o \in R8
  <2>1. RegisterCode[o] \in 0 .. 7 /\ o # "HLR" /\ o # "N8"
    BY <1>1, OperandNames, OperandCodes
  <2> QED BY <1>1, <2>1, FamiliesKnown
<1>2. CASE o = "HLR"
  <2>1. RegisterCode[o] \in 0 .. 7 /\ o \notin R8
    BY <1>2, OperandNames, OperandCodes
  <2> QED BY <1>2, <2>1, FamiliesKnown
<1>3. CASE o = "N8"
  <2>1. o \notin R8
    BY <1>3, OperandNames
  <2> QED BY <1>3, <2>1, FamiliesKnown
<1> QED BY <1>1, <1>2, <1>3 DEF R8

LEMMA RowsAndColumns ==
  ASSUME NEW i \in Byte
  PROVE  Row(i) \in 1 .. 8 /\ Column(i) \in 1 .. 8
  BY SMT DEF Row, Column, Byte

LEMMA ColumnsDecode ==
  ASSUME NEW a, NEW b, NEW c, NEW d, NEW e, NEW f, NEW g, NEW h,
         NEW i \in 1 .. 8, NEW j \in 1 .. 8,
         Column8(a), Column8(b), Column8(c), Column8(d),
         Column8(e), Column8(f), Column8(g), Column8(h)
  PROVE  Decoded(<<a, b, c, d, e, f, g, h>>[i][j])
  BY SMT DEF Column8

LEMMA From00 ==
  ASSUME NEW i \in 0 .. 63
  PROVE  Decoded(direct_from_00[i])
<1>1. PICK a : a = << OP_NOP, OP_LD_N16R_SP, OP_STOP, OP_JR_E8,
                  OP_JR_CC["NZ"], OP_JR_CC["Z"], OP_JR_CC["NC"], OP_JR_CC["C"] >>
  OBVIOUS
<1>2. PICK b, d : b = ByTwo(Pair, OP_LD_R16_N16, OP_ADD_HL) /\ d = ByTwo(Pair, OP_INC_R16, OP_DEC_R16)
  OBVIOUS
<1>3. PICK c : c = << OP_LD_BCR_A, OP_LD_A_BCR, OP_LD_DER_A, OP_LD_A_DER,
                  OP_LD_HLRI_A, OP_LD_A_HLRI, OP_LD_HLRD_A, OP_LD_A_HLRD >>
  OBVIOUS
<1>4. PICK e, f, g : e = AllEight(OP_INC) /\ f = AllEight(OP_DEC) /\ g = AllEight(OP_LD_N8)
  OBVIOUS
<1>5. PICK h : h = << OP_RLCA, OP_RRCA, OP_RLA, OP_RRA, OP_DAA, OP_CPL, OP_SCF, OP_CCF >>
  OBVIOUS
<1>6. Column8(a)
  BY <1>1, SinglesDecode, GroupsDecode, OperandNames, SMT DEF Column8
<1>7. Column8(b) /\ Column8(d)
  BY <1>2, GroupsDecode, OperandsListed, SMT DEF Column8, ByTwo
<1>8. Column8(c)
  BY <1>3, SinglesDecode, SMT DEF Column8
<1>9. Column8(e) /\ Column8(f) /\ Column8(g)
  BY <1>4, OperandsDecode, OperandsListed, SMT DEF Column8, AllEight
<1>10. Column8(h)
  BY <1>5, SinglesDecode, SMT DEF Column8
<1>11. direct_from_00[i] = <<a, b, c, d, e, f, g, h>>[Column(i)][Row(i)]
  BY <1>1, <1>2, <1>3, <1>4, <1>5 DEF direct_from_00
<1>12. Row(i) \in 1 .. 8 /\ Column(i) \in 1 .. 8
  BY RowsAndColumns, SMT DEF Byte
<1> QED BY <1>6, <1>7, <1>8, <1>9, <1>10, <1>11, <1>12, ColumnsDecode

LEMMA From40 ==
  ASSUME NEW i \in 64 .. 127
  PROVE  Decoded(direct_from_40[i])
<1>1. Row(i) \in 1 .. 8 /\ Column(i) \in 1 .. 8
  BY RowsAndColumns, SMT DEF Byte
<1>2. Operand[Row(i)] \in Operands /\ Operand[Column(i)] \in Operands
  BY <1>1, OperandsListed
<1>3. Decoded(OP_HALT) /\ Decoded(OP_LD[Operand[Row(i)]][Operand[Column(i)]])
  BY <1>2, SinglesDecode, OperandsDecode
<1> QED BY <1>3 DEF direct_from_40

LEMMA From80 ==
  ASSUME NEW i \in 128 .. 191
  PROVE  Decoded(direct_from_80[i])
<1>1. Row(i) \in 1 .. 8 /\ Column(i) \in 1 .. 8
  BY RowsAndColumns, SMT DEF Byte
<1>2. PICK o : o = Operand[Column(i)]
  OBVIOUS
<1>3. o \in Operands
  BY <1>1, <1>2, OperandsListed
<1>4. direct_from_80[i]
        = << OP_ADD_A, OP_ADC_A, OP_SUB_A, OP_SBC_A, OP_AND_A, OP_XOR_A, OP_OR_A, OP_CP_A >>[Row(i)][o]
  BY <1>2, SMT DEF direct_from_80
<1> QED BY <1>1, <1>3, <1>4, WithADecode, SMT

LEMMA FromC0 ==
  ASSUME NEW i \in 192 .. 255
  PROVE  Decoded(direct_from_C0[i])
<1>1. PICK a : a = << OP_RET_CC["NZ"], OP_RET_CC["Z"], OP_RET_CC["NC"], OP_RET_CC["C"],
                  OP_LD_N8R_A, OP_ADD_SP_N, OP_LD_A_N8R, OP_LD_HL_SP_N8 >>
  OBVIOUS
<1>2. PICK b : b = << OP_POP["BC"], OP_RET, OP_POP["DE"], OP_RETI,
                  OP_POP["HL"], OP_JP_HL, OP_POP["AF"], OP_LD_SP_HL >>
  OBVIOUS
<1>3. PICK c : c = << OP_JP_CC["NZ"], OP_JP_CC["Z"], OP_JP_CC["NC"], OP_JP_CC["C"],
                  OP_LD_CR_A, OP_LD_N16R_A, OP_LD_A_CR, OP_LD_A_N16R >>
  OBVIOUS
<1>4. PICK d : d = << OP_JP_N16, OP_UNKOWN, OP_UNKOWN, OP_UNKOWN, OP_UNKOWN, OP_UNKOWN,
                  OP_DI, OP_EI >>
  OBVIOUS
<1>5. PICK e : e = << OP_CALL_CC["NZ"], OP_CALL_CC["Z"], OP_CALL_CC["NC"], OP_CALL_CC["C"],
                  OP_UNKOWN, OP_UNKOWN, OP_UNKOWN, OP_UNKOWN >>
  OBVIOUS
<1>6. PICK f : f = << OP_PUSH["BC"], OP_CALL_N16, OP_PUSH["DE"], OP_UNKOWN,
                  OP_PUSH["HL"], OP_UNKOWN, OP_PUSH["AF"], OP_UNKOWN >>
  OBVIOUS
<1>7. PICK g : g = << OP_ADD_A["N8"], OP_ADC_A["N8"], OP_SUB_A["N8"], OP_SBC_A["N8"],
                  OP_AND_A["N8"], OP_XOR_A["N8"], OP_OR_A["N8"], OP_CP_A["N8"] >>
  OBVIOUS
<1>8. PICK h : h = << OP_RST[0], OP_RST[1], OP_RST[2], OP_RST[3],
                  OP_RST[4], OP_RST[5], OP_RST[6], OP_RST[7] >>
  OBVIOUS
<1>9. Column8(a)
  BY <1>1, SinglesDecode, GroupsDecode, OperandNames, SMT DEF Column8
<1>10. Column8(b)
  BY <1>2, SinglesDecode, GroupsDecode, OperandNames, SMT DEF Column8
<1>11. Column8(c)
  BY <1>3, SinglesDecode, GroupsDecode, OperandNames, SMT DEF Column8
<1>12. Column8(d)
  BY <1>4, SinglesDecode, SMT DEF Column8
<1>13. Column8(e)
  BY <1>5, SinglesDecode, GroupsDecode, OperandNames, SMT DEF Column8
<1>14. Column8(f)
  BY <1>6, SinglesDecode, GroupsDecode, OperandNames, SMT DEF Column8
<1>15. Column8(g)
  BY <1>7, WithADecode, SMT DEF Column8
<1>16. Column8(h)
  BY <1>8, GroupsDecode, SMT DEF Column8
<1>17. direct_from_C0[i] = <<a, b, c, d, e, f, g, h>>[Column(i)][Row(i)]
  BY <1>1, <1>2, <1>3, <1>4, <1>5, <1>6, <1>7, <1>8 DEF direct_from_C0
<1>18. Row(i) \in 1 .. 8 /\ Column(i) \in 1 .. 8
  BY RowsAndColumns, SMT DEF Byte
<1> QED BY <1>9, <1>10, <1>11, <1>12, <1>13, <1>14, <1>15, <1>16, <1>17, <1>18,
           ColumnsDecode

LEMMA PrefixedDecode ==
  /\ \A i \in 0 .. 63 : Decoded(prefixed_from_00[i])
  /\ \A i \in 64 .. 127 : Decoded(prefixed_from_40[i])
  /\ \A i \in 128 .. 191 : Decoded(prefixed_from_80[i])
  /\ \A i \in 192 .. 255 : Decoded(prefixed_from_C0[i])
<1>1. ASSUME NEW o \in Operands
      PROVE  /\ Decoded(OP_RLC[o]) /\ Decoded(OP_RRC[o]) /\ Decoded(OP_RL[o]) /\ Decoded(OP_RR[o])
             /\ Decoded(OP_SLA[o]) /\ Decoded(OP_SRA[o]) /\ Decoded(OP_SWAP[o]) /\ Decoded(OP_SRL[o])
             /\ \A n \in 0 .. 7 : Decoded(OP_BIT[n][o]) /\ Decoded(OP_RES[n][o]) /\ Decoded(OP_SET[n][o])
  <2>1. RegisterCode[o] \in 0 .. 7
    BY OperandCodes
  <2> USE DEF OnOperand, Decoded, Prefixed, INSTR_DEF, Byte
  <2>2. /\ Decoded(OP_RLC[o]) /\ Decoded(OP_RRC[o]) /\ Decoded(OP_RL[o]) /\ Decoded(OP_RR[o])
    BY <2>1, FamiliesKnown, SMT DEF OP_RLC, OP_RRC, OP_RL, OP_RR
  <2>3. /\ Decoded(OP_SLA[o]) /\ Decoded(OP_SRA[o]) /\ Decoded(OP_SWAP[o]) /\ Decoded(OP_SRL[o])
    BY <2>1, FamiliesKnown, SMT DEF OP_SLA, OP_SRA, OP_SWAP, OP_SRL
  <2>4. ASSUME NEW n \in 0 .. 7
        PROVE  Decoded(OP_BIT[n][o]) /\ Decoded(OP_RES[n][o]) /\ Decoded(OP_SET[n][o])
    <3>1. ASSUME NEW first \in 0 .. 248, NEW r8 \in Known, NEW hlr \in Known, NEW cycles \in 0 .. 6
          PROVE  Decoded(OnOperand(first, r8, hlr, cycles)[o])
      BY <2>1, SMT
    <3> HIDE DEF OnOperand, Decoded, Prefixed, INSTR_DEF, Byte
    <3>2. OP_BIT[n] = OnOperand(64 + 8 * n, "BIT_U3_R8", "BIT_U3_HLR", 3)
      BY SMT DEF OP_BIT
    <3>3. /\ OP_RES[n] = OnOperand(128 + 8 * n, "CHG_U3_R8", "CHG_U3_HLR", 4)
          /\ OP_SET[n] = OnOperand(192 + 8 * n, "CHG_U3_R8", "CHG_U3_HLR", 4)
      BY SMT DEF OP_RES, OP_SET
    <3>4. PICK bit \in 0 .. 248, res \in 0 .. 248, set \in 0 .. 248 :
            bit = 64 + 8 * n /\ res = 128 + 8 * n /\ set = 192 + 8 * n
      <4>1. 64 + 8 * n \in 0 .. 248 /\ 128 + 8 * n \in 0 .. 248 /\ 192 + 8 * n \in 0 .. 248
        BY SMT
      <4> QED BY <4>1, Zenon
    <3>5. 3 \in 0 .. 6 /\ 4 \in 0 .. 6
      BY SMT
    <3>6. /\ Decoded(OnOperand(bit, "BIT_U3_R8", "BIT_U3_HLR", 3)[o])
          /\ Decoded(OnOperand(res, "CHG_U3_R8", "CHG_U3_HLR", 4)[o])
          /\ Decoded(OnOperand(set, "CHG_U3_R8", "CHG_U3_HLR", 4)[o])
      BY <3>1, <3>5, FamiliesKnown
    <3> QED BY <3>2, <3>3, <3>4, <3>6
  <2> QED BY <2>2, <2>3, <2>4
<1>2. ASSUME NEW i \in 0 .. 255
      PROVE  Operand[Column(i)] \in Operands /\ Row(i) \in 1 .. 8
  <2>1. Row(i) \in 1 .. 8 /\ Column(i) \in 1 .. 8
    BY RowsAndColumns DEF Byte
  <2> QED BY <2>1, OperandsListed
<1>3. ASSUME NEW i \in 0 .. 63
      PROVE  Decoded(prefixed_from_00[i])
  <2>1. PICK o \in Operands : o = Operand[Column(i)]
    BY <1>2
  <2>2. prefixed_from_00[i] = << OP_RLC, OP_RRC, OP_RL, OP_RR, OP_SLA, OP_SRA, OP_SWAP, OP_SRL >>[Row(i)][o]
    BY <2>1, SMT DEF prefixed_from_00
  <2>3. Row(i) \in 1 .. 8
    BY <1>2
  <2>4. ASSUME NEW k \in 1 .. 8
        PROVE  Decoded(<< OP_RLC, OP_RRC, OP_RL, OP_RR, OP_SLA, OP_SRA, OP_SWAP, OP_SRL >>[k][o])
    BY <1>1, SMT
  <2> QED BY <2>2, <2>3, <2>4
<1>4. ASSUME NEW i \in 64 .. 127
      PROVE  Decoded(prefixed_from_40[i])
  <2>1. Row(i) - 1 \in 0 .. 7 /\ Operand[Column(i)] \in Operands
    BY <1>2
  <2> QED BY <1>1, <2>1, SMT DEF prefixed_from_40
<1>5. ASSUME NEW i \in 128 .. 191
      PROVE  Decoded(prefixed_from_80[i])
  <2>1. Row(i) - 1 \in 0 .. 7 /\ Operand[Column(i)] \in Operands
    BY <1>2
  <2> QED BY <1>1, <2>1, SMT DEF prefixed_from_80
<1>6. ASSUME NEW i \in 192 .. 255
      PROVE  Decoded(prefixed_from_C0[i])
  <2>1. Row(i) - 1 \in 0 .. 7 /\ Operand[Column(i)] \in Operands
    BY <1>2
  <2> QED BY <1>1, <2>1, SMT DEF prefixed_from_C0
<1> QED BY <1>3, <1>4, <1>5, <1>6

LEMMA TablesDecode ==
  ASSUME NEW i \in Byte
  PROVE  Decoded(instruction_direct[i]) /\ Decoded(instruction_prefixed[i])
<1>1. i \in 0 .. 255
  BY DEF Byte
<1>2. CASE i \in 0 .. 63
  <2>1. i <= 63 /\ i \notin 64 .. 127 /\ i \notin 128 .. 191
    BY <1>2, SMT
  <2>2. instruction_direct[i] = direct_from_00[i] /\ instruction_prefixed[i] = prefixed_from_00[i]
    BY <1>1, <2>1, SMTT(60) DEF instruction_direct, instruction_prefixed
  <2> QED BY <1>2, <2>2, From00, PrefixedDecode
<1>3. CASE i \in 64 .. 127
  <2>1. ~(i <= 63) /\ i \in 64 .. 127 /\ i \notin 128 .. 191
    BY <1>3, SMT
  <2>2. instruction_direct[i] = direct_from_40[i] /\ instruction_prefixed[i] = prefixed_from_40[i]
    BY <1>1, <2>1, SMTT(60) DEF instruction_direct, instruction_prefixed
  <2> QED BY <1>3, <2>2, From40, PrefixedDecode
<1>4. CASE i \in 128 .. 191
  <2>1. ~(i <= 63) /\ i \notin 64 .. 127 /\ i \in 128 .. 191
    BY <1>4, SMT
  <2>2. instruction_direct[i] = direct_from_80[i] /\ instruction_prefixed[i] = prefixed_from_80[i]
    BY <1>1, <2>1, SMTT(60) DEF instruction_direct, instruction_prefixed
  <2> QED BY <1>4, <2>2, From80, PrefixedDecode
<1>5. CASE i \in 192 .. 255
  <2>1. ~(i <= 63) /\ i \notin 64 .. 127 /\ i \notin 128 .. 191
    BY <1>5, SMT
  <2>2. instruction_direct[i] = direct_from_C0[i] /\ instruction_prefixed[i] = prefixed_from_C0[i]
    BY <1>1, <2>1, SMTT(60) DEF instruction_direct, instruction_prefixed
  <2> QED BY <1>5, <2>2, FromC0, PrefixedDecode
<1> QED BY <1>1, <1>2, <1>3, <1>4, <1>5, SMT

(* So has the instruction that is fetched.                                  *)
LEMMA FetchedDecoded ==
  ASSUME NEW c, Typed(c)
  PROVE  Decoded(Fetched(c))
<1>1. \A a : cpu_read_at_idx(c, a) \in Byte
  BY SMT DEF Typed, cpu_read_at_idx, Byte
<1> QED BY <1>1, TablesDecode DEF Fetched, cpu_read_data_after_opcode

-----------------------------------------------------------------------------
(* Types.  Whatever bytes a program puts in memory, every operator that    *)
(* returns a CPU returns one that the code can hold: first the fields, one *)
(* at a time.                                                              *)
Memory(m) == DOMAIN m \subseteq Word /\ \A a \in DOMAIN m : m[a] \in Byte

LEMMA TypedFields ==
  ASSUME NEW c, Typed(c)
  PROVE  /\ \A r \in RegCodes : c.reg[r] \in Byte
         /\ c.F \in FlagBytes /\ c.PC \in Word /\ c.SP \in Word /\ c.idle_time \in Byte
         /\ c.IME \in BOOLEAN /\ c.HALT \in BOOLEAN /\ c.write_listener \in Word /\ Memory(c.mem)
  BY DEF Typed, Memory

LEMMA FieldsSet ==
  ASSUME NEW c, Typed(c)
  PROVE  /\ \A r \in RegCodes, v \in Byte : Typed([c EXCEPT !.reg[r] = v])
         /\ \A v \in FlagBytes : Typed([c EXCEPT !.F = v])
         /\ \A v \in Word : Typed([c EXCEPT !.PC = v]) /\ Typed([c EXCEPT !.SP = v])
         /\ \A v \in Word : Typed([c EXCEPT !.write_listener = v])
         /\ \A v \in BOOLEAN : Typed([c EXCEPT !.IME = v]) /\ Typed([c EXCEPT !.HALT = v])
         /\ \A v \in Byte : Typed([c EXCEPT !.idle_time = v])
<1>1. \A r \in RegCodes, v \in Byte : Typed([c EXCEPT !.reg[r] = v])
  BY SMT DEF Typed
<1>2. \A v \in FlagBytes : Typed([c EXCEPT !.F = v])
  BY SMT DEF Typed
<1>3. \A v \in Word : Typed([c EXCEPT !.PC = v]) /\ Typed([c EXCEPT !.SP = v])
  BY SMT DEF Typed
<1>4. \A v \in Word : Typed([c EXCEPT !.write_listener = v])
  BY SMT DEF Typed
<1>5. \A v \in BOOLEAN : Typed([c EXCEPT !.IME = v]) /\ Typed([c EXCEPT !.HALT = v])
  BY SMT DEF Typed
<1>6. \A v \in Byte : Typed([c EXCEPT !.idle_time = v])
  BY SMT DEF Typed
<1> QED BY <1>1, <1>2, <1>3, <1>4, <1>5, <1>6

LEMMA MemorySet ==
  ASSUME NEW c, Typed(c), NEW m, Memory(m)
  PROVE  Typed([c EXCEPT !.mem = m])
  BY SMT DEF Typed, Memory

LEMMA ByteSet ==
  ASSUME NEW m, Memory(m), NEW a \in Word, NEW b \in Byte
  PROVE  Memory(SetByte(m, a, b))
  BY SMT DEF Memory, SetByte

-----------------------------------------------------------------------------
(* Two bytes and a word; sums that wrap; addresses by name.                *)
LEMMA Merged ==
  ASSUME NEW x \in Byte, NEW y \in Byte
  PROVE  merge8(x, y) = 256 * y + x /\ merge8(x, y) \in Word
<1>1. x \in 0 .. 255 /\ y \in 0 .. 255
  BY DEF Byte
<1>2. x % 256 = x /\ y % 256 = y
  BY <1>1, SMT
<1>3. merge8(x, y) = 256 * y + x
  BY <1>2 DEF merge8
<1> QED BY <1>1, <1>3, InWord, SMT

LEMMA WordsHalved ==
  ASSUME NEW w \in Word
  PROVE  lsb8(w) \in Byte /\ msb8(w) \in Byte
<1>1. PICK lo \in 0 .. 255, hi \in 0 .. 255 : BytesAre(w, lo, hi)
  BY BytesOf
<1> QED BY <1>1 DEF BytesAre, Byte

LEMMA Wrapped ==
  ASSUME NEW a \in Int, NEW b \in Int
  PROVE  Plus16(a, b) \in Word
<1>1. PICK n \in Int : n = a + b
  OBVIOUS
<1>2. n % 65536 \in Int /\ 0 <= n % 65536 /\ n % 65536 <= 65535
  BY SMT
<1>3. n % 65536 \in Word
  BY <1>2, InWord
<1> QED BY <1>1, <1>3 DEF Plus16

LEMMA Constants ==
  /\ REG_A_CODE \in RegCodes /\ REG_C_CODE \in RegCodes
  /\ REG_IF \in Word /\ REG_IE \in Word
<1>1. /\ REG_IF \in Int /\ 0 <= REG_IF /\ REG_IF <= 65535
      /\ REG_IE \in Int /\ 0 <= REG_IE /\ REG_IE <= 65535
  BY SMT DEF REG_IF, REG_IE
<1>2. REG_IF \in Word /\ REG_IE \in Word
  BY <1>1, InWord
<1>3. REG_A_CODE \in RegCodes /\ REG_C_CODE \in RegCodes
  BY SMT DEF RegCodes, REG_A_CODE, REG_C_CODE
<1> QED BY <1>2, <1>3

LEMMA FlagsAreBytes == FlagBytes \subseteq Byte
  BY SMT DEF FlagBytes, Byte

(* What registers and memory give is a byte or a word: the low nibble of F *)
(* is not among what cpu_reg_pair_set can put there.                       *)
LEMMA Reads ==
  ASSUME NEW c, Typed(c)
  PROVE  /\ \A r : cpu_reg_get(c, r) \in Byte
         /\ \A p \in 0 .. 3 : cpu_reg_pair_get(c, p) \in Word /\ cpu_reg_pair_SP_get(c, p) \in Word
         /\ HL(c) \in Word
         /\ \A a : cpu_read_at_idx(c, a) \in Byte
         /\ \A a : cpu_read16_at_idx(c, a) \in Word
         /\ cpu_read_data_after_opcode(c) \in Byte /\ cpu_read_addr_after_opcode(c) \in Word
<1>1. 0 \in Byte
  BY SMT DEF Byte
<1>2. \A r \in RegCodes : c.reg[r] \in Byte
  BY TypedFields
<1>3. \A r : cpu_reg_get(c, r) \in Byte
  BY <1>1, <1>2 DEF cpu_reg_get
<1>4. \A a : cpu_read_at_idx(c, a) \in Byte
  BY <1>1, TypedFields DEF cpu_read_at_idx, Memory
<1>5. \A a : cpu_read16_at_idx(c, a) \in Word
  <2>1. 255 \in Word
    BY InWord, SMT
  <2>2. TAKE a
  <2>3. merge8(cpu_read_at_idx(c, a), cpu_read_at_idx(c, a + 1)) \in Word
    BY <1>4, Merged
  <2> QED BY <2>1, <2>3, SMT DEF cpu_read16_at_idx
<1>6. ASSUME NEW p \in 0 .. 3
      PROVE  cpu_reg_pair_get(c, p) \in Word
  <2>1. CASE p = REG_AF_CODE
    <3>1. c.F \in Byte /\ c.reg[REG_A_CODE] \in Byte
      BY <1>2, TypedFields, FlagsAreBytes, Constants
    <3> QED BY <2>1, <3>1, Merged DEF cpu_reg_pair_get
  <2>2. CASE p # REG_AF_CODE
    <3>1. 2 * p + 1 \in RegCodes /\ 2 * p \in RegCodes
      BY <2>2, SMT DEF RegCodes, REG_AF_CODE
    <3>2. c.reg[2 * p + 1] \in Byte /\ c.reg[2 * p] \in Byte
      BY <1>2, <3>1
    <3> QED BY <2>2, <3>2, Merged DEF cpu_reg_pair_get
  <2> QED BY <2>1, <2>2
<1>7. ASSUME NEW p \in 0 .. 3
      PROVE  cpu_reg_pair_SP_get(c, p) \in Word
  BY <1>6, TypedFields DEF cpu_reg_pair_SP_get
<1>8. HL(c) \in Word
  BY <1>6, SMT DEF HL, REG_HL_CODE
<1> QED BY <1>3, <1>4, <1>5, <1>6, <1>7, <1>8
        DEF cpu_read_data_after_opcode, cpu_read_addr_after_opcode

LEMMA FlagsPartIsOne ==
  ASSUME NEW v \in Word
  PROVE  FlagsPart(v) \in FlagBytes
<1>1. PICK x \in 0 .. 255 : x = v % 256
  <2>1. v \in Int /\ v % 256 \in 0 .. 255
    BY InWord, SMT
  <2> QED BY <2>1
<1>2. PICK i \in 0 .. 15 : i = x \div 16
  BY SMT
<1>3. x - (x % 16) = 16 * i
  BY <1>2, SMT
<1>4. v \in Int
  BY InWord
<1>5. v % 16 = x % 16
  BY <1>1, <1>4, SMT
<1> QED BY <1>1, <1>3, <1>5 DEF FlagsPart, lsb8, lsb4, FlagBytes

(* cpu_reg_set, the writes, the pushes and the pops.                       *)
LEMMA RegistersSet ==
  ASSUME NEW c, Typed(c)
  PROVE  /\ \A r : \A v \in Byte : Typed(cpu_reg_set(c, r, v))
         /\ \A p \in 0 .. 3, w \in Word :
              Typed(cpu_reg_pair_set(c, p, w)) /\ Typed(cpu_reg_pair_SP_set(c, p, w))
<1>1. ASSUME NEW r, NEW v \in Byte
      PROVE  Typed(cpu_reg_set(c, r, v))
  BY FieldsSet DEF cpu_reg_set
<1>2. ASSUME NEW p \in 0 .. 3, NEW w \in Word
      PROVE  Typed(cpu_reg_pair_set(c, p, w))
  <2>1. lsb8(w) \in Byte /\ msb8(w) \in Byte /\ FlagsPart(w) \in FlagBytes
    BY WordsHalved, FlagsPartIsOne
  <2>2. CASE p = REG_AF_CODE
    <3>1. Typed([c EXCEPT !.reg[REG_A_CODE] = msb8(w)])
      BY <2>1, FieldsSet, Constants
    <3>2. Typed([[c EXCEPT !.reg[REG_A_CODE] = msb8(w)] EXCEPT !.F = FlagsPart(w)])
      BY <2>1, <3>1, FieldsSet
    <3> QED BY <2>2, <3>2 DEF cpu_reg_pair_set
  <2>3. CASE p # REG_AF_CODE
    <3>1. 2 * p + 1 \in RegCodes /\ 2 * p \in RegCodes
      BY <2>3, SMT DEF RegCodes, REG_AF_CODE
    <3>2. PICK lo \in RegCodes, hi \in RegCodes : lo = 2 * p + 1 /\ hi = 2 * p
      BY <3>1
    <3>3. Typed([c EXCEPT !.reg[lo] = lsb8(w)])
      BY <2>1, FieldsSet
    <3>4. Typed([[c EXCEPT !.reg[lo] = lsb8(w)] EXCEPT !.reg[hi] = msb8(w)])
      BY <2>1, <3>3, FieldsSet
    <3> QED BY <2>3, <3>2, <3>4 DEF cpu_reg_pair_set
  <2> QED BY <2>2, <2>3
<1> QED BY <1>1, <1>2, FieldsSet DEF cpu_reg_pair_SP_set

LEMMA Writes ==
  ASSUME NEW c, Typed(c), NEW a \in Word
  PROVE  /\ \A b \in Byte : Typed(cpu_write_at_idx(c, a, b))
         /\ \A w \in Word : Typed(cpu_write16_at_idx(c, a, w))
<1>1. Typed([c EXCEPT !.write_listener = a]) /\ Memory(c.mem)
  BY FieldsSet, TypedFields
<1>2. ASSUME NEW m, Memory(m)
      PROVE  Typed([c EXCEPT !.write_listener = a, !.mem = m])
  BY <1>1, <1>2, MemorySet
<1>3. ASSUME NEW b \in Byte
      PROVE  Typed(cpu_write_at_idx(c, a, b))
  BY <1>1, <1>2, ByteSet DEF cpu_write_at_idx
<1>4. ASSUME NEW w \in Word
      PROVE  Typed(cpu_write16_at_idx(c, a, w))
  <2>1. lsb8(w) \in Byte /\ msb8(w) \in Byte
    BY WordsHalved
  <2>2. PICK m : m = IF a = 65535 THEN c.mem
                     ELSE SetByte(SetByte(c.mem, a, lsb8(w)), a + 1, msb8(w))
    BY SMT
  <2>3. Memory(m)
    <3>1. CASE a = 65535
      BY <1>1, <2>2, <3>1, SMT
    <3>2. CASE a # 65535
      <4>1. a + 1 \in Word
        BY <3>2, InWord, SMT
      <4>2. Memory(SetByte(SetByte(c.mem, a, lsb8(w)), a + 1, msb8(w)))
        BY <1>1, <2>1, <4>1, ByteSet
      <4> QED BY <2>2, <3>2, <4>2, SMT
    <3> QED BY <3>1, <3>2
  <2>4. cpu_write16_at_idx(c, a, w) = [c EXCEPT !.write_listener = a, !.mem = m]
    BY <2>2, SMT DEF cpu_write16_at_idx
  <2> QED BY <1>2, <2>3, <2>4
<1> QED BY <1>3, <1>4

LEMMA Pushes ==
  ASSUME NEW c, Typed(c), NEW w \in Word
  PROVE  Typed(cpu_SP_push(c, w)) /\ Typed(PushChecked(c, w))
<1>1. ASSUME NEW d, Typed(d)
      PROVE  Typed(cpu_SP_push(d, w))
  <2>1. PICK sp \in Word : sp = Plus16(d.SP, -2)
    <3>1. d.SP \in Int /\ -2 \in Int
      BY <1>1, TypedFields, InWord
    <3> QED BY <3>1, Wrapped
  <2>2. Typed([d EXCEPT !.SP = sp])
    BY <1>1, FieldsSet
  <2> QED BY <2>1, <2>2, Writes DEF cpu_SP_push
<1> QED BY <1>1 DEF PushChecked

LEMMA Pops ==
  ASSUME NEW c, Typed(c)
  PROVE  cpu_SP_pop(c).word \in Word /\ Typed(cpu_SP_pop(c).cpu)
<1>1. Plus16(c.SP, 2) \in Word
  <2>1. c.SP \in Int /\ 2 \in Int
    BY TypedFields, InWord
  <2> QED BY <2>1, Wrapped
<1>2. Typed([c EXCEPT !.SP = Plus16(c.SP, 2)])
  BY <1>1, FieldsSet
<1> QED BY <1>2, Reads DEF cpu_SP_pop

-----------------------------------------------------------------------------
(* cpu_combine_alu_flags: whichever of the four sources each flag has, F is*)
(* a sum of the four and nothing else.                                     *)
LEMMA FlagsCombined ==
  ASSUME NEW c, Typed(c), NEW srcs, NEW f,
         \A i \in 1 .. 4 : srcs[i] \in {"ALU", "CLEAR", "SET", "CPU"}
  PROVE  Typed(cpu_combine_alu_flags(c, srcs, f))
<1>1. ASSUME NEW src \in {"ALU", "CLEAR", "SET", "CPU"}, NEW flag \in Nat, NEW old
      PROVE  \E b \in 0 .. 1 : flags_src_value(src, flag, old, f) = flag * b
  <2>1. flags_src_value(src, flag, old, f) \in {0, flag}
    BY DEF flags_src_value, get_flag
  <2>2. 0 = flag * 0 /\ flag = flag * 1
    BY SMT
  <2> QED BY <2>1, <2>2
<1>2. PICK z \in 0 .. 1 : flags_src_value(srcs[1], FLAG_Z, c.F, f) = 128 * z
  BY <1>1 DEF FLAG_Z
<1>3. PICK n \in 0 .. 1 : flags_src_value(srcs[2], FLAG_N, c.F, f) = 64 * n
  BY <1>1 DEF FLAG_N
<1>4. PICK h \in 0 .. 1 : flags_src_value(srcs[3], FLAG_H, c.F, f) = 32 * h
  BY <1>1 DEF FLAG_H
<1>5. PICK d \in 0 .. 1 : flags_src_value(srcs[4], FLAG_C, c.F, f) = 16 * d
  BY <1>1 DEF FLAG_C
<1>6. PICK v \in FlagBytes : v = 128 * z + 64 * n + 32 * h + 16 * d
  <2>1. PICK i \in 0 .. 15 : i = 8 * z + 4 * n + 2 * h + d
    BY SMT
  <2>2. 128 * z + 64 * n + 32 * h + 16 * d = 16 * i
    BY <2>1, SMT
  <2> QED BY <2>2 DEF FlagBytes
<1>7. cpu_combine_alu_flags(c, srcs, f) = [c EXCEPT !.F = v]
  BY <1>2, <1>3, <1>4, <1>5, <1>6 DEF cpu_combine_alu_flags
<1> QED BY <1>7, FieldsSet

(* The sources of flags the instructions use.                              *)
Sources == { ADD_FLAGS_SRC, INC_FLAGS_SRC, SUB_FLAGS_SRC, DEC_FLAGS_SRC, ROT_FLAGS_SRC,
             SHIFT_FLAGS_SRC, ADD_HL_FLAGS_SRC, BIT_FLAGS_SRC }

LEMMA SourcesListed ==
  /\ ADD_FLAGS_SRC \in Sources /\ INC_FLAGS_SRC \in Sources /\ SUB_FLAGS_SRC \in Sources
  /\ DEC_FLAGS_SRC \in Sources /\ ROT_FLAGS_SRC \in Sources /\ SHIFT_FLAGS_SRC \in Sources
  /\ ADD_HL_FLAGS_SRC \in Sources /\ BIT_FLAGS_SRC \in Sources
  /\ \A srcs \in Sources : \A i \in 1 .. 4 : srcs[i] \in {"ALU", "CLEAR", "SET", "CPU"}
<1>1. /\ ADD_FLAGS_SRC \in Sources /\ INC_FLAGS_SRC \in Sources /\ SUB_FLAGS_SRC \in Sources
      /\ DEC_FLAGS_SRC \in Sources /\ ROT_FLAGS_SRC \in Sources /\ SHIFT_FLAGS_SRC \in Sources
      /\ ADD_HL_FLAGS_SRC \in Sources /\ BIT_FLAGS_SRC \in Sources
  BY DEF Sources
<1>2. \A srcs \in Sources : \A i \in 1 .. 4 : srcs[i] \in {"ALU", "CLEAR", "SET", "CPU"}
  BY SMT DEF Sources, ADD_FLAGS_SRC, INC_FLAGS_SRC, SUB_FLAGS_SRC, DEC_FLAGS_SRC,
             ROT_FLAGS_SRC, SHIFT_FLAGS_SRC, ADD_HL_FLAGS_SRC, BIT_FLAGS_SRC
<1> QED BY <1>1, <1>2

LEMMA ToRegisters ==
  ASSUME NEW c, Typed(c), NEW r, NEW out, out.value \in Byte, NEW srcs \in Sources
  PROVE  Typed(ToReg(c, r, out, srcs))
<1>1. lsb8(out.value) \in Byte
  BY SMT DEF lsb8, Byte
<1>2. Typed(cpu_reg_set(c, r, lsb8(out.value)))
  BY <1>1, RegistersSet
<1> QED BY <1>2, SourcesListed, FlagsCombined DEF ToReg

(* The fields of any opcode are codes of registers, pairs and bits.        *)
LEMMA OpcodeFields ==
  ASSUME NEW op \in Byte
  PROVE  /\ extract_reg(op, 0) \in 0 .. 7 /\ extract_reg(op, 3) \in 0 .. 7
         /\ extract_reg_pair(op) \in 0 .. 3 /\ extract_n3(op) \in 0 .. 7
         /\ extract_rot_dir(op) \in {LEFT, RIGHT}
         /\ extract_HL_increment(op) \in {-1, 1}
         /\ Signed(op) \in -128 .. 127
<1>1. op \in 0 .. 255
  BY DEF Byte
<1>2. /\ CLAMP07(0) = 0 /\ Power2[0] = 1 /\ CLAMP07(3) = 3 /\ Power2[3] = 8
      /\ CLAMP07(4) = 4 /\ Power2[4] = 16
  BY SMT DEF CLAMP07, Power2
<1>3. extract_reg(op, 0) = (op \div 1) % 8 /\ extract_reg(op, 3) = (op \div 8) % 8
      /\ extract_reg_pair(op) = ((op \div 16) % 8) % 4
  BY <1>2, Zenon DEF extract_reg, extract_reg_pair
<1>4. (op \div 1) % 8 \in 0 .. 7 /\ (op \div 8) % 8 \in 0 .. 7 /\ ((op \div 16) % 8) % 4 \in 0 .. 3
  BY <1>1, SMT
<1>5. Signed(op) \in -128 .. 127
  BY <1>1, SMT DEF Signed
<1> QED BY <1>3, <1>4, <1>5 DEF extract_n3, extract_rot_dir, extract_HL_increment

(* The ALU gives bytes, alu_add16_high a word.                             *)
LEMMA Value ==
  ASSUME NEW out, NEW v, NEW f, out = Output(v, f)
  PROVE  out.value = v
  BY SMT DEF Output

LEMMA NineBits ==
  ASSUME NEW x \in Byte, NEW k \in Bit
  PROVE  ((2 * x) + k) % 256 \in Byte /\ (x + (256 * k)) \div 2 \in Byte
<1>1. x \in 0 .. 255 /\ k \in 0 .. 1
  BY DEF Byte, Bit
<1>2. ((2 * x) + k) % 256 \in 0 .. 255
  BY <1>1, SMT
<1>3. PICK right \in 0 .. 511 : right = x + (256 * k)
  BY <1>1, SMT
<1>4. right \div 2 \in 0 .. 255
  BY SMT
<1> QED BY <1>2, <1>3, <1>4 DEF Byte

LEMMA Outputs ==
  ASSUME NEW x \in Byte
  PROVE  /\ \A y \in Byte, k \in Bit : alu_add8(x, y, k).value \in Byte
         /\ \A y \in Byte, k \in Bit : alu_sub8(x, y, k).value \in Byte
         /\ alu_shift(x, LEFT).value \in Byte /\ alu_shift(x, RIGHT).value \in Byte
         /\ \A f : /\ alu_carry_rotate(x, LEFT, f).value \in Byte
                   /\ alu_carry_rotate(x, RIGHT, f).value \in Byte
<1>1. x \in 0 .. 255
  BY DEF Byte
<1>2. ASSUME NEW y \in Byte, NEW k \in Bit
      PROVE  alu_add8(x, y, k).value \in Byte
  <2>1. alu_add8(x, y, k).value = (x + y + k) % 256
    <3>1. SumIsExact(x, y, k)
      BY SumsAreExact
    <3>2. PICK f : f = Flags((x + y + k) % 256 = 0, FALSE,
                             (x % 16) + (y % 16) + k > 15, x + y + k > 255)
      OBVIOUS
    <3>3. alu_add8(x, y, k) = Output((x + y + k) % 256, f)
      BY <3>1, <3>2, Zenon DEF SumIsExact
    <3> QED BY <3>3, Value
  <2>2. (x + y + k) % 256 \in Byte
    BY SMT DEF Byte, Bit
  <2> QED BY <2>1, <2>2
<1>3. ASSUME NEW y \in Byte, NEW k \in Bit
      PROVE  alu_sub8(x, y, k).value \in Byte
  <2>1. alu_sub8(x, y, k).value = (x - y - k) % 256
    <3>1. DifferenceIsExact(x, y, k)
      BY DifferencesAreExact
    <3>2. PICK f : f = Flags((x - y - k) % 256 = 0, TRUE,
                             (x % 16) - (y % 16) - k < 0, x - y - k < 0)
      OBVIOUS
    <3>3. alu_sub8(x, y, k) = Output((x - y - k) % 256, f)
      BY <3>1, <3>2, Zenon DEF DifferenceIsExact
    <3> QED BY <3>3, Value
  <2>2. (x - y - k) % 256 \in Byte
    BY SMT DEF Byte, Bit
  <2> QED BY <2>1, <2>2
<1>4. alu_shift(x, LEFT).value = (2 * x) % 256 /\ alu_shift(x, RIGHT).value = x \div 2
  <2>1. ShiftIsExact(x)
    BY ShiftsAreExact
  <2>2. PICK fl : fl = Flags((2 * x) % 256 = 0, FALSE, FALSE, x > 127)
    OBVIOUS
  <2>3. PICK fr : fr = Flags(x \div 2 = 0, FALSE, FALSE, x % 2 = 1)
    OBVIOUS
  <2>4. alu_shift(x, LEFT) = Output((2 * x) % 256, fl)
    BY <2>1, <2>2, Zenon DEF ShiftIsExact
  <2>5. alu_shift(x, RIGHT) = Output(x \div 2, fr)
    BY <2>1, <2>3, Zenon DEF ShiftIsExact
  <2> QED BY <2>4, <2>5, Value
<1>5. (2 * x) % 256 \in Byte /\ x \div 2 \in Byte
  BY <1>1, SMT DEF Byte
<1>6. ASSUME NEW f
      PROVE  /\ alu_carry_rotate(x, LEFT, f).value \in Byte
             /\ alu_carry_rotate(x, RIGHT, f).value \in Byte
  <2>1. PICK k \in Bit : get_flag(f, FLAG_C) = IF k = 1 THEN FLAG_C ELSE 0
    BY SMT DEF get_flag, FLAG_C, Bit
  <2>2. PICK g : g = IF k = 1 THEN FLAG_C ELSE 0
    OBVIOUS
  <2>3. get_flag(g, FLAG_C) = get_flag(f, FLAG_C)
    BY <2>1, <2>2, SMT DEF get_flag, FLAG_C, Bit
  <2>4. \A dir : alu_carry_rotate(x, dir, f) = alu_carry_rotate(x, dir, g)
    BY <2>3 DEF alu_carry_rotate
  <2>5. /\ alu_carry_rotate(x, LEFT, g).value = ((2 * x) + k) % 256
        /\ alu_carry_rotate(x, RIGHT, g).value = (x + (256 * k)) \div 2
    <3>1. CarryRotationIsExact(x, k)
      BY CarryRotationsAreExact
    <3>2. PICK fl : fl = Flags(((2 * x) + k) % 256 = 0, FALSE, FALSE, (2 * x) + k > 255)
      OBVIOUS
    <3>3. PICK fr : fr = Flags((x + (256 * k)) \div 2 = 0, FALSE, FALSE, x % 2 = 1)
      OBVIOUS
    <3>4. alu_carry_rotate(x, LEFT, g) = Output(((2 * x) + k) % 256, fl)
      BY <2>2, <3>1, <3>2, Zenon DEF CarryRotationIsExact
    <3>5. alu_carry_rotate(x, RIGHT, g) = Output((x + (256 * k)) \div 2, fr)
      BY <2>2, <3>1, <3>3, Zenon DEF CarryRotationIsExact
    <3> QED BY <3>4, <3>5, Value
  <2> QED BY <2>4, <2>5, NineBits
<1> QED BY <1>2, <1>3, <1>4, <1>5, <1>6

LEMMA WideOutput ==
  ASSUME NEW x \in Word, NEW y \in Word
  PROVE  alu_add16_high(x, y).value \in Word /\ alu_add16_high(x, y).value = (x + y) % 65536
<1>1. WideSumIsExact(x, y)
  BY WideSumsAreExact
<1>2. PICK v : v = (x + y) % 65536
  BY SMT
<1>3. v \in Word
  <2>1. x \in Int /\ y \in Int
    BY InWord
  <2>2. v \in Int /\ 0 <= v /\ v <= 65535
    BY <1>2, <2>1, SMT
  <2> QED BY <2>2, InWord
<1>4. alu_add16_high(x, y)
        = Output(v, Flags(v = 0, FALSE, (x % 4096) + (y % 4096) > 4095, x + y > 65535))
  BY <1>1, <1>2, SMT DEF WideSumIsExact
<1>5. alu_add16_high(x, y).value = v
  BY <1>4, SMT DEF Output
<1> QED BY <1>2, <1>3, <1>5

(* Setting or clearing a bit of a byte leaves a byte.                      *)
PowersOf2 == {1, 2, 4, 8, 16, 32, 64, 128}

LEMMA BitPowers ==
  ASSUME NEW n \in 0 .. 7
  PROVE  Power2[CLAMP07(n)] \in PowersOf2
<1>1. CLAMP07(n) = n
  BY DEF CLAMP07
<1>2. /\ Power2[0] = 1 /\ Power2[1] = 2 /\ Power2[2] = 4 /\ Power2[3] = 8
      /\ Power2[4] = 16 /\ Power2[5] = 32 /\ Power2[6] = 64 /\ Power2[7] = 128
  BY SMT DEF Power2
<1>3. n = 0 \/ n = 1 \/ n = 2 \/ n = 3 \/ n = 4 \/ n = 5 \/ n = 6 \/ n = 7
  BY SMT
<1> QED BY <1>1, <1>2, <1>3, SMT DEF PowersOf2

LEMMA BitAt ==
  ASSUME NEW x \in 0 .. 255, NEW p \in PowersOf2
  PROVE  /\ (x \div p) % 2 \in 0 .. 1
         /\ (x \div p) % 2 # 1 => x + p \in 0 .. 255
         /\ (x \div p) % 2 # 0 => x - p \in 0 .. 255
<1>1. CASE p = 1
  BY <1>1, SMT
<1>2. CASE p = 2
  BY <1>2, SMT
<1>3. CASE p = 4
  BY <1>3, SMT
<1>4. CASE p = 8
  BY <1>4, SMT
<1>5. CASE p = 16
  BY <1>5, SMT
<1>6. CASE p = 32
  BY <1>6, SMT
<1>7. CASE p = 64
  BY <1>7, SMT
<1>8. CASE p = 128
  BY <1>8, SMT
<1> QED BY <1>1, <1>2, <1>3, <1>4, <1>5, <1>6, <1>7, <1>8 DEF PowersOf2

LEMMA BitsEdited ==
  ASSUME NEW x \in Byte, NEW n \in 0 .. 7
  PROVE  bit_set(x, n) \in Byte /\ bit_unset(x, n) \in Byte /\ bit_get(x, n) \in Bit
<1>1. x \in 0 .. 255
  BY DEF Byte
<1>2. PICK p \in PowersOf2 : p = Power2[CLAMP07(n)]
  BY BitPowers
<1>3. PICK b : b = (x \div p) % 2
  OBVIOUS
<1>4. bit_get(x, n) = b
  BY <1>2, <1>3 DEF bit_get
<1>5. b \in 0 .. 1 /\ (b # 1 => x + p \in 0 .. 255) /\ (b # 0 => x - p \in 0 .. 255)
  BY <1>1, <1>3, BitAt
<1> QED BY <1>1, <1>2, <1>4, <1>5 DEF bit_set, bit_unset, Byte, Bit

LEMMA SetOrReset ==
  ASSUME NEW x \in Byte, NEW op \in Byte
  PROVE  do_set_or_res(op, x) \in Byte
  BY OpcodeFields, BitsEdited DEF do_set_or_res

-----------------------------------------------------------------------------
(* cpu_dispatch_alu, cpu_dispatch_storage, and cpu_dispatch's own families.*)
LEMMA AluTyped ==
  ASSUME NEW lu, Decoded(lu), NEW c, Typed(c)
  PROVE  Typed(cpu_dispatch_alu(lu, c))
<1>1. lu.opcode \in Byte
  BY DEF Decoded
<1>2. PICK op \in Byte, p \in 0 .. 3, A \in Byte :
        op = lu.opcode /\ p = extract_reg_pair(op) /\ A = c.reg[REG_A_CODE]
  <2>1. c.reg[REG_A_CODE] \in Byte
    BY TypedFields, Constants
  <2>2. extract_reg_pair(lu.opcode) \in 0 .. 3
    BY <1>1, OpcodeFields
  <2> QED BY <1>1, <2>1, <2>2
<1> DEFINE r  == extract_reg(op, 0)
           r3 == extract_reg(op, 3)
<1>3. PICK x \in Byte, x3 \in Byte, m \in Byte, d \in Byte, hl \in Word, w \in Word :
        /\ x = cpu_reg_get(c, r) /\ x3 = cpu_reg_get(c, r3) /\ hl = HL(c)
        /\ m = cpu_read_at_idx(c, HL(c)) /\ d = cpu_read_data_after_opcode(c)
        /\ w = cpu_reg_pair_SP_get(c, p)
  BY Reads
<1>4. 0 \in Bit /\ 1 \in Byte /\ 0 \in Byte /\ 1 \in Word /\ extract_carry(c, op) \in Bit
      /\ Bit \subseteq Byte
  <2>1. 1 \in Word
    BY InWord, SMT
  <2> QED BY <2>1, SMT DEF Bit, Byte, extract_carry
<1>5. CASE lu.family \in {"ADD_A_HLR", "ADD_A_N8", "ADD_A_R8"}
  <2>1. \E y \in Byte : cpu_dispatch_alu(lu, c)
          = ToReg(c, REG_A_CODE, alu_add8(A, y, extract_carry(c, op)), ADD_FLAGS_SRC)
    BY <1>2, <1>3, <1>5, SMT DEF cpu_dispatch_alu, AddToA
  <2>2. PICK y \in Byte : cpu_dispatch_alu(lu, c)
          = ToReg(c, REG_A_CODE, alu_add8(A, y, extract_carry(c, op)), ADD_FLAGS_SRC)
    BY <2>1
  <2>3. alu_add8(A, y, extract_carry(c, op)).value \in Byte
    BY <1>4, Outputs
  <2> QED BY <2>2, <2>3, ToRegisters, SourcesListed
<1>6. CASE lu.family = "INC_HLR"
  <2>1. cpu_dispatch_alu(lu, c)
          = cpu_combine_alu_flags(cpu_write_at_idx(c, hl, alu_add8(m, 1, 0).value),
                                  INC_FLAGS_SRC, alu_add8(m, 1, 0).flags)
    BY <1>3, <1>6 DEF cpu_dispatch_alu
  <2>2. Typed(cpu_write_at_idx(c, hl, alu_add8(m, 1, 0).value))
    BY <1>4, Outputs, Writes
  <2> QED BY <2>1, <2>2, SourcesListed, FlagsCombined
<1>7. CASE lu.family \in {"INC_R8", "DEC_R8"}
  <2>1. \/ cpu_dispatch_alu(lu, c) = ToReg(c, r3, alu_add8(x3, 1, 0), INC_FLAGS_SRC)
        \/ cpu_dispatch_alu(lu, c) = ToReg(c, r3, alu_sub8(x3, 1, 0), DEC_FLAGS_SRC)
    BY <1>2, <1>3, <1>7 DEF cpu_dispatch_alu
  <2>2. alu_add8(x3, 1, 0).value \in Byte /\ alu_sub8(x3, 1, 0).value \in Byte
    BY <1>4, Outputs
  <2> QED BY <2>1, <2>2, ToRegisters, SourcesListed
<1>8. CASE lu.family = "ADD_HL_R16SP"
  <2>1. cpu_dispatch_alu(lu, c)
          = cpu_combine_alu_flags(cpu_reg_pair_set(c, REG_HL_CODE, alu_add16_high(hl, w).value),
                                  ADD_HL_FLAGS_SRC, alu_add16_high(hl, w).flags)
    BY <1>2, <1>3, <1>8 DEF cpu_dispatch_alu
  <2>2. REG_HL_CODE \in 0 .. 3
    BY DEF REG_HL_CODE
  <2>3. alu_add16_high(hl, w).value \in Word
    BY WideOutput
  <2>4. Typed(cpu_reg_pair_set(c, REG_HL_CODE, alu_add16_high(hl, w).value))
    BY <2>2, <2>3, RegistersSet
  <2> QED BY <2>1, <2>4, SourcesListed, FlagsCombined
<1>9. CASE lu.family = "INC_R16SP"
  <2>1. cpu_dispatch_alu(lu, c) = cpu_reg_pair_SP_set(c, p, alu_add16_high(1, w).value)
    BY <1>2, <1>3, <1>9 DEF cpu_dispatch_alu
  <2>2. alu_add16_high(1, w).value \in Word
    BY <1>4, WideOutput
  <2> QED BY <2>1, <2>2, RegistersSet
<1>10. CASE lu.family \in {"CP_A_R8", "CP_A_N8"}
  <2>1. \E f : cpu_dispatch_alu(lu, c) = cpu_combine_alu_flags(c, SUB_FLAGS_SRC, f)
    BY <1>10 DEF cpu_dispatch_alu
  <2> QED BY <2>1, SourcesListed, FlagsCombined
<1>11. CASE lu.family = "SLA_R8"
  <2>1. cpu_dispatch_alu(lu, c) = ToReg(c, r, alu_shift(x, LEFT), SHIFT_FLAGS_SRC)
    BY <1>2, <1>3, <1>11 DEF cpu_dispatch_alu
  <2> QED BY <2>1, Outputs, ToRegisters, SourcesListed
<1>12. CASE lu.family = "ROT_R8"
  <2>1. cpu_dispatch_alu(lu, c)
          = ToReg(c, r, alu_carry_rotate(x, extract_rot_dir(op), c.F), ROT_FLAGS_SRC)
    BY <1>2, <1>3, <1>12 DEF cpu_dispatch_alu
  <2>2. extract_rot_dir(op) \in {LEFT, RIGHT}
    BY OpcodeFields
  <2>3. alu_carry_rotate(x, extract_rot_dir(op), c.F).value \in Byte
    BY <2>2, Outputs
  <2> QED BY <2>1, <2>3, ToRegisters, SourcesListed
<1>13. CASE lu.family = "BIT_U3_R8"
  <2>1. \E f : cpu_dispatch_alu(lu, c) = cpu_combine_alu_flags(c, BIT_FLAGS_SRC, f)
    BY <1>13 DEF cpu_dispatch_alu
  <2> QED BY <2>1, SourcesListed, FlagsCombined
<1>14. CASE lu.family = "CHG_U3_R8"
  <2>1. cpu_dispatch_alu(lu, c) = cpu_reg_set(c, r, do_set_or_res(op, x))
    BY <1>2, <1>3, <1>14 DEF cpu_dispatch_alu
  <2> QED BY <2>1, SetOrReset, RegistersSet
<1>15. CASE lu.family \notin {"ADD_A_HLR", "ADD_A_N8", "ADD_A_R8", "INC_HLR", "INC_R8", "DEC_R8",
                             "ADD_HL_R16SP", "INC_R16SP", "CP_A_R8", "CP_A_N8", "SLA_R8", "ROT_R8",
                             "BIT_U3_R8", "CHG_U3_R8"}
  <2>1. cpu_dispatch_alu(lu, c) = c
    BY <1>15 DEF cpu_dispatch_alu
  <2> QED BY <2>1
<1> QED BY <1>5, <1>6, <1>7, <1>8, <1>9, <1>10, <1>11, <1>12, <1>13, <1>14, <1>15

LEMMA Addresses ==
  ASSUME NEW lu, NEW c, Typed(c)
  PROVE  Address(lu, c) \in Word
<1>1. ASSUME NEW b \in Byte
      PROVE  REGISTERS_START + b \in Word
  BY InWord, SMT DEF REGISTERS_START, Byte
<1>2. c.reg[REG_C_CODE] \in Byte
  BY TypedFields, Constants
<1>3. REG_BC_CODE \in 0 .. 3 /\ REG_DE_CODE \in 0 .. 3
  BY DEF REG_BC_CODE, REG_DE_CODE
<1>4. PICK bc \in Word, de \in Word, hl \in Word, w \in Word, rc \in Word, rn \in Word :
        /\ bc = cpu_reg_pair_get(c, REG_BC_CODE) /\ de = cpu_reg_pair_get(c, REG_DE_CODE)
        /\ hl = HL(c) /\ w = cpu_read_addr_after_opcode(c)
        /\ rc = REGISTERS_START + c.reg[REG_C_CODE]
        /\ rn = REGISTERS_START + cpu_read_data_after_opcode(c)
  <2>1. cpu_reg_pair_get(c, REG_BC_CODE) \in Word /\ cpu_reg_pair_get(c, REG_DE_CODE) \in Word
    BY <1>3, Reads
  <2>2. HL(c) \in Word /\ cpu_read_addr_after_opcode(c) \in Word
    BY Reads
  <2>3. REGISTERS_START + cpu_read_data_after_opcode(c) \in Word
    BY <1>1, Reads
  <2>4. REGISTERS_START + c.reg[REG_C_CODE] \in Word
    BY <1>1, <1>2
  <2> QED BY <2>1, <2>2, <2>3, <2>4
<1>5. Address(lu, c) \in {bc, de, hl, w, rc, rn}
  BY <1>4 DEF Address
<1> QED BY <1>5

LEMMA HLUpdates ==
  ASSUME NEW lu, Decoded(lu), NEW c, Typed(c)
  PROVE  Typed(Updated(lu, c))
<1>1. REG_HL_CODE \in 0 .. 3
  BY DEF REG_HL_CODE
<1>2. Plus16(HL(c), extract_HL_increment(lu.opcode)) \in Word
  <2>1. HL(c) \in Int /\ extract_HL_increment(lu.opcode) \in Int
    BY Reads, InWord, SMT DEF extract_HL_increment
  <2> QED BY <2>1, Wrapped
<1>3. Typed(HLUpdated(lu, c))
  BY <1>1, <1>2, RegistersSet DEF HLUpdated
<1> QED BY <1>3 DEF Updated

LEMMA StorageTyped ==
  ASSUME NEW lu, Decoded(lu), lu.family \in StorageFamilies, NEW c, Typed(c)
  PROVE  Typed(cpu_dispatch_storage(lu, c))
<1>1. lu.opcode \in Byte
  BY DEF Decoded
<1>2. PICK op \in Byte, p \in 0 .. 3, A \in Byte :
        op = lu.opcode /\ p = extract_reg_pair(op) /\ A = c.reg[REG_A_CODE]
  <2>1. c.reg[REG_A_CODE] \in Byte
    BY TypedFields, Constants
  <2>2. extract_reg_pair(lu.opcode) \in 0 .. 3
    BY <1>1, OpcodeFields
  <2> QED BY <1>1, <2>1, <2>2
<1> DEFINE r  == extract_reg(op, 0)
           r3 == extract_reg(op, 3)
<1>3. PICK x \in Byte, m \in Byte, d \in Byte,
           addr \in Word, hl \in Word, w \in Word, q \in Word, sp \in Word :
        /\ x = cpu_reg_get(c, r) /\ hl = HL(c) /\ addr = Address(lu, c)
        /\ m = cpu_read_at_idx(c, addr) /\ d = cpu_read_data_after_opcode(c)
        /\ w = cpu_read_addr_after_opcode(c) /\ q = cpu_reg_pair_get(c, p) /\ sp = c.SP
  BY Reads, Addresses, TypedFields
<1>4. REG_AF_CODE \in 0 .. 3
  BY DEF REG_AF_CODE
<1>5. CASE lu.family \in LoadsOfA
  <2>1. cpu_dispatch_storage(lu, c) = Updated(lu, cpu_reg_set(c, REG_A_CODE, m))
    BY <1>3, <1>5 DEF cpu_dispatch_storage, LoadsOfA, StoresOfA
  <2> QED BY <2>1, RegistersSet, HLUpdates
<1>6. CASE lu.family \in StoresOfA
  <2>1. lu.family \notin LoadsOfA
    BY <1>6 DEF StoresOfA, LoadsOfA
  <2>2. cpu_dispatch_storage(lu, c) = Updated(lu, cpu_write_at_idx(c, addr, A))
    BY <1>2, <1>3, <1>6, <2>1 DEF cpu_dispatch_storage, LoadsOfA, StoresOfA
  <2> QED BY <2>2, Writes, HLUpdates
<1>7. CASE lu.family \in StorageFamilies \ (LoadsOfA \cup StoresOfA)
  <2>1. lu.family \notin LoadsOfA /\ lu.family \notin StoresOfA
    BY <1>7
  <2>2. CASE lu.family \in {"LD_HLR_N8", "LD_HLR_R8"}
    <3>1. \/ cpu_dispatch_storage(lu, c) = cpu_write_at_idx(c, hl, d)
          \/ cpu_dispatch_storage(lu, c) = cpu_write_at_idx(c, hl, x)
      BY <1>2, <1>3, <2>1, <2>2 DEF cpu_dispatch_storage
    <3> QED BY <3>1, Writes
  <2>3. CASE lu.family = "LD_N16R_SP"
    <3>1. cpu_dispatch_storage(lu, c) = cpu_write16_at_idx(c, w, sp)
      BY <1>3, <2>1, <2>3 DEF cpu_dispatch_storage
    <3> QED BY <3>1, Writes
  <2>4. CASE lu.family \in {"LD_R16SP_N16", "LD_SP_HL"}
    <3>1. \/ cpu_dispatch_storage(lu, c) = cpu_reg_pair_SP_set(c, p, w)
          \/ cpu_dispatch_storage(lu, c) = cpu_reg_pair_SP_set(c, REG_AF_CODE, hl)
      BY <1>2, <1>3, <2>1, <2>4 DEF cpu_dispatch_storage
    <3> QED BY <1>4, <3>1, RegistersSet
  <2>5. CASE lu.family \in {"LD_R8_HLR", "LD_R8_N8", "LD_R8_R8"}
    <3>1. \/ cpu_dispatch_storage(lu, c) = cpu_reg_set(c, r3, m)
          \/ cpu_dispatch_storage(lu, c) = cpu_reg_set(c, r3, d)
          \/ cpu_dispatch_storage(lu, c) = cpu_reg_set(c, r3, x)
      BY <1>2, <1>3, <2>1, <2>5 DEF cpu_dispatch_storage
    <3> QED BY <3>1, RegistersSet
  <2>6. CASE lu.family = "POP_R16"
    <3>1. cpu_dispatch_storage(lu, c) = cpu_reg_pair_set(cpu_SP_pop(c).cpu, p, cpu_SP_pop(c).word)
      BY <1>2, <2>1, <2>6 DEF cpu_dispatch_storage, PopPair
    <3> QED BY <3>1, Pops, RegistersSet
  <2>7. CASE lu.family = "PUSH_R16"
    <3>1. cpu_dispatch_storage(lu, c) = cpu_SP_push(c, q)
      BY <1>2, <1>3, <2>1, <2>7 DEF cpu_dispatch_storage
    <3> QED BY <3>1, Pushes
  <2> QED BY <1>7, <2>1, <2>2, <2>3, <2>4, <2>5, <2>6, <2>7 DEF StorageFamilies
<1> QED BY <1>5, <1>6, <1>7

-----------------------------------------------------------------------------
LEMMA PCSet ==
  ASSUME NEW c, Typed(c), NEW v \in Word
  PROVE  Typed([c EXCEPT !.PC = v])
  BY FieldsSet

LEMMA JumpsTyped ==
  ASSUME NEW lu, Decoded(lu), NEW c, Typed(c), NEW word \in Word, NEW byte \in Byte,
         lu.family \in ControlFamilies \ {"EDI", "HALT", "STOP", "NOP"}
  PROVE  Typed(Jumped(lu, c, word, byte))
<1>1. PICK w, d : /\ d = cpu_SP_pop(c).cpu /\ w = cpu_SP_pop(c).word
                  /\ Typed(d) /\ w \in Word
  BY Pops
<1>2. PICK pushed, checked : /\ pushed = cpu_SP_push(c, c.PC) /\ checked = PushChecked(c, c.PC)
                             /\ Typed(pushed) /\ Typed(checked)
  BY Pushes, TypedFields
<1>3. PICK hl \in Word, rel \in Word, rst \in Word :
        /\ hl = HL(c) /\ rel = Plus16(c.PC, Signed(byte)) /\ rst = 8 * extract_n3(lu.opcode)
  <2>1. HL(c) \in Word
    BY Reads
  <2>2. Plus16(c.PC, Signed(byte)) \in Word
    <3>1. c.PC \in Int /\ Signed(byte) \in Int
      BY TypedFields, InWord, OpcodeFields
    <3> QED BY <3>1, Wrapped
  <2>3. 8 * extract_n3(lu.opcode) \in Word
    <3>1. extract_n3(lu.opcode) \in 0 .. 7
      BY OpcodeFields DEF Decoded
    <3> QED BY <3>1, InWord, SMT
  <2> QED BY <2>1, <2>2, <2>3
<1>4. CASE lu.family \in {"JP_N16", "JP_CC_N16", "JP_HL", "JR_E8", "JR_CC_E8"}
  <2>1. PICK t \in {word, hl, rel} : Jumped(lu, c, word, byte) = [c EXCEPT !.PC = t]
    BY <1>3, <1>4 DEF Jumped
  <2> QED BY <2>1, PCSet
<1>5. CASE lu.family = "CALL_N16"
  <2>1. Jumped(lu, c, word, byte) = [pushed EXCEPT !.PC = word]
    BY <1>2, <1>5 DEF Jumped
  <2> QED BY <1>2, <2>1, PCSet
<1>6. CASE lu.family \in {"CALL_CC_N16", "RST_U3"}
  <2>1. \/ Jumped(lu, c, word, byte) = checked
        \/ Jumped(lu, c, word, byte) = [checked EXCEPT !.PC = word]
        \/ Jumped(lu, c, word, byte) = [checked EXCEPT !.PC = rst]
    BY <1>2, <1>3, <1>6 DEF Jumped
  <2> QED BY <1>2, <2>1, PCSet
<1>7. CASE lu.family \in {"RET", "RET_CC"}
  <2>1. Jumped(lu, c, word, byte) = [d EXCEPT !.PC = w]
    BY <1>1, <1>7 DEF Jumped
  <2> QED BY <1>1, <2>1, PCSet
<1>8. CASE lu.family = "RETI"
  <2>1. PICK e : e = [d EXCEPT !.IME = TRUE]
    OBVIOUS
  <2>2. Typed(e)
    BY <1>1, <2>1, FieldsSet
  <2>3. Typed([e EXCEPT !.PC = w])
    BY <1>1, <2>2, PCSet
  <2>4. Jumped(lu, c, word, byte) = [e EXCEPT !.PC = w]
    BY <1>1, <1>8, <2>1 DEF Jumped
  <2> QED BY <2>3, <2>4
<1> QED BY <1>4, <1>5, <1>6, <1>7, <1>8 DEF ControlFamilies, ConditionalFamilies

LEMMA ControlTyped ==
  ASSUME NEW lu, Decoded(lu), NEW c, Typed(c), NEW word \in Word, NEW byte \in Byte,
         lu.family \in ControlFamilies
  PROVE  Typed(Control(lu, c, word, byte))
<1>1. Typed([c EXCEPT !.IME = (lu.opcode = OpcodeEI)]) /\ Typed([c EXCEPT !.HALT = TRUE])
  BY FieldsSet
<1>2. CASE lu.family = "EDI"
  BY <1>1, <1>2 DEF Control, ConditionalFamilies
<1>3. CASE lu.family = "HALT"
  BY <1>1, <1>3 DEF Control, ConditionalFamilies
<1>4. CASE lu.family \in {"STOP", "NOP"}
  BY <1>4 DEF Control, ConditionalFamilies
<1>5. CASE lu.family \notin {"EDI", "HALT", "STOP", "NOP"}
  <2>1. Control(lu, c, word, byte) \in {c, Jumped(lu, c, word, byte)}
    BY <1>5 DEF Control
  <2>2. Typed(Jumped(lu, c, word, byte))
    BY <1>5, JumpsTyped
  <2> QED BY <2>1, <2>2
<1> QED BY <1>2, <1>3, <1>4, <1>5

LEMMA DispatchTyped ==
  ASSUME NEW lu, Decoded(lu), NEW c, Typed(c)
  PROVE  Typed(cpu_dispatch(lu, c))
<1>1. PICK idle \in Byte, pc \in Word : idle = (lu.cycles - 1) % 256 /\ pc = Plus16(c.PC, lu.bytes)
  <2>1. (lu.cycles - 1) % 256 \in Byte
    BY SMT DEF Decoded, Byte
  <2>2. Plus16(c.PC, lu.bytes) \in Word
    <3>1. c.PC \in Int /\ lu.bytes \in Int
      BY TypedFields, InWord DEF Decoded
    <3> QED BY <3>1, Wrapped
  <2> QED BY <2>1, <2>2
<1>2. PICK after, back : /\ after = [c EXCEPT !.idle_time = idle, !.PC = pc]
                         /\ back = [after EXCEPT !.PC = c.PC]
  OBVIOUS
<1>3. Typed(after) /\ Typed(back)
  <2>1. Typed([c EXCEPT !.idle_time = idle])
    BY FieldsSet
  <2>2. Typed(after)
    BY <1>2, <2>1, FieldsSet
  <2> QED BY <1>2, <2>2, FieldsSet, TypedFields
<1>4. PICK word \in Word, byte \in Byte :
        word = cpu_read_addr_after_opcode(c) /\ byte = cpu_read_data_after_opcode(c)
  BY Reads
<1>5. cpu_dispatch(lu, c)
        = CASE lu.family \in AluFamilies     -> cpu_dispatch_alu(lu, back)
            [] lu.family \in StorageFamilies -> cpu_dispatch_storage(lu, back)
            [] lu.family \in ControlFamilies -> Control(lu, after, word, byte)
            [] OTHER -> after
  BY <1>1, <1>2, <1>4 DEF cpu_dispatch
<1>6. Typed(cpu_dispatch_alu(lu, back))
  BY <1>3, AluTyped
<1>7. lu.family \in StorageFamilies => Typed(cpu_dispatch_storage(lu, back))
  BY <1>3, StorageTyped
<1>8. lu.family \in ControlFamilies => Typed(Control(lu, after, word, byte))
  BY <1>3, ControlTyped
<1> QED BY <1>3, <1>5, <1>6, <1>7, <1>8

-----------------------------------------------------------------------------
(* The lowest of the pending lines exists; handling it, a whole cycle, and a*)
(* request from outside keep the types.                                    *)
LEMMA LeastLine ==
  ASSUME NEW c, Pending(c) # {}
  PROVE  /\ find_interrupt_index(c) \in Pending(c) /\ find_interrupt_index(c) \in 0 .. 7
         /\ \A j \in Pending(c) : find_interrupt_index(c) <= j
<1>1. \E i \in Pending(c) : \A j \in Pending(c) : i <= j
  <2>1. PICK P : P = Pending(c)
    OBVIOUS
  <2>2. P \subseteq 0 .. 7 /\ P # {}
    BY <2>1 DEF Pending
  <2>3. \E i \in P : \A j \in P : i <= j
    <3> SUFFICES ASSUME \A i \in P : \E j \in P : j < i
                 PROVE  FALSE
      BY <2>2
    <3>1. 0 \notin P
      BY <2>2
    <3>2. 1 \notin P
      BY <2>2, <3>1
    <3>3. 2 \notin P
      BY <2>2, <3>1, <3>2
    <3>4. 3 \notin P
      BY <2>2, <3>1, <3>2, <3>3
    <3>5. 4 \notin P
      BY <2>2, <3>1, <3>2, <3>3, <3>4
    <3>6. 5 \notin P
      BY <2>2, <3>1, <3>2, <3>3, <3>4, <3>5
    <3>7. 6 \notin P
      BY <2>2, <3>1, <3>2, <3>3, <3>4, <3>5, <3>6
    <3>8. 7 \notin P
      BY <2>2, <3>1, <3>2, <3>3, <3>4, <3>5, <3>6, <3>7
    <3>9. PICK k \in P : k \in 0 .. 7
      BY <2>2
    <3>10. k \in {0, 1, 2, 3, 4, 5, 6, 7}
      BY <3>9
    <3> QED BY <3>1, <3>2, <3>3, <3>4, <3>5, <3>6, <3>7, <3>8, <3>9, <3>10
  <2> QED BY <2>1, <2>3
<1>2. /\ find_interrupt_index(c) \in Pending(c)
      /\ \A j \in Pending(c) : find_interrupt_index(c) <= j
  BY <1>1 DEF find_interrupt_index
<1>3. Pending(c) \subseteq 0 .. 7
  BY DEF Pending
<1> QED BY <1>2, <1>3

LEMMA InterruptTyped ==
  ASSUME NEW c, Typed(c), Pending(c) # {}
  PROVE  Typed(handle_interruption(c))
<1>1. PICK i \in 0 .. 7 : i = find_interrupt_index(c)
  BY LeastLine
<1>2. PICK e : e = [c EXCEPT !.IME = FALSE] /\ Typed(e)
  BY FieldsSet
<1>3. CASE i >= interruptionNb
  BY <1>1, <1>2, <1>3 DEF handle_interruption
<1>4. CASE ~(i >= interruptionNb)
  <2>1. bit_unset(IfByte(c), i) \in Byte
    BY Reads, BitsEdited DEF IfByte
  <2>2. PICK m : m = SetByte(c.mem, REG_IF, bit_unset(IfByte(c), i)) /\ Memory(m)
    BY <2>1, TypedFields, Constants, ByteSet
  <2>3. PICK cleared : cleared = [c EXCEPT !.IME = FALSE, !.mem = m] /\ Typed(cleared)
    BY <1>2, <2>2, MemorySet
  <2>4. PICK pushed : pushed = cpu_SP_push(cleared, c.PC) /\ Typed(pushed)
    BY <2>3, Pushes, TypedFields
  <2>5. PICK pc \in Word, idle \in Byte : pc = 64 + 8 * i /\ idle = (pushed.idle_time + 5) % 256
    <3>1. 64 + 8 * i \in Word
      BY InWord, SMT
    <3>2. (pushed.idle_time + 5) % 256 \in Byte
      <4>1. PICK t \in Byte : t = pushed.idle_time
        BY <2>4, TypedFields
      <4>2. (t + 5) % 256 \in Byte
        BY SMT DEF Byte
      <4> QED BY <4>1, <4>2
    <3> QED BY <3>1, <3>2
  <2>6. PICK p : p = [pushed EXCEPT !.PC = pc] /\ Typed(p)
    BY <2>4, PCSet
  <2>7. Typed([p EXCEPT !.idle_time = idle])
    BY <2>6, FieldsSet
  <2>8. handle_interruption(c) = [pushed EXCEPT !.PC = pc, !.idle_time = idle]
    BY <1>1, <1>4, <2>2, <2>3, <2>4, <2>5 DEF handle_interruption
  <2> QED BY <2>6, <2>7, <2>8
<1> QED BY <1>3, <1>4

LEMMA CyclesTyped ==
  ASSUME NEW c, Typed(c)
  PROVE  Typed(Cycled(c))
<1>1. ASSUME NEW d, Typed(d)
      PROVE  Typed(cpu_do_cycle(d))
  <2>1. PICK lu : lu = Fetched(d) /\ Decoded(lu)
    BY <1>1, FetchedDecoded
  <2>2. PICK once : once = cpu_dispatch(lu, d) /\ Typed(once)
    BY <1>1, <2>1, DispatchTyped
  <2>3. Typed(cpu_dispatch(lu, once))
    BY <2>1, <2>2, DispatchTyped
  <2>4. Pending(d) # {} => Typed(handle_interruption(d))
    BY <1>1, InterruptTyped
  <2> QED BY <2>1, <2>2, <2>3, <2>4 DEF cpu_do_cycle
<1>2. PICK quiet : quiet = [c EXCEPT !.write_listener = 0] /\ Typed(quiet)
  <2>1. 0 \in Word
    BY InWord, SMT
  <2> QED BY <2>1, FieldsSet
<1>3. c.idle_time # 0 => Typed([quiet EXCEPT !.idle_time = quiet.idle_time - 1])
  <2>1. quiet.idle_time = c.idle_time
    BY <1>2 DEF Typed
  <2>2. c.idle_time # 0 => c.idle_time - 1 \in Byte
    BY TypedFields, SMT DEF Byte
  <2> QED BY <1>2, <2>1, <2>2, FieldsSet
<1>4. PICK awake : awake = [quiet EXCEPT !.HALT = FALSE] /\ Typed(awake)
  BY <1>2, FieldsSet
<1>5. Typed(cpu_do_cycle(quiet)) /\ Typed(cpu_do_cycle(awake))
  BY <1>1, <1>2, <1>4
<1> QED BY <1>2, <1>3, <1>4, <1>5 DEF Cycled

LEMMA RequestsTyped ==
  ASSUME NEW c, Typed(c), NEW i \in 0 .. interruptionNb - 1
  PROVE  Typed([c EXCEPT !.mem = SetByte(c.mem, REG_IF, bit_set(IfByte(c), i))])
<1>1. i \in 0 .. 7
  BY DEF interruptionNb
<1>2. bit_set(IfByte(c), i) \in Byte
  BY <1>1, Reads, BitsEdited DEF IfByte
<1> QED BY <1>2, TypedFields, Constants, ByteSet, MemorySet

(* Whatever the program, from a CPU that cpu_init or a test leaves, every  *)
(* cycle and every interrupt request leaves a CPU that the code can hold: no*)
(* register outside a byte, no PC or SP outside 16 bits, and never a bit in*)
(* the low nibble of F, however the instructions follow one another.       *)
THEOREM TypeCorrect == TypeOK /\ [][Next]_cpu => []TypeOK
<1>1. ASSUME TypeOK, [Next]_cpu
      PROVE  TypeOK'
  <2>1. CASE cpu_cycle
    BY <1>1, <2>1, CyclesTyped DEF TypeOK, cpu_cycle
  <2>2. ASSUME NEW i \in 0 .. interruptionNb - 1, cpu_request_interrupt(i)
        PROVE  TypeOK'
    BY <1>1, <2>2, RequestsTyped DEF TypeOK, cpu_request_interrupt
  <2>3. CASE UNCHANGED cpu
    BY <1>1, <2>3 DEF TypeOK
  <2> QED BY <1>1, <2>1, <2>2, <2>3 DEF Next
<1> QED BY <1>1, PTL

-----------------------------------------------------------------------------
(* What is pushed is popped: the two bytes of a word are read back from where*)
(* cpu_write16_at_idx put them.                                            *)
LEMMA HalvesMerged ==
  ASSUME NEW w \in Word
  PROVE  lsb8(w) \in Byte /\ msb8(w) \in Byte /\ merge8(lsb8(w), msb8(w)) = w
<1>1. PICK lo \in 0 .. 255, hi \in 0 .. 255 : BytesAre(w, lo, hi)
  BY BytesOf
<1>2. lo \in Byte /\ hi \in Byte
  BY DEF Byte
<1>3. merge8(lo, hi) = w
  BY <1>1, <1>2, Merged DEF BytesAre
<1> QED BY <1>1, <1>2, <1>3 DEF BytesAre

LEMMA WordReadBack ==
  ASSUME NEW c, Typed(c), NEW a \in Word, a # 65535, NEW w \in Word
  PROVE  cpu_read16_at_idx(cpu_write16_at_idx(c, a, w), a) = w
<1>1. PICK lo \in Byte, hi \in Byte : lo = lsb8(w) /\ hi = msb8(w)
  BY HalvesMerged, SMT
<1>2. merge8(lo, hi) = w
  BY <1>1, HalvesMerged, SMT
<1>3. PICK b : b = a + 1
  OBVIOUS
<1>4. b # a
  BY <1>3, InWord, SMT
<1>5. PICK m : m = SetByte(SetByte(c.mem, a, lo), b, hi)
  OBVIOUS
<1>6. a \in DOMAIN m /\ m[a] = lo /\ b \in DOMAIN m /\ m[b] = hi
  BY <1>4, <1>5, SMT DEF SetByte
<1>7. PICK d : d = cpu_write16_at_idx(c, a, w)
  OBVIOUS
<1>8. d.mem = m
  <2>1. lo = lsb8(w) /\ hi = msb8(w)
    BY <1>1
  <2>2. d = [c EXCEPT !.write_listener = a, !.mem = m]
    BY <1>3, <1>5, <1>7, <2>1, SMT DEF cpu_write16_at_idx
  <2> QED BY <2>2, SMT DEF Typed
<1>9. cpu_read_at_idx(d, a) = lo /\ cpu_read_at_idx(d, b) = hi
  BY <1>6, <1>8 DEF cpu_read_at_idx
<1> QED BY <1>2, <1>3, <1>7, <1>9, SMT DEF cpu_read16_at_idx

(* SP wraps below 0 and comes back; registers and flags are left alone.    *)
LEMMA PushedAndPopped ==
  ASSUME NEW c, Typed(c), ~PushFails(c), NEW w \in Word
  PROVE  LET popped == cpu_SP_pop(cpu_SP_push(c, w))
         IN  /\ popped.word = w /\ popped.cpu.SP = c.SP
             /\ popped.cpu.reg = c.reg /\ popped.cpu.F = c.F
<1>1. PICK sp \in Word : sp = Plus16(c.SP, -2)
  <2>1. c.SP \in Int /\ -2 \in Int
    BY TypedFields, InWord
  <2> QED BY <2>1, Wrapped
<1>2. sp # 65535
  BY <1>1 DEF PushFails
<1>3. Plus16(sp, 2) = c.SP
  <2>1. c.SP \in Int /\ 0 <= c.SP /\ c.SP <= 65535
    BY TypedFields, InWord
  <2>2. sp = (c.SP - 2) % 65536
    <3>1. PICK n \in Int : n = c.SP
      BY <2>1
    <3>2. Plus16(n, -2) = (n - 2) % 65536
      BY SMT DEF Plus16
    <3> QED BY <1>1, <3>1, <3>2
  <2>3. (((c.SP - 2) % 65536) + 2) % 65536 = c.SP
    BY <2>1, SMT
  <2> QED BY <2>2, <2>3 DEF Plus16
<1>4. PICK lower : lower = [c EXCEPT !.SP = sp]
  OBVIOUS
<1>5. Typed(lower)
  BY <1>4, FieldsSet
<1>6. PICK pushed : pushed = cpu_write16_at_idx(lower, sp, w)
  OBVIOUS
<1>7. pushed = cpu_SP_push(c, w)
  BY <1>1, <1>4, <1>6 DEF cpu_SP_push
<1>8. pushed.SP = sp /\ pushed.reg = c.reg /\ pushed.F = c.F
  <2>1. PICK m : m = SetByte(SetByte(lower.mem, sp, lsb8(w)), sp + 1, msb8(w))
    OBVIOUS
  <2>2. pushed = [lower EXCEPT !.write_listener = sp, !.mem = m]
    BY <1>2, <1>6, <2>1, SMT DEF cpu_write16_at_idx
  <2> QED BY <1>4, <2>2, SMT DEF Typed
<1>9. cpu_read16_at_idx(pushed, sp) = w
  BY <1>2, <1>5, <1>6, WordReadBack
<1>10. Typed(pushed)
  BY <1>5, <1>6, Writes
<1>11. PICK up : up = [pushed EXCEPT !.SP = c.SP]
  OBVIOUS
<1>12. up.SP = c.SP /\ up.reg = c.reg /\ up.F = c.F
  BY <1>8, <1>10, <1>11, SMT DEF Typed
<1>13. cpu_SP_pop(pushed) = [word |-> w, cpu |-> up]
  BY <1>3, <1>8, <1>9, <1>11 DEF cpu_SP_pop
<1> QED BY <1>7, <1>12, <1>13

(* PUSH and POP of a pair name the same pair.                              *)
LEMMA PairOpcodes ==
  ASSUME NEW p \in DOMAIN PairCode
  PROVE  /\ OP_PUSH[p].family = "PUSH_R16" /\ extract_reg_pair(OP_PUSH[p].opcode) = PairCode[p]
         /\ OP_POP[p].family = "POP_R16" /\ extract_reg_pair(OP_POP[p].opcode) = PairCode[p]
<1>1. PICK k \in 0 .. 3 : k = PairCode[p]
  BY OperandCodes
<1>2. CLAMP07(4) = 4 /\ Power2[4] = 16
  BY SMT DEF CLAMP07, Power2
<1>3. \A op : extract_reg_pair(op) = ((op \div 16) % 8) % 4
  BY <1>2, Zenon DEF extract_reg, extract_reg_pair
<1>4. (((197 + 16 * k) \div 16) % 8) % 4 = k /\ (((193 + 16 * k) \div 16) % 8) % 4 = k
  BY SMT
<1>5. /\ OP_PUSH[p].family = "PUSH_R16" /\ OP_PUSH[p].opcode = 197 + (16 * k)
      /\ OP_POP[p].family = "POP_R16" /\ OP_POP[p].opcode = 193 + (16 * k)
  BY <1>1, SMT DEF OP_PUSH, OP_POP, OfPair, Direct, INSTR_DEF
<1>6. extract_reg_pair(OP_PUSH[p].opcode) = k /\ extract_reg_pair(OP_POP[p].opcode) = k
  BY <1>3, <1>4, <1>5
<1> QED BY <1>1, <1>5, <1>6

(* Setting a pair to what it holds changes nothing, F included.            *)
LEMMA PairSetAsItIs ==
  ASSUME NEW c, Typed(c), NEW d, d.reg = c.reg, d.F = c.F, NEW p \in 0 .. 3
  PROVE  LET e == cpu_reg_pair_set(d, p, cpu_reg_pair_get(c, p))
         IN  e.reg = c.reg /\ e.F = c.F
<1>1. PICK v \in Word : v = cpu_reg_pair_get(c, p)
  BY Reads
<1>2. CASE p = REG_AF_CODE
  <2>1. PICK f \in Byte, a \in Byte : f = c.F /\ a = c.reg[REG_A_CODE]
    BY TypedFields, FlagsAreBytes, Constants
  <2>2. v = 256 * a + f
    BY <1>1, <1>2, <2>1, Merged DEF cpu_reg_pair_get
  <2>3. msb8(v) = a /\ FlagsPart(v) = f
    <3>1. PICK i \in 0 .. 15 : f = 16 * i
      BY <2>1, TypedFields DEF FlagBytes
    <3>2. a \in 0 .. 255
      BY DEF Byte
    <3>3. ((256 * a + 16 * i) % 65536) \div 256 = a
      BY <3>2, SMT
    <3>4. (256 * a + 16 * i) % 256 = 16 * i /\ (256 * a + 16 * i) % 16 = 0
      BY <3>2, SMT
    <3> QED BY <2>2, <3>1, <3>3, <3>4, SMT DEF msb8, FlagsPart, lsb8, lsb4
  <2>4. PICK e : e = [d EXCEPT !.reg[REG_A_CODE] = a, !.F = f]
    OBVIOUS
  <2>5. e = cpu_reg_pair_set(d, p, v)
    BY <1>2, <2>3, <2>4 DEF cpu_reg_pair_set
  <2>6. e.reg = c.reg /\ e.F = c.F
    BY <2>1, <2>4, Constants, SMT DEF Typed
  <2> QED BY <1>1, <2>5, <2>6
<1>3. CASE p # REG_AF_CODE
  <2>1. PICK lo \in RegCodes, hi \in RegCodes : lo = 2 * p + 1 /\ hi = 2 * p
    BY <1>3, SMT DEF RegCodes, REG_AF_CODE
  <2>2. PICK x \in Byte, y \in Byte : x = c.reg[lo] /\ y = c.reg[hi]
    BY TypedFields
  <2>3. v = 256 * y + x
    BY <1>1, <1>3, <2>1, <2>2, Merged DEF cpu_reg_pair_get
  <2>4. lsb8(v) = x /\ msb8(v) = y
    <3>1. x \in 0 .. 255 /\ y \in 0 .. 255
      BY DEF Byte
    <3> QED BY <2>3, <3>1, SMT DEF lsb8, msb8
  <2>5. PICK e : e = [d EXCEPT !.reg[lo] = x, !.reg[hi] = y]
    OBVIOUS
  <2>6. e = cpu_reg_pair_set(d, p, v)
    BY <1>3, <2>1, <2>4, <2>5 DEF cpu_reg_pair_set
  <2>7. e.reg = c.reg /\ e.F = c.F
    BY <2>2, <2>5, SMT DEF Typed
  <2> QED BY <1>1, <2>6, <2>7
<1> QED BY <1>2, <1>3

(* In every CPU the code can hold.                                         *)
LEMMA TypedPop == TypeOK => PopUndoesPush
<1> SUFFICES ASSUME TypeOK, ~PushFails(cpu), NEW p \in DOMAIN PairCode
             PROVE  LET pushed == cpu_dispatch_storage(OP_PUSH[p], cpu)
                        popped == cpu_dispatch_storage(OP_POP[p], pushed)
                    IN  popped.reg = cpu.reg /\ popped.F = cpu.F /\ popped.SP = cpu.SP
  BY DEF PopUndoesPush
<1>1. Typed(cpu)
  BY DEF TypeOK
<1>2. PICK k \in 0 .. 3 : k = PairCode[p]
  BY OperandCodes
<1>3. PICK w \in Word : w = cpu_reg_pair_get(cpu, k)
  BY <1>1, Reads
<1>4. PICK pushed : pushed = cpu_SP_push(cpu, w)
  OBVIOUS
<1>5. cpu_dispatch_storage(OP_PUSH[p], cpu) = pushed
  BY <1>2, <1>3, <1>4, PairOpcodes DEF cpu_dispatch_storage, LoadsOfA, StoresOfA
<1>6. PICK d : d = cpu_SP_pop(pushed).cpu
  OBVIOUS
<1>7. cpu_SP_pop(pushed).word = w /\ d.SP = cpu.SP /\ d.reg = cpu.reg /\ d.F = cpu.F
  BY <1>1, <1>4, <1>6, PushedAndPopped
<1>8. PICK e : e = cpu_reg_pair_set(d, k, w)
  OBVIOUS
<1>9. cpu_dispatch_storage(OP_POP[p], pushed) = e
  <2>1. PopPair(OP_POP[p], pushed) = e
    BY <1>2, <1>6, <1>7, <1>8, PairOpcodes DEF PopPair
  <2> QED BY <2>1, PairOpcodes DEF cpu_dispatch_storage, LoadsOfA, StoresOfA
<1>10. e.reg = cpu.reg /\ e.F = cpu.F
  BY <1>1, <1>3, <1>7, <1>8, PairSetAsItIs
<1>11. e.SP = d.SP
  <2>1. Typed(d)
    BY <1>1, <1>3, <1>4, <1>6, Pushes, Pops
  <2>2. CASE k = REG_AF_CODE
    <3>1. PICK a, f : e = [d EXCEPT !.reg[REG_A_CODE] = a, !.F = f]
      BY <1>8, <2>2 DEF cpu_reg_pair_set
    <3> QED BY <2>1, <3>1, SMT DEF Typed
  <2>3. CASE k # REG_AF_CODE
    <3>1. PICK x, y : e = [d EXCEPT !.reg[2 * k + 1] = x, !.reg[2 * k] = y]
      BY <1>8, <2>3 DEF cpu_reg_pair_set
    <3> QED BY <2>1, <3>1, SMT DEF Typed
  <2> QED BY <2>2, <2>3
<1> QED BY <1>5, <1>7, <1>9, <1>10, <1>11

(* After any run of any program, PUSH then POP of a pair gives the pair, F *)
(* and SP back, unless the push falls on the top address (PUSH_R16, POP_R16).*)
THEOREM WhatIsPushedIsPopped == TypeOK /\ [][Next]_cpu => []PopUndoesPush
BY TypeCorrect, TypedPop, PTL

(* After any run of any program, the ALU's results on what A holds are those*)
(* of the arithmetic of numbers, the flags of carries and borrows included.*)
THEOREM ArithmeticStaysExact == TypeOK /\ [][Next]_cpu => []ArithmeticIsExact
BY TypeCorrect, TypedArithmetic, PTL

-----------------------------------------------------------------------------
(* A byte and its eight bits.                                              *)
Eight(p, q, r, s, t, u, v, w) ==
  p + 2 * q + 4 * r + 8 * s + 16 * t + 32 * u + 64 * v + 128 * w

OfBits(b) == Eight(b[0], b[1], b[2], b[3], b[4], b[5], b[6], b[7])

EightBits == [0 .. 7 -> Bit]

LEMMA PowersListed ==
  /\ Power2[CLAMP07(0)] = 1 /\ Power2[CLAMP07(1)] = 2 /\ Power2[CLAMP07(2)] = 4
  /\ Power2[CLAMP07(3)] = 8 /\ Power2[CLAMP07(4)] = 16 /\ Power2[CLAMP07(5)] = 32
  /\ Power2[CLAMP07(6)] = 64 /\ Power2[CLAMP07(7)] = 128
<1>1. \A n \in 0 .. 7 : CLAMP07(n) = n
  BY DEF CLAMP07
<1>2. /\ Power2[0] = 1 /\ Power2[1] = 2 /\ Power2[2] = 4 /\ Power2[3] = 8
      /\ Power2[4] = 16 /\ Power2[5] = 32 /\ Power2[6] = 64 /\ Power2[7] = 128
  BY SMT DEF Power2
<1> QED BY <1>1, <1>2, SMT

LEMMA SumOfBits ==
  ASSUME NEW p \in 0 .. 1, NEW q \in 0 .. 1, NEW r \in 0 .. 1, NEW s \in 0 .. 1,
         NEW t \in 0 .. 1, NEW u \in 0 .. 1, NEW v \in 0 .. 1, NEW w \in 0 .. 1
  PROVE  LET x == Eight(p, q, r, s, t, u, v, w)
         IN  /\ (x \div 1) % 2 = p /\ (x \div 2) % 2 = q /\ (x \div 4) % 2 = r /\ (x \div 8) % 2 = s
             /\ (x \div 16) % 2 = t /\ (x \div 32) % 2 = u /\ (x \div 64) % 2 = v
             /\ (x \div 128) % 2 = w /\ x \in 0 .. 255
<1>0. PICK x \in Int : x = Eight(p, q, r, s, t, u, v, w)
  BY SMT DEF Eight
<1>1. (x \div 1) % 2 = p
  BY <1>0, SMT DEF Eight
<1>2. (x \div 2) % 2 = q
  BY <1>0, SMT DEF Eight
<1>3. (x \div 4) % 2 = r
  BY <1>0, SMT DEF Eight
<1>4. (x \div 8) % 2 = s
  BY <1>0, SMT DEF Eight
<1>5. (x \div 16) % 2 = t
  BY <1>0, SMT DEF Eight
<1>6. (x \div 32) % 2 = u
  BY <1>0, SMT DEF Eight
<1>7. (x \div 64) % 2 = v
  BY <1>0, SMT DEF Eight
<1>8. (x \div 128) % 2 = w
  BY <1>0, SMT DEF Eight
<1>9. x \in 0 .. 255
  BY <1>0, SMT DEF Eight
<1> QED BY <1>0, <1>1, <1>2, <1>3, <1>4, <1>5, <1>6, <1>7, <1>8, <1>9

LEMMA BitsBack ==
  ASSUME NEW b \in EightBits
  PROVE  OfBits(b) \in Byte /\ \A k \in 0 .. 7 : bit_get(OfBits(b), k) = b[k]
<1>1. PICK x : x = OfBits(b)
  OBVIOUS
<1>2. /\ b[0] \in 0 .. 1 /\ b[1] \in 0 .. 1 /\ b[2] \in 0 .. 1 /\ b[3] \in 0 .. 1
      /\ b[4] \in 0 .. 1 /\ b[5] \in 0 .. 1 /\ b[6] \in 0 .. 1 /\ b[7] \in 0 .. 1
  BY SMT DEF EightBits, Bit
<1>4. /\ (x \div 1) % 2 = b[0] /\ (x \div 2) % 2 = b[1] /\ (x \div 4) % 2 = b[2]
      /\ (x \div 8) % 2 = b[3] /\ (x \div 16) % 2 = b[4] /\ (x \div 32) % 2 = b[5]
      /\ (x \div 64) % 2 = b[6] /\ (x \div 128) % 2 = b[7] /\ x \in 0 .. 255
  <2>1. PICK p, q, r, s, t, u, v, w :
          /\ p = b[0] /\ q = b[1] /\ r = b[2] /\ s = b[3]
          /\ t = b[4] /\ u = b[5] /\ v = b[6] /\ w = b[7]
    OBVIOUS
  <2>2. x = Eight(p, q, r, s, t, u, v, w)
    BY <1>1, <2>1, Zenon DEF OfBits
  <2>3. /\ (x \div 1) % 2 = p /\ (x \div 2) % 2 = q /\ (x \div 4) % 2 = r /\ (x \div 8) % 2 = s
        /\ (x \div 16) % 2 = t /\ (x \div 32) % 2 = u /\ (x \div 64) % 2 = v
        /\ (x \div 128) % 2 = w /\ x \in 0 .. 255
    <3>1. /\ p \in 0 .. 1 /\ q \in 0 .. 1 /\ r \in 0 .. 1 /\ s \in 0 .. 1
          /\ t \in 0 .. 1 /\ u \in 0 .. 1 /\ v \in 0 .. 1 /\ w \in 0 .. 1
      BY <1>2, <2>1
    <3>2. LET y == Eight(p, q, r, s, t, u, v, w)
          IN  /\ (y \div 1) % 2 = p /\ (y \div 2) % 2 = q /\ (y \div 4) % 2 = r /\ (y \div 8) % 2 = s
              /\ (y \div 16) % 2 = t /\ (y \div 32) % 2 = u /\ (y \div 64) % 2 = v
              /\ (y \div 128) % 2 = w /\ y \in 0 .. 255
      BY <3>1, SumOfBits
    <3> QED BY <2>2, <3>2
  <2> QED BY <2>1, <2>3
<1>5. /\ bit_get(x, 0) = b[0] /\ bit_get(x, 1) = b[1] /\ bit_get(x, 2) = b[2] /\ bit_get(x, 3) = b[3]
      /\ bit_get(x, 4) = b[4] /\ bit_get(x, 5) = b[5] /\ bit_get(x, 6) = b[6] /\ bit_get(x, 7) = b[7]
  BY <1>4, PowersListed, SMT DEF bit_get
<1>6. \A k \in 0 .. 7 : bit_get(x, k) = b[k]
  BY <1>5, SMT
<1> QED BY <1>1, <1>4, <1>6 DEF Byte

LEMMA ByteOfBits ==
  ASSUME NEW v \in Byte
  PROVE  \E b \in EightBits : v = OfBits(b)
<1>1. v \in 0 .. 255
  BY DEF Byte
<1>2. PICK q2 \in 0 .. 127 : v = (v % 2) + 2 * q2
  <2>1. v \div 2 \in 0 .. 127 /\ v = (v % 2) + 2 * (v \div 2)
    BY <1>1, SMT
  <2> QED BY <2>1
<1>21. PICK q4 \in 0 .. 63 : q2 = (q2 % 2) + 2 * q4
  <2>1. q2 \div 2 \in 0 .. 63 /\ q2 = (q2 % 2) + 2 * (q2 \div 2)
    BY SMT
  <2> QED BY <2>1
<1>22. PICK q8 \in 0 .. 31 : q4 = (q4 % 2) + 2 * q8
  <2>1. q4 \div 2 \in 0 .. 31 /\ q4 = (q4 % 2) + 2 * (q4 \div 2)
    BY SMT
  <2> QED BY <2>1
<1>23. PICK q16 \in 0 .. 15 : q8 = (q8 % 2) + 2 * q16
  <2>1. q8 \div 2 \in 0 .. 15 /\ q8 = (q8 % 2) + 2 * (q8 \div 2)
    BY SMT
  <2> QED BY <2>1
<1>24. PICK q32 \in 0 .. 7 : q16 = (q16 % 2) + 2 * q32
  <2>1. q16 \div 2 \in 0 .. 7 /\ q16 = (q16 % 2) + 2 * (q16 \div 2)
    BY SMT
  <2> QED BY <2>1
<1>25. PICK q64 \in 0 .. 3 : q32 = (q32 % 2) + 2 * q64
  <2>1. q32 \div 2 \in 0 .. 3 /\ q32 = (q32 % 2) + 2 * (q32 \div 2)
    BY SMT
  <2> QED BY <2>1
<1>26. PICK q128 \in 0 .. 1 : q64 = (q64 % 2) + 2 * q128
  <2>1. q64 \div 2 \in 0 .. 1 /\ q64 = (q64 % 2) + 2 * (q64 \div 2)
    BY SMT
  <2> QED BY <2>1
<1>4. PICK b : b = [k \in 0 .. 7 |-> CASE k = 0 -> v % 2 [] k = 1 -> q2 % 2 [] k = 2 -> q4 % 2
                                       [] k = 3 -> q8 % 2 [] k = 4 -> q16 % 2 [] k = 5 -> q32 % 2
                                       [] k = 6 -> q64 % 2 [] k = 7 -> q128]
  OBVIOUS
<1>5. /\ b[0] = v % 2 /\ b[1] = q2 % 2 /\ b[2] = q4 % 2 /\ b[3] = q8 % 2
      /\ b[4] = q16 % 2 /\ b[5] = q32 % 2 /\ b[6] = q64 % 2 /\ b[7] = q128
  BY <1>4, SMT
<1>6. b \in EightBits
  <2>1. \A k \in 0 .. 7 : b[k] \in 0 .. 1
    <3>1. /\ b[0] \in 0 .. 1 /\ b[1] \in 0 .. 1 /\ b[2] \in 0 .. 1 /\ b[3] \in 0 .. 1
          /\ b[4] \in 0 .. 1 /\ b[5] \in 0 .. 1 /\ b[6] \in 0 .. 1 /\ b[7] \in 0 .. 1
      BY <1>1, <1>5, SMT
    <3> QED BY <3>1, SMT
  <2>2. DOMAIN b = 0 .. 7 /\ b = [k \in 0 .. 7 |-> b[k]]
    BY <1>4
  <2> QED BY <2>1, <2>2 DEF EightBits, Bit
<1>7. v = Eight(b[0], b[1], b[2], b[3], b[4], b[5], b[6], b[7])
  <2>1. PICK r0 \in Int, r1 \in Int, r2 \in Int, r3 \in Int, r4 \in Int, r5 \in Int, r6 \in Int :
          /\ r0 = v % 2 /\ r1 = q2 % 2 /\ r2 = q4 % 2 /\ r3 = q8 % 2 /\ r4 = q16 % 2
          /\ r5 = q32 % 2 /\ r6 = q64 % 2
    <3>1. v % 2 \in Int /\ q2 % 2 \in Int /\ q4 % 2 \in Int /\ q8 % 2 \in Int /\ q16 % 2 \in Int
          /\ q32 % 2 \in Int /\ q64 % 2 \in Int
      BY <1>1, SMT
    <3> QED BY <3>1
  <2>2. v = Eight(r0, r1, r2, r3, r4, r5, r6, q128)
    BY <1>2, <1>21, <1>22, <1>23, <1>24, <1>25, <1>26, <2>1, SMT DEF Eight
  <2> QED BY <1>5, <2>1, <2>2
<1> QED BY <1>6, <1>7 DEF OfBits

LEMMA BitChanged ==
  ASSUME NEW b \in EightBits, NEW i \in 0 .. 7, NEW v \in Bit, NEW p, p = Power2[CLAMP07(i)]
  PROVE  /\ [b EXCEPT ![i] = v] \in EightBits
         /\ OfBits([b EXCEPT ![i] = v]) = OfBits(b) + p * (v - b[i])
         /\ b[i] \in 0 .. 1 /\ p \in Int /\ OfBits(b) \in Int
<1>1. [b EXCEPT ![i] = v] \in EightBits
  BY SMT DEF EightBits
<1>2. PICK e : e = [b EXCEPT ![i] = v]
  OBVIOUS
<1>3. e[i] = v /\ \A k \in 0 .. 7 : k # i => e[k] = b[k]
  BY <1>2, SMT DEF EightBits
<1>4. \A k \in 0 .. 7 : b[k] \in 0 .. 1
  BY SMT DEF EightBits, Bit
<1>5. v \in 0 .. 1
  BY DEF Bit
<1>6. PICK b0 \in Int, b1 \in Int, b2 \in Int, b3 \in Int,
           b4 \in Int, b5 \in Int, b6 \in Int, b7 \in Int :
        /\ b0 = b[0] /\ b1 = b[1] /\ b2 = b[2] /\ b3 = b[3]
        /\ b4 = b[4] /\ b5 = b[5] /\ b6 = b[6] /\ b7 = b[7]
  <2>1. /\ b[0] \in Int /\ b[1] \in Int /\ b[2] \in Int /\ b[3] \in Int
        /\ b[4] \in Int /\ b[5] \in Int /\ b[6] \in Int /\ b[7] \in Int
    BY <1>4, SMT
  <2> QED BY <2>1
<1> DEFINE Change == OfBits(e) = OfBits(b) + p * (v - b[i])
<1>7. ASSUME i = 0 PROVE Change
  <2>1. p = 1 /\ e[0] = v
        /\ e[1] = b[1] /\ e[2] = b[2] /\ e[3] = b[3] /\ e[4] = b[4] /\ e[5] = b[5] /\ e[6] = b[6] /\ e[7] = b[7]
    BY <1>3, <1>7, PowersListed
  <2>2. Eight(v, b1, b2, b3, b4, b5, b6, b7) = Eight(b0, b1, b2, b3, b4, b5, b6, b7) + 1 * (v - b0)
    BY <1>5, SMT DEF Eight
  <2>3. OfBits(e) = Eight(v, b1, b2, b3, b4, b5, b6, b7)
    BY <1>6, <2>1, Zenon DEF OfBits
  <2>4. OfBits(e) = OfBits(b) + 1 * (v - b[0])
    BY <1>6, <2>2, <2>3 DEF OfBits
  <2> QED BY <1>7, <2>1, <2>4, Zenon
<1>8. ASSUME i = 1 PROVE Change
  <2>1. p = 2 /\ e[1] = v
        /\ e[0] = b[0] /\ e[2] = b[2] /\ e[3] = b[3] /\ e[4] = b[4] /\ e[5] = b[5] /\ e[6] = b[6] /\ e[7] = b[7]
    BY <1>3, <1>8, PowersListed
  <2>2. Eight(b0, v, b2, b3, b4, b5, b6, b7) = Eight(b0, b1, b2, b3, b4, b5, b6, b7) + 2 * (v - b1)
    BY <1>5, SMT DEF Eight
  <2>3. OfBits(e) = Eight(b0, v, b2, b3, b4, b5, b6, b7)
    BY <1>6, <2>1, Zenon DEF OfBits
  <2>4. OfBits(e) = OfBits(b) + 2 * (v - b[1])
    BY <1>6, <2>2, <2>3 DEF OfBits
  <2> QED BY <1>8, <2>1, <2>4, Zenon
<1>9. ASSUME i = 2 PROVE Change
  <2>1. p = 4 /\ e[2] = v
        /\ e[0] = b[0] /\ e[1] = b[1] /\ e[3] = b[3] /\ e[4] = b[4] /\ e[5] = b[5] /\ e[6] = b[6] /\ e[7] = b[7]
    BY <1>3, <1>9, PowersListed
  <2>2. Eight(b0, b1, v, b3, b4, b5, b6, b7) = Eight(b0, b1, b2, b3, b4, b5, b6, b7) + 4 * (v - b2)
    BY <1>5, SMT DEF Eight
  <2>3. OfBits(e) = Eight(b0, b1, v, b3, b4, b5, b6, b7)
    BY <1>6, <2>1, Zenon DEF OfBits
  <2>4. OfBits(e) = OfBits(b) + 4 * (v - b[2])
    BY <1>6, <2>2, <2>3 DEF OfBits
  <2> QED BY <1>9, <2>1, <2>4, Zenon
<1>10. ASSUME i = 3 PROVE Change
  <2>1. p = 8 /\ e[3] = v
        /\ e[0] = b[0] /\ e[1] = b[1] /\ e[2] = b[2] /\ e[4] = b[4] /\ e[5] = b[5] /\ e[6] = b[6] /\ e[7] = b[7]
    BY <1>3, <1>10, PowersListed
  <2>2. Eight(b0, b1, b2, v, b4, b5, b6, b7) = Eight(b0, b1, b2, b3, b4, b5, b6, b7) + 8 * (v - b3)
    BY <1>5, SMT DEF Eight
  <2>3. OfBits(e) = Eight(b0, b1, b2, v, b4, b5, b6, b7)
    BY <1>6, <2>1, Zenon DEF OfBits
  <2>4. OfBits(e) = OfBits(b) + 8 * (v - b[3])
    BY <1>6, <2>2, <2>3 DEF OfBits
  <2> QED BY <1>10, <2>1, <2>4, Zenon
<1>11. ASSUME i = 4 PROVE Change
  <2>1. p = 16 /\ e[4] = v
        /\ e[0] = b[0] /\ e[1] = b[1] /\ e[2] = b[2] /\ e[3] = b[3] /\ e[5] = b[5] /\ e[6] = b[6] /\ e[7] = b[7]
    BY <1>3, <1>11, PowersListed
  <2>2. Eight(b0, b1, b2, b3, v, b5, b6, b7) = Eight(b0, b1, b2, b3, b4, b5, b6, b7) + 16 * (v - b4)
    BY <1>5, SMT DEF Eight
  <2>3. OfBits(e) = Eight(b0, b1, b2, b3, v, b5, b6, b7)
    BY <1>6, <2>1, Zenon DEF OfBits
  <2>4. OfBits(e) = OfBits(b) + 16 * (v - b[4])
    BY <1>6, <2>2, <2>3 DEF OfBits
  <2> QED BY <1>11, <2>1, <2>4, Zenon
<1>12. ASSUME i = 5 PROVE Change
  <2>1. p = 32 /\ e[5] = v
        /\ e[0] = b[0] /\ e[1] = b[1] /\ e[2] = b[2] /\ e[3] = b[3] /\ e[4] = b[4] /\ e[6] = b[6] /\ e[7] = b[7]
    BY <1>3, <1>12, PowersListed
  <2>2. Eight(b0, b1, b2, b3, b4, v, b6, b7) = Eight(b0, b1, b2, b3, b4, b5, b6, b7) + 32 * (v - b5)
    BY <1>5, SMT DEF Eight
  <2>3. OfBits(e) = Eight(b0, b1, b2, b3, b4, v, b6, b7)
    BY <1>6, <2>1, Zenon DEF OfBits
  <2>4. OfBits(e) = OfBits(b) + 32 * (v - b[5])
    BY <1>6, <2>2, <2>3 DEF OfBits
  <2> QED BY <1>12, <2>1, <2>4, Zenon
<1>13. ASSUME i = 6 PROVE Change
  <2>1. p = 64 /\ e[6] = v
        /\ e[0] = b[0] /\ e[1] = b[1] /\ e[2] = b[2] /\ e[3] = b[3] /\ e[4] = b[4] /\ e[5] = b[5] /\ e[7] = b[7]
    BY <1>3, <1>13, PowersListed
  <2>2. Eight(b0, b1, b2, b3, b4, b5, v, b7) = Eight(b0, b1, b2, b3, b4, b5, b6, b7) + 64 * (v - b6)
    BY <1>5, SMT DEF Eight
  <2>3. OfBits(e) = Eight(b0, b1, b2, b3, b4, b5, v, b7)
    BY <1>6, <2>1, Zenon DEF OfBits
  <2>4. OfBits(e) = OfBits(b) + 64 * (v - b[6])
    BY <1>6, <2>2, <2>3 DEF OfBits
  <2> QED BY <1>13, <2>1, <2>4, Zenon
<1>14. ASSUME i = 7 PROVE Change
  <2>1. p = 128 /\ e[7] = v
        /\ e[0] = b[0] /\ e[1] = b[1] /\ e[2] = b[2] /\ e[3] = b[3] /\ e[4] = b[4] /\ e[5] = b[5] /\ e[6] = b[6]
    BY <1>3, <1>14, PowersListed
  <2>2. Eight(b0, b1, b2, b3, b4, b5, b6, v) = Eight(b0, b1, b2, b3, b4, b5, b6, b7) + 128 * (v - b7)
    BY <1>5, SMT DEF Eight
  <2>3. OfBits(e) = Eight(b0, b1, b2, b3, b4, b5, b6, v)
    BY <1>6, <2>1, Zenon DEF OfBits
  <2>4. OfBits(e) = OfBits(b) + 128 * (v - b[7])
    BY <1>6, <2>2, <2>3 DEF OfBits
  <2> QED BY <1>14, <2>1, <2>4, Zenon
<1>15. i = 0 \/ i = 1 \/ i = 2 \/ i = 3 \/ i = 4 \/ i = 5 \/ i = 6 \/ i = 7
  BY SMT
<1>16. Change
  BY <1>7, <1>8, <1>9, <1>10, <1>11, <1>12, <1>13, <1>14, <1>15
<1>17. b[i] \in 0 .. 1 /\ p \in Int /\ OfBits(b) \in Int
  <2>1. p \in Int
    BY BitPowers DEF PowersOf2
  <2>2. OfBits(b) \in Int
    BY <1>6, SMT DEF OfBits, Eight
  <2> QED BY <1>4, <2>1, <2>2
<1> QED BY <1>1, <1>2, <1>16, <1>17

(* Setting or clearing a bit changes no other.                             *)
LEMMA OneBitEdited ==
  ASSUME NEW v \in Byte, NEW i \in 0 .. 7
  PROVE  /\ \A j \in 0 .. 7 : bit_get(bit_set(v, i), j) = IF j = i THEN 1 ELSE bit_get(v, j)
         /\ \A j \in 0 .. 7 : bit_get(bit_unset(v, i), j) = IF j = i THEN 0 ELSE bit_get(v, j)
<1>1. PICK b \in EightBits : v = OfBits(b)
  BY ByteOfBits
<1>2. PICK p : p = Power2[CLAMP07(i)]
  OBVIOUS
<1>3. 0 \in Bit /\ 1 \in Bit
  BY SMT DEF Bit
<1>4. PICK up, down : up = [b EXCEPT ![i] = 1] /\ down = [b EXCEPT ![i] = 0]
  OBVIOUS
<1>5. up \in EightBits /\ down \in EightBits
  BY <1>2, <1>3, <1>4, BitChanged
<1>6. bit_get(v, i) = b[i] /\ b[i] \in {0, 1}
  <2>1. b[i] \in {0, 1}
    BY SMT DEF EightBits, Bit
  <2> QED BY <1>1, <2>1, BitsBack
<1>7. /\ OfBits(up) = OfBits(b) + p * (1 - b[i]) /\ OfBits(down) = OfBits(b) + p * (0 - b[i])
      /\ b[i] \in 0 .. 1 /\ p \in Int /\ OfBits(b) \in Int
  BY <1>2, <1>3, <1>4, BitChanged
<1>8. bit_set(v, i) = OfBits(up) /\ bit_unset(v, i) = OfBits(down)
  <2>1. CASE b[i] = 0
    BY <1>1, <1>2, <1>6, <1>7, <2>1 DEF bit_set, bit_unset
  <2>2. CASE b[i] = 1
    BY <1>1, <1>2, <1>6, <1>7, <2>2 DEF bit_set, bit_unset
  <2> QED BY <1>7, <2>1, <2>2
<1>9. ASSUME NEW j \in 0 .. 7
      PROVE  /\ bit_get(bit_set(v, i), j) = IF j = i THEN 1 ELSE bit_get(v, j)
             /\ bit_get(bit_unset(v, i), j) = IF j = i THEN 0 ELSE bit_get(v, j)
  <2>1. bit_get(OfBits(up), j) = up[j] /\ bit_get(OfBits(down), j) = down[j]
        /\ bit_get(v, j) = b[j]
    BY <1>1, <1>5, BitsBack
  <2>2. up[j] = (IF j = i THEN 1 ELSE b[j]) /\ down[j] = (IF j = i THEN 0 ELSE b[j])
    BY <1>4, SMT DEF EightBits
  <2> QED BY <1>7, <1>8, <2>1, <2>2
<1> QED BY <1>9

-----------------------------------------------------------------------------
(* What CPU sees of a memory m, and that it is what CPU's own operators    *)
(* make of it.                                                             *)
Cell(m, a) == IF a \in DOMAIN m THEN m[a] ELSE 0
LinesIn(byte) == { i \in 0 .. 7 : bit_get(byte, i) = 1 }

Seen(m) == [ram   |-> [a \in Followed |-> Cell(m, a)],
            IE    |-> LinesIn(Cell(m, REG_IE)),
            flags |-> LinesIn(Cell(m, REG_IF))]

LEMMA CellsAreBytes ==
  ASSUME NEW m, Memory(m)
  PROVE  \A a : Cell(m, a) \in Byte
<1>1. 0 \in Byte
  BY SMT DEF Byte
<1> QED BY <1>1 DEF Cell, Memory

LEMMA CellsRead == \A c, a : cpu_read_at_idx(c, a) = Cell(c.mem, a)
  BY DEF cpu_read_at_idx, Cell

LEMMA CellsSet ==
  ASSUME NEW m, NEW a, NEW b
  PROVE  \A x : Cell(SetByte(m, a, b), x) = IF x = a THEN b ELSE Cell(m, x)
  BY DEF Cell, SetByte

LEMMA LinesEdited ==
  ASSUME NEW v \in Byte, NEW i \in 0 .. 7
  PROVE  /\ LinesIn(bit_set(v, i)) = LinesIn(v) \cup {i}
         /\ LinesIn(bit_unset(v, i)) = LinesIn(v) \ {i}
<1>1. /\ \A j \in 0 .. 7 : bit_get(bit_set(v, i), j) = IF j = i THEN 1 ELSE bit_get(v, j)
      /\ \A j \in 0 .. 7 : bit_get(bit_unset(v, i), j) = IF j = i THEN 0 ELSE bit_get(v, j)
  BY OneBitEdited
<1>2. LinesIn(bit_set(v, i)) = LinesIn(v) \cup {i}
  BY <1>1 DEF LinesIn
<1>3. LinesIn(bit_unset(v, i)) = LinesIn(v) \ {i}
  BY <1>1 DEF LinesIn
<1> QED BY <1>2, <1>3

LEMMA SameNumbers ==
  /\ \A a, b : ControlSide!Plus(a, b) = Plus16(a, b)
  /\ ControlSide!Top = 65535 /\ ControlSide!RegIE = REG_IE /\ REG_IE = 65535
  /\ \A b \in Byte : ControlSide!BitsOf(b) = LinesIn(b)
  /\ \A w \in Word : ControlSide!lsb8(w) = lsb8(w) /\ ControlSide!msb8(w) = msb8(w)
  /\ \A x \in Byte, y \in Byte : ControlSide!merge8(x, y) = merge8(x, y)
<1>1. \A a, b : ControlSide!Plus(a, b) = Plus16(a, b)
  <2>1. 256 * 256 = 65536
    BY SMT
  <2> QED BY <2>1 DEF ControlSide!Plus, Plus16
<1>2. ControlSide!Top = 65535 /\ ControlSide!RegIE = REG_IE /\ REG_IE = 65535
  <2>1. 256 * 256 - 1 = 65535
    BY SMT
  <2> QED BY <2>1 DEF ControlSide!Top, ControlSide!RegIE, REG_IE
<1>3. ASSUME NEW b \in Byte PROVE ControlSide!BitsOf(b) = LinesIn(b)
  <2>1. \A i \in 0 .. 7 : Power2[CLAMP07(i)] = 2 ^ i
    BY SMT DEF Power2, CLAMP07
  <2>2. 8 - 1 = 7
    BY SMT
  <2> QED BY <2>1, <2>2, Zenon DEF ControlSide!BitsOf, LinesIn, bit_get
<1>4. ASSUME NEW w \in Word PROVE ControlSide!lsb8(w) = lsb8(w) /\ ControlSide!msb8(w) = msb8(w)
  <2>1. w \in Int /\ 0 <= w /\ w <= 65535
    BY InWord
  <2>2. w % 65536 = w
    BY <2>1, SMT
  <2> QED BY <2>2 DEF ControlSide!lsb8, ControlSide!msb8, lsb8, msb8
<1>5. ASSUME NEW x \in Byte, NEW y \in Byte PROVE ControlSide!merge8(x, y) = merge8(x, y)
  <2>1. x \in Int /\ y \in Int
    BY DEF Byte
  <2> QED BY <2>1, Merged, SMT DEF ControlSide!merge8
<1> QED BY <1>1, <1>2, <1>3, <1>4, <1>5

LEMMA SeenWritten ==
  ASSUME NEW m, Memory(m), NEW a, NEW b \in Byte
  PROVE  ControlSide!Written(Seen(m), a, b) = Seen(SetByte(m, a, b))
<1>1. PICK n : n = SetByte(m, a, b) /\ \A x : Cell(n, x) = IF x = a THEN b ELSE Cell(m, x)
  BY CellsSet
<1>2. [x \in Followed |-> Cell(n, x)]
        = IF a \in Followed THEN [[x \in Followed |-> Cell(m, x)] EXCEPT ![a] = b]
                            ELSE [x \in Followed |-> Cell(m, x)]
  BY <1>1
<1>3. LinesIn(Cell(n, REG_IE)) = IF a = REG_IE THEN LinesIn(b) ELSE LinesIn(Cell(m, REG_IE))
  BY <1>1
<1>4. LinesIn(Cell(n, REG_IF)) = IF a = REG_IF THEN LinesIn(b) ELSE LinesIn(Cell(m, REG_IF))
  BY <1>1
<1>5. ControlSide!BitsOf(b) = LinesIn(b) /\ ControlSide!RegIE = REG_IE
  BY SameNumbers
<1> QED BY <1>1, <1>2, <1>3, <1>4, <1>5 DEF ControlSide!Written, Seen

Stored16(m, a, w) ==
  IF a = 65535 THEN m ELSE SetByte(SetByte(m, a, lsb8(w)), a + 1, msb8(w))

LEMMA SeenWritten16 ==
  ASSUME NEW m, Memory(m), NEW a \in Word, NEW w \in Word
  PROVE  ControlSide!Written16(Seen(m), a, w) = Seen(Stored16(m, a, w)) /\ Memory(Stored16(m, a, w))
<1>1. PICK lo \in Byte, hi \in Byte : /\ lo = lsb8(w) /\ hi = msb8(w)
                                      /\ lo = ControlSide!lsb8(w) /\ hi = ControlSide!msb8(w)
  <2>1. lsb8(w) \in Byte /\ msb8(w) \in Byte
    BY WordsHalved
  <2>2. ControlSide!lsb8(w) = lsb8(w) /\ ControlSide!msb8(w) = msb8(w)
    BY SameNumbers
  <2> QED BY <2>1, <2>2
<1>2. CASE a = 65535
  BY <1>2, SameNumbers DEF ControlSide!Written16, Stored16
<1>3. CASE a # 65535
  <2>1. PICK n : n = SetByte(m, a, lo) /\ Memory(n)
    BY ByteSet
  <2>2. a + 1 \in Word
    BY <1>3, InWord, SMT
  <2>3. PICK b \in Word : b = a + 1
    BY <2>2
  <2>4. PICK o : o = SetByte(n, b, hi) /\ Memory(o)
    BY <2>1, ByteSet
  <2>5. ControlSide!Written(Seen(m), a, lo) = Seen(n) /\ ControlSide!Written(Seen(n), b, hi) = Seen(o)
    BY <2>1, <2>4, SeenWritten
  <2>6. Stored16(m, a, w) = o
    BY <1>1, <1>3, <2>1, <2>3, <2>4 DEF Stored16
  <2>7. ControlSide!Written16(Seen(m), a, w)
          = ControlSide!Written(ControlSide!Written(Seen(m), a, lo), a + 1, hi)
    BY <1>1, <1>3, SameNumbers DEF ControlSide!Written16
  <2> QED BY <2>3, <2>4, <2>5, <2>6, <2>7
<1> QED BY <1>2, <1>3

(* The memory after the flag of line i is cleared, and after it is raised. *)
LEMMA SeenFlags ==
  ASSUME NEW m, Memory(m), NEW i \in 0 .. 7
  PROVE  /\ Seen(SetByte(m, REG_IF, bit_unset(Cell(m, REG_IF), i)))
              = [Seen(m) EXCEPT !.flags = LinesIn(Cell(m, REG_IF)) \ {i}]
         /\ Seen(SetByte(m, REG_IF, bit_set(Cell(m, REG_IF), i)))
              = [Seen(m) EXCEPT !.flags = LinesIn(Cell(m, REG_IF)) \cup {i}]
<1>1. ASSUME NEW b
      PROVE  Seen(SetByte(m, REG_IF, b)) = [Seen(m) EXCEPT !.flags = LinesIn(b)]
  <2>1. PICK n : n = SetByte(m, REG_IF, b) /\ \A x : Cell(n, x) = IF x = REG_IF THEN b ELSE Cell(m, x)
    BY CellsSet
  <2>2. REG_IE # REG_IF /\ REG_IF \notin Followed
    BY FollowedAssumption, SMT DEF REG_IE, REG_IF
  <2>3. [x \in Followed |-> Cell(n, x)] = [x \in Followed |-> Cell(m, x)]
    BY <2>1, <2>2
  <2>4. LinesIn(Cell(n, REG_IF)) = LinesIn(b) /\ LinesIn(Cell(n, REG_IE)) = LinesIn(Cell(m, REG_IE))
    BY <2>1, <2>2
  <2>5. Seen(n) = [ram |-> [x \in Followed |-> Cell(m, x)], IE |-> LinesIn(Cell(m, REG_IE)),
                   flags |-> LinesIn(b)]
    BY <2>3, <2>4, Zenon DEF Seen
  <2>6. PICK ram, up, flags : /\ Seen(m) = [ram |-> ram, IE |-> up, flags |-> flags]
                              /\ Seen(n) = [ram |-> ram, IE |-> up, flags |-> LinesIn(b)]
    BY <2>5, Zenon DEF Seen
  <2>7. Seen(n) = [Seen(m) EXCEPT !.flags = LinesIn(b)]
    BY <2>6, SMT
  <2> QED BY <2>1, <2>7
<1>2. Cell(m, REG_IF) \in Byte
  BY CellsAreBytes
<1> QED BY <1>1, <1>2, LinesEdited

-----------------------------------------------------------------------------
(* CPU's predicates on a step, from the fields of the CPU before and after.*)
LEMMA MemorySeen == ControlSide!Memory = Seen(cpu.mem)
  BY CellsRead, Zenon DEF ControlSide!Memory, Seen, FollowedBytes, LinesUp, LinesIn

LEMMA MemoryIs ==
  ASSUME NEW m, Seen(cpu'.mem) = Seen(m)
  PROVE  ControlSide!MemoryBecomes(Seen(m))
<1>1. /\ FollowedBytes(cpu)' = Seen(cpu'.mem).ram /\ LinesUp(cpu, REG_IE)' = Seen(cpu'.mem).IE
      /\ LinesUp(cpu, REG_IF)' = Seen(cpu'.mem).flags
  BY CellsRead DEF FollowedBytes, LinesUp, Seen, LinesIn, cpu_read_at_idx, Cell
<1> QED BY <1>1, Zenon DEF ControlSide!MemoryBecomes

LEMMA IsStored ==
  ASSUME NEW m, cpu'.mem = m, NEW a, cpu'.write_listener = a
  PROVE  ControlSide!Stored(Seen(m), a)
  BY MemoryIs DEF ControlSide!Stored

LEMMA IsNothingStored ==
  ASSUME cpu'.mem = cpu.mem, cpu'.write_listener = 0
  PROVE  ControlSide!NothingStored
  BY SMT DEF ControlSide!NothingStored, FollowedBytes, LinesUp, cpu_read_at_idx

LEMMA PendingSeen ==
  ControlSide!Pending = Pending(cpu) /\ ControlSide!PendingLines = Pending(cpu) \cap (0 .. 4)
<1>1. ControlSide!Pending = Pending(cpu)
  BY SMT DEF ControlSide!Pending, Pending, LinesUp, IfByte
<1>2. ControlSide!Lines = 0 .. 4
  BY SMT DEF ControlSide!Lines
<1> QED BY <1>1, <1>2 DEF ControlSide!PendingLines

-----------------------------------------------------------------------------
(* What an instruction leaves of the control side.                         *)
Fields(c) == {"PC", "SP", "IME", "HALT", "idle_time", "write_listener", "mem"} \subseteq DOMAIN c

Leaves(c, d, pc, sp, ime, listener, mem) ==
  /\ Fields(d)
  /\ d.PC = pc /\ d.SP = sp /\ d.IME = ime /\ d.HALT = c.HALT
  /\ d.idle_time = c.idle_time /\ d.write_listener = listener /\ d.mem = mem

SameControl(c, d)  == Leaves(c, d, c.PC, c.SP, c.IME, c.write_listener, c.mem)
MovedTo(c, d, sp)  == Leaves(c, d, c.PC, sp, c.IME, c.write_listener, c.mem)
StoredAt(c, d, a, m)  == Leaves(c, d, c.PC, c.SP, c.IME, a, m)
PushedAt(c, d, sp, w) == Leaves(c, d, c.PC, sp, c.IME, sp, Stored16(c.mem, sp, w))

LEMMA TypedHasFields ==
  ASSUME NEW c, Typed(c)
  PROVE  Fields(c) /\ SameControl(c, c)
<1>1. Fields(c)
  BY SMT DEF Typed, Fields
<1> QED BY <1>1 DEF SameControl, Leaves

(* The registers and the flags are no part of it.                          *)
LEMMA DataSet ==
  ASSUME NEW c, Fields(c)
  PROVE  /\ \A r, v : SameControl(c, cpu_reg_set(c, r, v))
         /\ \A p, w : SameControl(c, cpu_reg_pair_set(c, p, w))
         /\ \A srcs, f : SameControl(c, cpu_combine_alu_flags(c, srcs, f))
<1>1. \A v : SameControl(c, [c EXCEPT !.F = v]) /\ SameControl(c, [c EXCEPT !.reg = v])
  BY SMT DEF SameControl, Fields, Leaves
<1>2. \A r, v : SameControl(c, [c EXCEPT !.reg[r] = v])
  BY <1>1
<1>3. SameControl(c, c)
  BY DEF SameControl, Leaves
<1>4. ASSUME NEW p, NEW w PROVE SameControl(c, cpu_reg_pair_set(c, p, w))
  <2>1. CASE p = REG_AF_CODE
    <3>1. PICK d : d = [c EXCEPT !.reg[REG_A_CODE] = msb8(w)] /\ SameControl(c, d)
      BY <1>2
    <3>2. SameControl(c, [d EXCEPT !.F = FlagsPart(w)])
      BY <3>1, SMT DEF SameControl, Fields, Leaves
    <3> QED BY <2>1, <3>1, <3>2 DEF cpu_reg_pair_set
  <2>2. CASE p # REG_AF_CODE
    <3>1. PICK lo, hi : lo = 2 * p + 1 /\ hi = 2 * p
      OBVIOUS
    <3>2. PICK d : d = [c EXCEPT !.reg[lo] = lsb8(w)] /\ SameControl(c, d)
      BY <1>2
    <3>3. SameControl(c, [d EXCEPT !.reg[hi] = msb8(w)])
      BY <3>2, SMT DEF SameControl, Fields, Leaves
    <3> QED BY <2>2, <3>1, <3>2, <3>3 DEF cpu_reg_pair_set
  <2> QED BY <2>1, <2>2
<1> QED BY <1>1, <1>2, <1>3, <1>4 DEF cpu_reg_set, cpu_combine_alu_flags

LEMMA SameAgain ==
  ASSUME NEW c, NEW d, NEW e, SameControl(c, d), SameControl(d, e)
  PROVE  SameControl(c, e)
  BY DEF SameControl, Leaves

LEMMA ToRegSame ==
  ASSUME NEW c, Fields(c)
  PROVE  \A r, out, srcs : SameControl(c, ToReg(c, r, out, srcs))
<1> SUFFICES ASSUME NEW r, NEW out, NEW srcs
             PROVE  SameControl(c, ToReg(c, r, out, srcs))
  OBVIOUS
<1>1. PICK d : d = cpu_reg_set(c, r, lsb8(out.value)) /\ SameControl(c, d)
  BY DataSet
<1>2. SameControl(d, cpu_combine_alu_flags(d, srcs, out.flags))
  BY <1>1, DataSet DEF SameControl, Leaves
<1> QED BY <1>1, <1>2, SameAgain DEF ToReg

LEMMA UpdatedSame ==
  ASSUME NEW lu, NEW c, Fields(c)
  PROVE  SameControl(c, Updated(lu, c))
<1>1. SameControl(c, HLUpdated(lu, c))
  BY DataSet DEF HLUpdated
<1>2. SameControl(c, c)
  BY DEF SameControl, Leaves
<1> QED BY <1>1, <1>2 DEF Updated

(* A byte stored, a word stored, a push.                                   *)
LEMMA IsStoredAt ==
  ASSUME NEW c, Fields(c), NEW a
  PROVE  /\ \A b : StoredAt(c, cpu_write_at_idx(c, a, b), a, SetByte(c.mem, a, b))
         /\ \A w : StoredAt(c, cpu_write16_at_idx(c, a, w), a, Stored16(c.mem, a, w))
<1>1. ASSUME NEW m
      PROVE  StoredAt(c, [c EXCEPT !.write_listener = a, !.mem = m], a, m)
  BY SMT DEF StoredAt, Fields, Leaves
<1>2. ASSUME NEW b
      PROVE  cpu_write_at_idx(c, a, b) = [c EXCEPT !.write_listener = a, !.mem = SetByte(c.mem, a, b)]
  BY SMT DEF cpu_write_at_idx, Fields
<1>3. ASSUME NEW w
      PROVE  cpu_write16_at_idx(c, a, w)
               = [c EXCEPT !.write_listener = a, !.mem = Stored16(c.mem, a, w)]
  BY SMT DEF cpu_write16_at_idx, Fields, Stored16
<1> QED BY <1>1, <1>2, <1>3

LEMMA StoredThenSame ==
  ASSUME NEW c, NEW d, NEW e, NEW a, NEW m, StoredAt(c, d, a, m), SameControl(d, e)
  PROVE  StoredAt(c, e, a, m)
  BY DEF StoredAt, SameControl, Leaves

LEMMA IsPushedAt ==
  ASSUME NEW c, Fields(c), NEW w
  PROVE  PushedAt(c, cpu_SP_push(c, w), Plus16(c.SP, -2), w)
<1>1. PICK sp : sp = Plus16(c.SP, -2)
  OBVIOUS
<1>2. PICK d : d = [c EXCEPT !.SP = sp]
  OBVIOUS
<1>3. /\ Fields(d) /\ d.PC = c.PC /\ d.SP = sp /\ d.IME = c.IME /\ d.HALT = c.HALT
      /\ d.idle_time = c.idle_time /\ d.mem = c.mem
  BY <1>2, SMT DEF Fields
<1>4. StoredAt(d, cpu_write16_at_idx(d, sp, w), sp, Stored16(d.mem, sp, w))
  BY <1>3, IsStoredAt
<1>5. cpu_SP_push(c, w) = cpu_write16_at_idx(d, sp, w)
  BY <1>1, <1>2 DEF cpu_SP_push
<1> QED BY <1>1, <1>3, <1>4, <1>5 DEF StoredAt, PushedAt, Leaves

LEMMA IsMovedTo ==
  ASSUME NEW c, Fields(c), NEW sp
  PROVE  MovedTo(c, [c EXCEPT !.SP = sp], sp)
  BY SMT DEF MovedTo, Fields, Leaves

LEMMA MovedThenSame ==
  ASSUME NEW c, NEW d, NEW e, NEW sp, MovedTo(c, d, sp), SameControl(d, e)
  PROVE  MovedTo(c, e, sp)
  BY DEF MovedTo, SameControl, Leaves

-----------------------------------------------------------------------------
(* cpu_dispatch_alu changes registers and flags, but for INC_HLR, which     *)
(* stores, and INC_R16SP of SP.                                            *)
LEMMA AluLeaves ==
  ASSUME NEW lu, Decoded(lu), NEW c, Typed(c), NEW d, d = cpu_dispatch_alu(lu, c)
  PROVE  /\ lu.family = "INC_HLR" => \E b \in Byte : StoredAt(c, d, HL(c), SetByte(c.mem, HL(c), b))
         /\ lu.family = "INC_R16SP" /\ extract_reg_pair(lu.opcode) = REG_AF_CODE
              => MovedTo(c, d, Plus16(c.SP, 1))
         /\ lu.family = "INC_R16SP" /\ extract_reg_pair(lu.opcode) # REG_AF_CODE
              => SameControl(c, d)
         /\ lu.family \notin {"INC_HLR", "INC_R16SP"} => SameControl(c, d)
<1>0. Fields(c) /\ SameControl(c, c)
  BY TypedHasFields
<1>1. CASE lu.family = "INC_HLR"
  <2>1. PICK out : out = alu_add8(cpu_read_at_idx(c, HL(c)), 1, 0) /\ out.value \in Byte
    <3>1. cpu_read_at_idx(c, HL(c)) \in Byte /\ 1 \in Byte /\ 0 \in Bit
      BY Reads, SMT DEF Byte, Bit
    <3> QED BY <3>1, Outputs
  <2>2. d = cpu_combine_alu_flags(cpu_write_at_idx(c, HL(c), out.value), INC_FLAGS_SRC, out.flags)
    BY <1>1, <2>1 DEF cpu_dispatch_alu
  <2>3. PICK e : e = cpu_write_at_idx(c, HL(c), out.value)
                 /\ StoredAt(c, e, HL(c), SetByte(c.mem, HL(c), out.value))
    BY <1>0, IsStoredAt
  <2>4. SameControl(e, d)
    BY <2>2, <2>3, DataSet DEF StoredAt, Leaves
  <2>5. StoredAt(c, d, HL(c), SetByte(c.mem, HL(c), out.value))
    BY <2>3, <2>4, StoredThenSame
  <2> QED BY <1>1, <2>1, <2>5
<1>2. CASE lu.family = "INC_R16SP"
  <2>1. PICK p : p = extract_reg_pair(lu.opcode)
    OBVIOUS
  <2>2. d = cpu_reg_pair_SP_set(c, p, alu_add16_high(1, cpu_reg_pair_SP_get(c, p)).value)
    BY <1>2, <2>1 DEF cpu_dispatch_alu
  <2>3. CASE p = REG_AF_CODE
    <3>1. d = [c EXCEPT !.SP = alu_add16_high(1, c.SP).value]
      BY <2>2, <2>3 DEF cpu_reg_pair_SP_set, cpu_reg_pair_SP_get
    <3>2. alu_add16_high(1, c.SP).value = Plus16(c.SP, 1)
      <4>1. c.SP \in Word /\ 1 \in Word
        BY TypedFields, InWord, SMT
      <4>2. PICK sp \in Word : sp = c.SP
        BY <4>1
      <4>3. alu_add16_high(1, sp).value = (1 + sp) % 65536
        BY <4>1, WideOutput
      <4>4. 1 + sp = sp + 1
        BY InWord, SMT
      <4> QED BY <4>2, <4>3, <4>4 DEF Plus16
    <3> QED BY <1>0, <1>2, <2>1, <2>3, <3>1, <3>2, IsMovedTo
  <2>4. CASE p # REG_AF_CODE
    <3>1. SameControl(c, d)
      BY <1>0, <2>2, <2>4, DataSet DEF cpu_reg_pair_SP_set
    <3> QED BY <1>2, <2>1, <2>4, <3>1
  <2> QED BY <2>3, <2>4
<1>3. CASE lu.family \notin {"INC_HLR", "INC_R16SP"}
  <2>1. CASE lu.family \in {"ADD_A_HLR", "ADD_A_N8", "ADD_A_R8", "INC_R8", "DEC_R8", "SLA_R8", "ROT_R8"}
    <3>1. \E r, out, srcs : d = ToReg(c, r, out, srcs)
      BY <2>1, SMT DEF cpu_dispatch_alu, AddToA
    <3> QED BY <1>0, <1>3, <3>1, ToRegSame
  <2>2. CASE lu.family = "ADD_HL_R16SP"
    <3>1. PICK out : d = cpu_combine_alu_flags(cpu_reg_pair_set(c, REG_HL_CODE, out.value),
                                               ADD_HL_FLAGS_SRC, out.flags)
      BY <2>2 DEF cpu_dispatch_alu
    <3>2. PICK e : e = cpu_reg_pair_set(c, REG_HL_CODE, out.value) /\ SameControl(c, e)
      BY <1>0, DataSet
    <3>3. SameControl(e, d)
      BY <3>1, <3>2, DataSet DEF SameControl, Leaves
    <3> QED BY <1>3, <3>2, <3>3, SameAgain
  <2>3. CASE lu.family \in {"CP_A_R8", "CP_A_N8", "BIT_U3_R8"}
    <3>1. \E srcs, f : d = cpu_combine_alu_flags(c, srcs, f)
      BY <2>3 DEF cpu_dispatch_alu
    <3> QED BY <1>0, <1>3, <3>1, DataSet
  <2>4. CASE lu.family = "CHG_U3_R8"
    <3>1. \E r, v : d = cpu_reg_set(c, r, v)
      BY <2>4 DEF cpu_dispatch_alu
    <3> QED BY <1>0, <1>3, <3>1, DataSet
  <2>5. CASE lu.family \notin {"ADD_A_HLR", "ADD_A_N8", "ADD_A_R8", "INC_HLR", "INC_R8", "DEC_R8",
                               "ADD_HL_R16SP", "INC_R16SP", "CP_A_R8", "CP_A_N8", "SLA_R8", "ROT_R8",
                               "BIT_U3_R8", "CHG_U3_R8"}
    <3>1. d = c
      BY <2>5 DEF cpu_dispatch_alu
    <3> QED BY <1>0, <1>3, <3>1
  <2> QED BY <1>3, <2>1, <2>2, <2>3, <2>4, <2>5
<1> QED BY <1>1, <1>2, <1>3

(* cpu_dispatch_storage.                                                   *)
LEMMA StorageLeaves ==
  ASSUME NEW lu, Decoded(lu), NEW c, Typed(c), NEW d, d = cpu_dispatch_storage(lu, c),
         NEW p, p = extract_reg_pair(lu.opcode)
  PROVE  /\ lu.family \in LoadsOfA \cup {"LD_R8_HLR", "LD_R8_N8", "LD_R8_R8"} => SameControl(c, d)
         /\ lu.family = "LD_R16SP_N16" /\ p # REG_AF_CODE => SameControl(c, d)
         /\ lu.family = "LD_R16SP_N16" /\ p = REG_AF_CODE
              => MovedTo(c, d, cpu_read_addr_after_opcode(c))
         /\ lu.family = "LD_SP_HL" => MovedTo(c, d, HL(c))
         /\ lu.family = "POP_R16" => MovedTo(c, d, Plus16(c.SP, 2))
         /\ lu.family \in StoresOfA
              => \E b \in Byte : StoredAt(c, d, Address(lu, c), SetByte(c.mem, Address(lu, c), b))
         /\ lu.family \in {"LD_HLR_N8", "LD_HLR_R8"}
              => \E b \in Byte : StoredAt(c, d, HL(c), SetByte(c.mem, HL(c), b))
         /\ lu.family = "LD_N16R_SP"
              => StoredAt(c, d, cpu_read_addr_after_opcode(c),
                          Stored16(c.mem, cpu_read_addr_after_opcode(c), c.SP))
         /\ lu.family = "PUSH_R16" => PushedAt(c, d, Plus16(c.SP, -2), cpu_reg_pair_get(c, p))
<1> DEFINE r  == extract_reg(lu.opcode, 0)
           r3 == extract_reg(lu.opcode, 3)
<1>0. Fields(c)
  BY TypedHasFields
<1>1. ASSUME lu.family \in LoadsOfA PROVE SameControl(c, d)
  <2>1. PICK e : d = Updated(lu, e) /\ SameControl(c, e)
    <3>1. PICK addr, v : addr = Address(lu, c) /\ v = cpu_read_at_idx(c, addr)
      OBVIOUS
    <3>2. d = Updated(lu, cpu_reg_set(c, REG_A_CODE, v))
      BY <1>1, <3>1 DEF cpu_dispatch_storage, LoadsOfA, StoresOfA
    <3> QED BY <1>0, <3>2, DataSet
  <2>2. SameControl(e, d)
    BY <2>1, UpdatedSame DEF SameControl, Leaves
  <2> QED BY <2>1, <2>2, SameAgain
<1>2. ASSUME lu.family \in {"LD_R8_HLR", "LD_R8_N8", "LD_R8_R8"} PROVE SameControl(c, d)
  <2>1. \E v : d = cpu_reg_set(c, r3, v)
    BY <1>2, SMT DEF cpu_dispatch_storage, LoadsOfA, StoresOfA
  <2> QED BY <1>0, <2>1, DataSet
<1>3. ASSUME lu.family = "LD_R16SP_N16"
      PROVE  /\ p # REG_AF_CODE => SameControl(c, d)
             /\ p = REG_AF_CODE => MovedTo(c, d, cpu_read_addr_after_opcode(c))
  <2>1. d = cpu_reg_pair_SP_set(c, p, cpu_read_addr_after_opcode(c))
    BY <1>3 DEF cpu_dispatch_storage, LoadsOfA, StoresOfA
  <2> QED BY <1>0, <2>1, DataSet, IsMovedTo DEF cpu_reg_pair_SP_set
<1>4. ASSUME lu.family = "LD_SP_HL" PROVE MovedTo(c, d, HL(c))
  <2>1. d = [c EXCEPT !.SP = HL(c)]
    BY <1>4 DEF cpu_dispatch_storage, LoadsOfA, StoresOfA, cpu_reg_pair_SP_set
  <2> QED BY <1>0, <2>1, IsMovedTo
<1>5. ASSUME lu.family = "POP_R16" PROVE MovedTo(c, d, Plus16(c.SP, 2))
  <2>1. d = PopPair(lu, c)
    BY <1>5 DEF cpu_dispatch_storage, LoadsOfA, StoresOfA
  <2>2. PICK e, w : /\ e = [c EXCEPT !.SP = Plus16(c.SP, 2)] /\ w = cpu_SP_pop(c).word
                    /\ d = cpu_reg_pair_set(e, p, w)
    BY <1>0, <2>1 DEF PopPair, cpu_SP_pop
  <2>3. MovedTo(c, e, Plus16(c.SP, 2))
    BY <1>0, <2>2, IsMovedTo
  <2>4. SameControl(e, d)
    BY <2>2, <2>3, DataSet DEF MovedTo, Leaves
  <2> QED BY <2>3, <2>4, MovedThenSame
<1>6. ASSUME lu.family \in StoresOfA
      PROVE  \E b \in Byte : StoredAt(c, d, Address(lu, c), SetByte(c.mem, Address(lu, c), b))
  <2> DEFINE a == Address(lu, c)
  <2>1. PICK b \in Byte : b = c.reg[REG_A_CODE]
    BY TypedFields, Constants
  <2>2. PICK e : e = cpu_write_at_idx(c, a, b) /\ StoredAt(c, e, a, SetByte(c.mem, a, b))
    BY <1>0, IsStoredAt
  <2>3. lu.family \notin LoadsOfA
    BY <1>6 DEF LoadsOfA, StoresOfA
  <2>4. d = Updated(lu, e)
    BY <1>6, <2>1, <2>2, <2>3 DEF cpu_dispatch_storage, LoadsOfA, StoresOfA
  <2>5. SameControl(e, d)
    BY <2>2, <2>4, UpdatedSame DEF StoredAt, Leaves
  <2> QED BY <2>1, <2>2, <2>5, StoredThenSame
<1>7. ASSUME lu.family \in {"LD_HLR_N8", "LD_HLR_R8"}
      PROVE  \E b \in Byte : StoredAt(c, d, HL(c), SetByte(c.mem, HL(c), b))
  <2>1. \E b \in Byte : d = cpu_write_at_idx(c, HL(c), b)
    <3>1. cpu_read_data_after_opcode(c) \in Byte /\ cpu_reg_get(c, r) \in Byte
      BY Reads
    <3> QED BY <1>7, <3>1, SMT DEF cpu_dispatch_storage, LoadsOfA, StoresOfA
  <2> QED BY <1>0, <2>1, IsStoredAt
<1>8. ASSUME lu.family = "LD_N16R_SP"
      PROVE  StoredAt(c, d, cpu_read_addr_after_opcode(c),
                      Stored16(c.mem, cpu_read_addr_after_opcode(c), c.SP))
  <2>1. d = cpu_write16_at_idx(c, cpu_read_addr_after_opcode(c), c.SP)
    BY <1>8 DEF cpu_dispatch_storage, LoadsOfA, StoresOfA
  <2> QED BY <1>0, <2>1, IsStoredAt
<1>9. ASSUME lu.family = "PUSH_R16" PROVE PushedAt(c, d, Plus16(c.SP, -2), cpu_reg_pair_get(c, p))
  <2>1. d = cpu_SP_push(c, cpu_reg_pair_get(c, p))
    BY <1>9 DEF cpu_dispatch_storage, LoadsOfA, StoresOfA
  <2> QED BY <1>0, <2>1, IsPushedAt
<1> QED BY <1>1, <1>2, <1>3, <1>4, <1>5, <1>6, <1>7, <1>8, <1>9

LEMMA Below ==
  ASSUME NEW n \in Int, NEW r \in Int, n = r - 65536, 0 <= r, r <= 65535
  PROVE  n % 65536 = r
  BY SMT

(* The jumps, calls and returns leave a new PC, a new SP and what is pushed.*)
(* A checked push on the top address is done twice, and only the second    *)
(* writes.                                                                 *)
LEMMA PushedTwice ==
  ASSUME NEW c, Typed(c), PushFails(c), NEW w
  PROVE  PushedAt(c, PushChecked(c, w), Plus16(c.SP, -4), w)
<1>1. PICK sp \in Word : sp = c.SP
  BY TypedFields
<1>2. Plus16(sp, -2) = 65535 /\ Plus16(65535, -2) = Plus16(sp, -4)
  <2>1. sp \in Int /\ 0 <= sp /\ sp <= 65535
    BY InWord
  <2>2. (sp + -2) % 65536 = 65535
    BY <1>1 DEF PushFails, Plus16
  <2>3. sp = 1
    BY <2>1, <2>2, SMT
  <2>4. Plus16(1, -2) = 65535 /\ Plus16(65535, -2) = 65533 /\ Plus16(1, -4) = 65533
    <3>1. 1 + -2 = 65535 - 65536 /\ 65535 + -2 = 65533 /\ 1 + -4 = 65533 - 65536
      BY SMT
    <3>2. (1 + -2) % 65536 = 65535 /\ (1 + -4) % 65536 = 65533
      <4>1. PICK n \in Int, m \in Int, hi \in Int, lo \in Int :
              n = 1 + -2 /\ m = 1 + -4 /\ hi = 65535 /\ lo = 65533
        BY SMT
      <4>2. n = hi - 65536 /\ m = lo - 65536 /\ 0 <= lo /\ lo <= 65535 /\ 0 <= hi /\ hi <= 65535
        BY <3>1, <4>1
      <4>3. n % 65536 = hi /\ m % 65536 = lo
        BY <4>2, Below
      <4> QED BY <4>1, <4>3
    <3>3. (65535 + -2) % 65536 = 65533
      BY <3>1, SMT
    <3> QED BY <3>2, <3>3 DEF Plus16
  <2> QED BY <2>3, <2>4
<1>3. Fields(c)
  BY TypedHasFields
<1>4. PICK once : once = cpu_SP_push(c, w) /\ PushedAt(c, once, 65535, w)
  BY <1>1, <1>2, <1>3, IsPushedAt
<1>5. once.mem = c.mem /\ once.SP = 65535 /\ Fields(once)
  BY <1>4 DEF PushedAt, Leaves, Stored16
<1>6. PushedAt(once, cpu_SP_push(once, w), Plus16(sp, -4), w)
  BY <1>2, <1>5, IsPushedAt
<1>7. PushChecked(c, w) = cpu_SP_push(once, w)
  BY <1>4 DEF PushChecked
<1> QED BY <1>1, <1>4, <1>5, <1>6, <1>7 DEF PushedAt, Leaves

LEMMA JumpLeaves ==
  ASSUME NEW lu, NEW c, Typed(c), NEW word, NEW byte, NEW d, d = Jumped(lu, c, word, byte)
  PROVE  /\ lu.family \in {"JP_N16", "JP_CC_N16"} => Leaves(c, d, word, c.SP, c.IME, c.write_listener, c.mem)
         /\ lu.family = "JP_HL" => Leaves(c, d, HL(c), c.SP, c.IME, c.write_listener, c.mem)
         /\ lu.family \in {"JR_E8", "JR_CC_E8"}
              => Leaves(c, d, Plus16(c.PC, Signed(byte)), c.SP, c.IME, c.write_listener, c.mem)
         /\ lu.family = "CALL_N16" \/ (lu.family = "CALL_CC_N16" /\ ~PushFails(c))
              => Leaves(c, d, word, Plus16(c.SP, -2), c.IME, Plus16(c.SP, -2),
                        Stored16(c.mem, Plus16(c.SP, -2), c.PC))
         /\ lu.family = "RST_U3" /\ ~PushFails(c)
              => Leaves(c, d, 8 * extract_n3(lu.opcode), Plus16(c.SP, -2), c.IME, Plus16(c.SP, -2),
                        Stored16(c.mem, Plus16(c.SP, -2), c.PC))
         /\ lu.family \in {"CALL_CC_N16", "RST_U3"} /\ PushFails(c)
              => PushedAt(c, d, Plus16(c.SP, -4), c.PC)
         /\ lu.family \in {"RET", "RET_CC"}
              => Leaves(c, d, cpu_read16_at_idx(c, c.SP), Plus16(c.SP, 2), c.IME, c.write_listener, c.mem)
         /\ lu.family = "RETI"
              => Leaves(c, d, cpu_read16_at_idx(c, c.SP), Plus16(c.SP, 2), TRUE, c.write_listener, c.mem)
<1>0. Fields(c) /\ Leaves(c, c, c.PC, c.SP, c.IME, c.write_listener, c.mem)
  BY TypedHasFields DEF SameControl
<1>1. PICK sp : sp = Plus16(c.SP, -2)
  OBVIOUS
<1>2. PICK pushed : pushed = cpu_SP_push(c, c.PC)
                    /\ Leaves(c, pushed, c.PC, sp, c.IME, sp, Stored16(c.mem, sp, c.PC))
  BY <1>0, <1>1, IsPushedAt DEF PushedAt
<1>3. ASSUME lu.family \in {"JP_N16", "JP_CC_N16", "JP_HL", "JR_E8", "JR_CC_E8"}
      PROVE  /\ lu.family \in {"JP_N16", "JP_CC_N16"} => d = [c EXCEPT !.PC = word]
             /\ lu.family = "JP_HL" => d = [c EXCEPT !.PC = HL(c)]
             /\ lu.family \in {"JR_E8", "JR_CC_E8"} => d = [c EXCEPT !.PC = Plus16(c.PC, Signed(byte))]
  BY <1>3 DEF Jumped
<1>4. ASSUME lu.family = "CALL_N16" \/ (lu.family = "CALL_CC_N16" /\ ~PushFails(c))
      PROVE  Leaves(c, d, word, sp, c.IME, sp, Stored16(c.mem, sp, c.PC))
  <2>1. d = [pushed EXCEPT !.PC = word]
    BY <1>2, <1>4 DEF Jumped, PushChecked
  <2> QED BY <1>2, <2>1, SMT DEF Leaves, Fields
<1>5. ASSUME lu.family = "RST_U3" /\ ~PushFails(c)
      PROVE  Leaves(c, d, 8 * extract_n3(lu.opcode), sp, c.IME, sp, Stored16(c.mem, sp, c.PC))
  <2>1. d = [pushed EXCEPT !.PC = 8 * extract_n3(lu.opcode)]
    BY <1>2, <1>5 DEF Jumped, PushChecked
  <2> QED BY <1>2, <2>1, SMT DEF Leaves, Fields
<1>6. ASSUME lu.family \in {"CALL_CC_N16", "RST_U3"} /\ PushFails(c)
      PROVE  PushedAt(c, d, Plus16(c.SP, -4), c.PC)
  <2>1. d = PushChecked(c, c.PC)
    BY <1>6 DEF Jumped
  <2> QED BY <1>6, <2>1, PushedTwice
<1>7. PICK w, popped : /\ w = cpu_read16_at_idx(c, c.SP) /\ popped = [c EXCEPT !.SP = Plus16(c.SP, 2)]
                       /\ cpu_SP_pop(c) = [word |-> w, cpu |-> popped]
                       /\ Leaves(c, popped, c.PC, Plus16(c.SP, 2), c.IME, c.write_listener, c.mem)
  <2>1. PICK popped : popped = [c EXCEPT !.SP = Plus16(c.SP, 2)]
    OBVIOUS
  <2>2. cpu_SP_pop(c) = [word |-> cpu_read16_at_idx(c, c.SP), cpu |-> popped]
    BY <1>0, <2>1 DEF cpu_SP_pop
  <2>3. Leaves(c, popped, c.PC, Plus16(c.SP, 2), c.IME, c.write_listener, c.mem)
    BY <1>0, <2>1, SMT DEF Leaves, Fields
  <2> QED BY <2>1, <2>2, <2>3
<1>8. ASSUME lu.family \in {"RET", "RET_CC"}
      PROVE  Leaves(c, d, w, Plus16(c.SP, 2), c.IME, c.write_listener, c.mem)
  <2>1. d = [popped EXCEPT !.PC = w]
    BY <1>7, <1>8 DEF Jumped
  <2> QED BY <1>7, <2>1, SMT DEF Leaves, Fields
<1>9. ASSUME lu.family = "RETI"
      PROVE  Leaves(c, d, w, Plus16(c.SP, 2), TRUE, c.write_listener, c.mem)
  <2>1. PICK e : e = [popped EXCEPT !.IME = TRUE] /\ d = [e EXCEPT !.PC = w]
    <3>1. d = [[popped EXCEPT !.IME = TRUE] EXCEPT !.PC = w]
      BY <1>7, <1>9, SMT DEF Jumped
    <3> QED BY <3>1
  <2>2. Leaves(c, e, c.PC, Plus16(c.SP, 2), TRUE, c.write_listener, c.mem)
    BY <1>7, <2>1, SMT DEF Leaves, Fields
  <2> QED BY <2>1, <2>2, SMT DEF Leaves, Fields
<1>10. ASSUME lu.family \in {"JP_N16", "JP_CC_N16", "JP_HL", "JR_E8", "JR_CC_E8"}
       PROVE  /\ lu.family \in {"JP_N16", "JP_CC_N16"} => Leaves(c, d, word, c.SP, c.IME, c.write_listener, c.mem)
              /\ lu.family = "JP_HL" => Leaves(c, d, HL(c), c.SP, c.IME, c.write_listener, c.mem)
              /\ lu.family \in {"JR_E8", "JR_CC_E8"}
                   => Leaves(c, d, Plus16(c.PC, Signed(byte)), c.SP, c.IME, c.write_listener, c.mem)
  BY <1>0, <1>3, <1>10, SMT DEF Leaves, Fields
<1> QED BY <1>1, <1>4, <1>5, <1>6, <1>7, <1>8, <1>9, <1>10

-----------------------------------------------------------------------------
(* The CPU an instruction starts from, and the one it hands to the ALU, to  *)
(* the storage or to the jumps: cpu itself but for PC, the cycles left and *)
(* what a cycle resets.                                                    *)
SameData(c, d) ==
  d.reg = c.reg /\ d.F = c.F /\ d.SP = c.SP /\ d.IME = c.IME /\ d.mem = c.mem

Begun(d, pc, idle) ==
  /\ Typed(d) /\ SameData(cpu, d)
  /\ d.PC = pc /\ d.idle_time = idle /\ ~d.HALT /\ d.write_listener = 0

LEMMA SameReads ==
  ASSUME NEW c, NEW d, SameData(c, d)
  PROVE  /\ \A a : cpu_read_at_idx(d, a) = cpu_read_at_idx(c, a)
         /\ \A a : cpu_read16_at_idx(d, a) = cpu_read16_at_idx(c, a)
         /\ \A p : cpu_reg_pair_get(d, p) = cpu_reg_pair_get(c, p)
         /\ HL(d) = HL(c) /\ IfByte(d) = IfByte(c) /\ Pending(d) = Pending(c)
         /\ find_interrupt_index(d) = find_interrupt_index(c)
<1>1. \A a : cpu_read_at_idx(d, a) = cpu_read_at_idx(c, a)
  BY DEF SameData, cpu_read_at_idx
<1>2. \A a : cpu_read16_at_idx(d, a) = cpu_read16_at_idx(c, a)
  BY <1>1 DEF cpu_read16_at_idx
<1>3. \A p : cpu_reg_pair_get(d, p) = cpu_reg_pair_get(c, p)
  BY DEF SameData, cpu_reg_pair_get
<1>4. HL(d) = HL(c)
  BY <1>3 DEF HL
<1>5. IfByte(d) = IfByte(c)
  BY <1>1 DEF IfByte
<1>6. Pending(d) = Pending(c)
  BY <1>1, <1>5 DEF Pending
<1>7. find_interrupt_index(d) = find_interrupt_index(c)
  BY <1>6 DEF find_interrupt_index
<1> QED BY <1>1, <1>2, <1>3, <1>4, <1>5, <1>6, <1>7

LEMMA SameOperands ==
  ASSUME NEW c, NEW d, SameData(c, d), d.PC = c.PC
  PROVE  /\ cpu_read_data_after_opcode(d) = cpu_read_data_after_opcode(c)
         /\ cpu_read_addr_after_opcode(d) = cpu_read_addr_after_opcode(c)
         /\ Fetched(d) = Fetched(c)
         /\ \A lu : Address(lu, d) = Address(lu, c)
<1>1. /\ \A a : cpu_read_at_idx(d, a) = cpu_read_at_idx(c, a)
      /\ \A a : cpu_read16_at_idx(d, a) = cpu_read16_at_idx(c, a)
      /\ \A p : cpu_reg_pair_get(d, p) = cpu_reg_pair_get(c, p)
      /\ HL(d) = HL(c)
  BY SameReads
<1>2. /\ cpu_read_data_after_opcode(d) = cpu_read_data_after_opcode(c)
      /\ cpu_read_addr_after_opcode(d) = cpu_read_addr_after_opcode(c)
  BY <1>1 DEF cpu_read_data_after_opcode, cpu_read_addr_after_opcode
<1>3. Fetched(d) = Fetched(c)
  BY <1>1, <1>2 DEF Fetched
<1>4. ASSUME NEW lu PROVE Address(lu, d) = Address(lu, c)
  BY <1>1, <1>2, SMT DEF Address, SameData
<1> QED BY <1>2, <1>3, <1>4

(* What cpu_dispatch hands to the jumps, and to the ALU and the storage.    *)
Advanced(lu, c) == [c EXCEPT !.idle_time = (lu.cycles - 1) % 256, !.PC = Plus16(@, lu.bytes)]
Returned(lu, c) == [Advanced(lu, c) EXCEPT !.PC = c.PC]

LEMMA DispatchBegins ==
  ASSUME NEW lu, Decoded(lu), NEW c, Typed(c)
  PROVE  /\ Typed(Advanced(lu, c)) /\ Typed(Returned(lu, c))
         /\ SameData(c, Advanced(lu, c)) /\ SameData(c, Returned(lu, c))
         /\ Advanced(lu, c).PC = Plus16(c.PC, lu.bytes) /\ Returned(lu, c).PC = c.PC
         /\ \A d \in {Advanced(lu, c), Returned(lu, c)} :
              /\ d.idle_time = (lu.cycles - 1) % 256
              /\ d.HALT = c.HALT /\ d.write_listener = c.write_listener
<1>1. PICK idle \in Byte, pc \in Word : idle = (lu.cycles - 1) % 256 /\ pc = Plus16(c.PC, lu.bytes)
  <2>1. (lu.cycles - 1) % 256 \in Byte
    BY SMT DEF Decoded, Byte
  <2>2. Plus16(c.PC, lu.bytes) \in Word
    <3>1. c.PC \in Int /\ lu.bytes \in Int
      BY TypedFields, InWord DEF Decoded
    <3> QED BY <3>1, Wrapped
  <2> QED BY <2>1, <2>2
<1>2. PICK after, back : after = [c EXCEPT !.idle_time = idle, !.PC = pc] /\ back = [after EXCEPT !.PC = c.PC]
  OBVIOUS
<1>21. after = Advanced(lu, c) /\ back = Returned(lu, c)
  BY <1>1, <1>2 DEF Advanced, Returned
<1>3. Typed(after) /\ Typed(back)
  <2>1. Typed([c EXCEPT !.idle_time = idle])
    BY FieldsSet
  <2>2. Typed(after)
    BY <1>2, <2>1, FieldsSet
  <2> QED BY <1>2, <2>2, FieldsSet, TypedFields
<1>4. /\ SameData(c, after) /\ after.PC = pc /\ after.idle_time = idle
      /\ after.HALT = c.HALT /\ after.write_listener = c.write_listener
  BY <1>2, SMT DEF SameData, Typed
<1>5. /\ SameData(c, back) /\ back.PC = c.PC /\ back.idle_time = idle
      /\ back.HALT = c.HALT /\ back.write_listener = c.write_listener
  BY <1>2, SMT DEF SameData, Typed
<1> QED BY <1>1, <1>21, <1>3, <1>4, <1>5

LEMMA DispatchGives ==
  ASSUME NEW lu, NEW c
  PROVE  /\ lu.family \in AluFamilies => cpu_dispatch(lu, c) = cpu_dispatch_alu(lu, Returned(lu, c))
         /\ lu.family \in StorageFamilies => cpu_dispatch(lu, c) = cpu_dispatch_storage(lu, Returned(lu, c))
         /\ lu.family \in ControlFamilies
              => cpu_dispatch(lu, c) = Control(lu, Advanced(lu, c), cpu_read_addr_after_opcode(c),
                                               cpu_read_data_after_opcode(c))
         /\ lu.family = "UNKN" => cpu_dispatch(lu, c) = Advanced(lu, c)
<1>1. /\ \A f \in StorageFamilies : f \notin AluFamilies
      /\ \A f \in ControlFamilies : f \notin AluFamilies /\ f \notin StorageFamilies
      /\ "UNKN" \notin AluFamilies /\ "UNKN" \notin StorageFamilies /\ "UNKN" \notin ControlFamilies
  BY SMT DEF AluFamilies, StorageFamilies, LoadsOfA, StoresOfA, ControlFamilies, ConditionalFamilies
<1>2. cpu_dispatch(lu, c)
        = CASE lu.family \in AluFamilies     -> cpu_dispatch_alu(lu, Returned(lu, c))
            [] lu.family \in StorageFamilies -> cpu_dispatch_storage(lu, Returned(lu, c))
            [] lu.family \in ControlFamilies ->
                 Control(lu, Advanced(lu, c), cpu_read_addr_after_opcode(c), cpu_read_data_after_opcode(c))
            [] OTHER -> Advanced(lu, c)
  BY DEF cpu_dispatch, Advanced, Returned
<1> QED BY <1>1, <1>2

-----------------------------------------------------------------------------
(* An instruction that CPU.tla has, executed by a cycle.                   *)
Ready ==
  /\ TypeOK
  /\ cpu.idle_time = 0 /\ (cpu.HALT => Pending(cpu) # {}) /\ ~(cpu.IME /\ Pending(cpu) # {})

After(x) == Plus16(cpu.PC, x.bytes)

Becomes(x, pc, sp, ime, listener, mem) ==
  /\ cpu'.idle_time = (x.cycles - 1) % 256 /\ (cpu'.HALT <=> x.family = "HALT") /\ cpu'.HALT \in BOOLEAN
  /\ cpu'.PC = pc /\ cpu'.SP = sp /\ cpu'.IME = ime
  /\ cpu'.write_listener = listener /\ cpu'.mem = mem

LEMMA Dispatches ==
  ASSUME Ready, NEW x \in AnyInstruction, NEW pc, NEW sp, NEW ime, NEW listener, NEW mem,
         Becomes(x, pc, sp, ime, listener, mem)
  PROVE  /\ \A fams : x.family \in fams => ControlSide!Dispatch(x, fams)
         /\ listener = 0 /\ mem = cpu.mem => ControlSide!NothingStored
         /\ \A m : mem = m => ControlSide!Stored(Seen(m), listener)
         /\ ControlSide!After(x) = After(x)
<1>1. cpu.PC \in Word
  BY TypedFields DEF Ready, TypeOK
<1>2. x \in [a \in Word |-> AnyInstruction][cpu.PC]
  BY <1>1
<1>3. ControlSide!Active /\ ~(cpu.IME /\ ControlSide!Pending # {})
  BY PendingSeen DEF Ready, ControlSide!Active
<1>4. cpu'.HALT = (x.family = "HALT")
  BY Zenon DEF Becomes
<1>5. ASSUME NEW fams, x.family \in fams PROVE ControlSide!Dispatch(x, fams)
  BY <1>2, <1>3, <1>4, <1>5 DEF ControlSide!Dispatch, Becomes
<1>6. listener = 0 /\ mem = cpu.mem => ControlSide!NothingStored
  BY IsNothingStored DEF Becomes
<1>7. ControlSide!Stored(Seen(mem), listener)
  BY IsStored DEF Becomes
<1>8. ControlSide!After(x) = After(x)
  BY SameNumbers DEF ControlSide!After, After
<1> QED BY <1>5, <1>6, <1>7, <1>8

LEMMA ActsQuietly ==
  ASSUME Ready, NEW x \in AnyInstruction, NEW pc, NEW sp, NEW ime,
         Becomes(x, pc, sp, ime, 0, cpu.mem)
  PROVE  /\ (/\ x.family \in {"NOP", "STOP", "HALT", "JP_CC", "JR_CC", "CALL_CC", "RET_CC"}
             /\ pc = After(x) /\ sp = cpu.SP /\ ime = cpu.IME)
              => ControlSide!Proceed(x)
         /\ (x.family \in {"EI", "DI"} /\ pc = After(x) /\ sp = cpu.SP /\ ime = (x.family = "EI"))
              => ControlSide!SetIME(x)
         /\ (/\ x.family \in {"JP", "JP_CC", "JR", "JR_CC"} /\ pc = ControlSide!Target(x)
             /\ sp = cpu.SP /\ ime = cpu.IME)
              => ControlSide!Jump(x)
         /\ (/\ x.family \in {"RET", "RET_CC", "RETI"} /\ pc \in ControlSide!Popped
             /\ sp = Plus16(cpu.SP, 2) /\ ime = (cpu.IME \/ x.family = "RETI"))
              => ControlSide!Return(x)
         /\ (x.family = "UNKN" /\ pc = Plus16(cpu.PC, 2 * x.bytes) /\ sp = cpu.SP /\ ime = cpu.IME)
              => ControlSide!Unknown(x)
         /\ (x.family \in {"ALU", "LD"} /\ pc = cpu.PC /\ sp = cpu.SP /\ ime = cpu.IME)
              => ControlSide!DataOnly(x)
         /\ (/\ pc = cpu.PC /\ ime = cpu.IME
             /\ \/ x.family = "INC_SP" /\ sp = Plus16(cpu.SP, 1)
                \/ x.family = "POP" /\ sp = Plus16(cpu.SP, 2)
                \/ x.family = "LD_SP" /\ sp = x.arg)
              => ControlSide!SetSP(x)
<1>1. /\ \A fams : x.family \in fams => ControlSide!Dispatch(x, fams)
      /\ ControlSide!NothingStored
      /\ ControlSide!After(x) = After(x)
  BY Dispatches
<1>2. cpu'.PC = pc /\ cpu'.SP = sp /\ cpu'.IME = ime
  BY DEF Becomes
<1>3. (\A a, b : ControlSide!Plus(a, b) = Plus16(a, b)) /\ ControlSide!Top = 65535
  BY SameNumbers
<1>4. (/\ x.family \in {"NOP", "STOP", "HALT", "JP_CC", "JR_CC", "CALL_CC", "RET_CC"}
       /\ pc = After(x) /\ sp = cpu.SP /\ ime = cpu.IME)
        => ControlSide!Proceed(x)
  BY <1>1, <1>2 DEF ControlSide!Proceed, ControlSide!Conditional
<1>5. (x.family \in {"EI", "DI"} /\ pc = After(x) /\ sp = cpu.SP /\ ime = (x.family = "EI"))
        => ControlSide!SetIME(x)
  BY <1>1, <1>2, Zenon DEF ControlSide!SetIME
<1>6. (/\ x.family \in {"JP", "JP_CC", "JR", "JR_CC"} /\ pc = ControlSide!Target(x)
       /\ sp = cpu.SP /\ ime = cpu.IME)
        => ControlSide!Jump(x)
  BY <1>1, <1>2 DEF ControlSide!Jump
<1>7. (/\ x.family \in {"RET", "RET_CC", "RETI"} /\ pc \in ControlSide!Popped
       /\ sp = Plus16(cpu.SP, 2) /\ ime = (cpu.IME \/ x.family = "RETI"))
        => ControlSide!Return(x)
  <2> SUFFICES ASSUME x.family \in {"RET", "RET_CC", "RETI"}, pc \in ControlSide!Popped,
                      sp = Plus16(cpu.SP, 2), ime = (cpu.IME \/ x.family = "RETI")
               PROVE  ControlSide!Return(x)
    OBVIOUS
  <2>1. ControlSide!Dispatch(x, {"RET", "RET_CC", "RETI"}) /\ sp = ControlSide!Plus(cpu.SP, 2)
    BY <1>1, <1>3
  <2> QED BY <1>1, <1>2, <2>1, Zenon DEF ControlSide!Return
<1>8. (x.family = "UNKN" /\ pc = Plus16(cpu.PC, 2 * x.bytes) /\ sp = cpu.SP /\ ime = cpu.IME)
        => ControlSide!Unknown(x)
  BY <1>1, <1>2, <1>3 DEF ControlSide!Unknown
<1>9. (x.family \in {"ALU", "LD"} /\ pc = cpu.PC /\ sp = cpu.SP /\ ime = cpu.IME)
        => ControlSide!DataOnly(x)
  BY <1>1, <1>2 DEF ControlSide!DataOnly
<1>10. (/\ pc = cpu.PC /\ ime = cpu.IME
        /\ \/ x.family = "INC_SP" /\ sp = Plus16(cpu.SP, 1)
           \/ x.family = "POP" /\ sp = Plus16(cpu.SP, 2)
           \/ x.family = "LD_SP" /\ sp = x.arg)
         => ControlSide!SetSP(x)
  BY <1>1, <1>2, <1>3 DEF ControlSide!SetSP
<1> QED BY <1>4, <1>5, <1>6, <1>7, <1>8, <1>9, <1>10, Zenon

LEMMA ActsStoring ==
  ASSUME Ready, NEW x \in AnyInstruction, NEW pc, NEW sp, NEW listener, NEW mem,
         Becomes(x, pc, sp, cpu.IME, listener, mem)
  PROVE  /\ (/\ x.family = "ST" /\ pc = cpu.PC /\ sp = cpu.SP /\ listener = x.arg
             /\ \E b \in Byte : mem = SetByte(cpu.mem, x.arg, b))
              => ControlSide!Store(x)
         /\ (/\ x.family = "ST16" /\ pc = cpu.PC /\ sp = cpu.SP /\ listener = x.arg
             /\ mem = Stored16(cpu.mem, x.arg, cpu.SP))
              => ControlSide!StoreSP(x)
         /\ \A w \in Word :
              (/\ x.family = "PUSH" /\ pc = cpu.PC /\ sp = Plus16(cpu.SP, -2) /\ listener = sp
               /\ mem = Stored16(cpu.mem, sp, w))
                => ControlSide!PushWord(x, w)
         /\ (/\ x.family \in {"CALL", "CALL_CC", "RST"} /\ pc = x.arg
             /\ sp = Plus16(cpu.SP, -2) /\ (x.family # "CALL" => sp # 65535)
             /\ listener = sp /\ mem = Stored16(cpu.mem, sp, After(x)))
              => ControlSide!Call(x)
         /\ (/\ x.family \in {"CALL_CC", "RST"} /\ pc = After(x)
             /\ Plus16(cpu.SP, -2) = 65535 /\ sp = Plus16(cpu.SP, -4)
             /\ listener = sp /\ mem = Stored16(cpu.mem, sp, After(x)))
              => ControlSide!CallPushedTwice(x)
<1>1. /\ \A fams : x.family \in fams => ControlSide!Dispatch(x, fams)
      /\ ControlSide!Stored(Seen(mem), listener)
      /\ ControlSide!After(x) = After(x)
  BY Dispatches
<1>2. cpu'.PC = pc /\ cpu'.SP = sp /\ cpu'.IME = cpu.IME
  BY DEF Becomes
<1>3. (\A a, b : ControlSide!Plus(a, b) = Plus16(a, b)) /\ ControlSide!Top = 65535
  BY SameNumbers
<1>4. /\ Memory(cpu.mem) /\ ControlSide!Memory = Seen(cpu.mem)
      /\ cpu.PC \in Word /\ cpu.SP \in Word /\ x.arg \in Word /\ x.bytes \in Int
  BY TypedFields, MemorySeen, SMT DEF Ready, TypeOK, AnyInstruction
<1>5. Plus16(cpu.SP, -2) \in Word /\ Plus16(cpu.SP, -4) \in Word /\ After(x) \in Word
  <2>1. cpu.SP \in Int /\ cpu.PC \in Int /\ -2 \in Int /\ -4 \in Int
    BY <1>4, InWord
  <2> QED BY <1>4, <2>1, Wrapped DEF After
<1>6. ASSUME x.family = "ST", pc = cpu.PC, sp = cpu.SP, listener = x.arg,
             NEW b \in Byte, mem = SetByte(cpu.mem, x.arg, b)
      PROVE  ControlSide!Store(x)
  <2>1. ControlSide!Written(Seen(cpu.mem), x.arg, b) = Seen(mem)
    BY <1>4, <1>6, SeenWritten
  <2>2. b \in 0 .. 256 - 1
    BY SMT DEF Byte
  <2>3. \E byte \in 0 .. 256 - 1 : ControlSide!Stored(ControlSide!Written(ControlSide!Memory, x.arg, byte), x.arg)
    BY <1>1, <1>4, <1>6, <2>1, <2>2
  <2>4. ControlSide!Dispatch(x, {"ST"})
    BY <1>1, <1>6
  <2> QED BY <1>2, <1>6, <2>3, <2>4, Zenon DEF ControlSide!Store
<1>7. ASSUME NEW a \in Word, NEW w \in Word, mem = Stored16(cpu.mem, a, w), listener = a
      PROVE  ControlSide!Stored(ControlSide!Written16(ControlSide!Memory, a, w), a)
  BY <1>1, <1>4, <1>7, SeenWritten16
<1>8. ASSUME x.family = "ST16", pc = cpu.PC, sp = cpu.SP, listener = x.arg,
             mem = Stored16(cpu.mem, x.arg, cpu.SP)
      PROVE  ControlSide!StoreSP(x)
  BY <1>1, <1>2, <1>4, <1>7, <1>8 DEF ControlSide!StoreSP
<1>9. ASSUME NEW w \in Word, x.family = "PUSH", pc = cpu.PC, sp = Plus16(cpu.SP, -2), listener = sp,
             mem = Stored16(cpu.mem, sp, w)
      PROVE  ControlSide!PushWord(x, w)
  BY <1>1, <1>2, <1>3, <1>5, <1>7, <1>9 DEF ControlSide!PushWord
<1>10. ASSUME x.family \in {"CALL", "CALL_CC", "RST"}, pc = x.arg,
              sp = Plus16(cpu.SP, -2), x.family # "CALL" => sp # 65535,
              listener = sp, mem = Stored16(cpu.mem, sp, After(x))
       PROVE  ControlSide!Call(x)
  <2>1. ControlSide!Target(x) = x.arg
    BY <1>10 DEF ControlSide!Target
  <2> QED BY <1>1, <1>2, <1>3, <1>5, <1>7, <1>10, <2>1 DEF ControlSide!Call
<1>11. ASSUME x.family \in {"CALL_CC", "RST"}, pc = After(x),
              Plus16(cpu.SP, -2) = 65535, sp = Plus16(cpu.SP, -4),
              listener = sp, mem = Stored16(cpu.mem, sp, After(x))
       PROVE  ControlSide!CallPushedTwice(x)
  BY <1>1, <1>2, <1>3, <1>5, <1>7, <1>11 DEF ControlSide!CallPushedTwice
<1>12. (/\ x.family = "ST" /\ pc = cpu.PC /\ sp = cpu.SP /\ listener = x.arg
        /\ \E b \in Byte : mem = SetByte(cpu.mem, x.arg, b))
         => ControlSide!Store(x)
  BY <1>6
<1>13. (/\ x.family \in {"CALL", "CALL_CC", "RST"} /\ pc = x.arg
        /\ sp = Plus16(cpu.SP, -2) /\ (x.family # "CALL" => sp # 65535)
        /\ listener = sp /\ mem = Stored16(cpu.mem, sp, After(x)))
         => ControlSide!Call(x)
  BY <1>10
<1>14. (/\ x.family \in {"CALL_CC", "RST"} /\ pc = After(x)
        /\ Plus16(cpu.SP, -2) = 65535 /\ sp = Plus16(cpu.SP, -4)
        /\ listener = sp /\ mem = Stored16(cpu.mem, sp, After(x)))
         => ControlSide!CallPushedTwice(x)
  BY <1>11
<1> QED BY <1>8, <1>9, <1>12, <1>13, <1>14

-----------------------------------------------------------------------------
(* The instruction of CPU.tla that an entry of the tables stands for.      *)
LEMMA FamilyOfControl ==
  ASSUME NEW lu
  PROVE  /\ lu.family \in {"NOP", "STOP", "HALT", "UNKN", "RET", "RET_CC", "RETI"}
              => ControlFamily(lu) = lu.family
         /\ lu.family = "EDI" => ControlFamily(lu) = IF lu.opcode = OpcodeEI THEN "EI" ELSE "DI"
         /\ lu.family \in {"JP_N16", "JP_HL"} => ControlFamily(lu) = "JP"
         /\ lu.family = "JP_CC_N16" => ControlFamily(lu) = "JP_CC"
         /\ lu.family = "JR_E8" => ControlFamily(lu) = "JR"
         /\ lu.family = "JR_CC_E8" => ControlFamily(lu) = "JR_CC"
         /\ lu.family = "CALL_N16" => ControlFamily(lu) = "CALL"
         /\ lu.family = "CALL_CC_N16" => ControlFamily(lu) = "CALL_CC"
         /\ lu.family = "RST_U3" => ControlFamily(lu) = "RST"
  BY SMT DEF ControlFamily, StoresOfA

LEMMA FamilyOfData ==
  ASSUME NEW lu
  PROVE  /\ lu.family = "PUSH_R16" => ControlFamily(lu) = "PUSH"
         /\ lu.family = "POP_R16" => ControlFamily(lu) = "POP"
         /\ lu.family = "LD_N16R_SP" => ControlFamily(lu) = "ST16"
         /\ lu.family \in {"LD_HLR_N8", "LD_HLR_R8", "INC_HLR"} \cup StoresOfA => ControlFamily(lu) = "ST"
         /\ lu.family = "INC_R16SP"
              => ControlFamily(lu) = IF extract_reg_pair(lu.opcode) = REG_AF_CODE THEN "INC_SP" ELSE "ALU"
         /\ lu.family = "LD_R16SP_N16"
              => ControlFamily(lu) = IF extract_reg_pair(lu.opcode) = REG_AF_CODE THEN "LD_SP" ELSE "LD"
         /\ lu.family = "LD_SP_HL" => ControlFamily(lu) = "LD_SP"
         /\ lu.family \in LoadsOfA \cup {"LD_R8_HLR", "LD_R8_N8", "LD_R8_R8"} => ControlFamily(lu) = "LD"
         /\ lu.family \in AluFamilies \ {"INC_HLR", "INC_R16SP"} => ControlFamily(lu) = "ALU"
<1>1. /\ lu.family = "PUSH_R16" => ControlFamily(lu) = "PUSH"
      /\ lu.family = "POP_R16" => ControlFamily(lu) = "POP"
      /\ lu.family = "LD_N16R_SP" => ControlFamily(lu) = "ST16"
      /\ lu.family \in {"LD_HLR_N8", "LD_HLR_R8", "INC_HLR"} \cup StoresOfA => ControlFamily(lu) = "ST"
      /\ lu.family = "INC_R16SP"
           => ControlFamily(lu) = IF extract_reg_pair(lu.opcode) = REG_AF_CODE THEN "INC_SP" ELSE "ALU"
      /\ lu.family = "LD_R16SP_N16"
           => ControlFamily(lu) = IF extract_reg_pair(lu.opcode) = REG_AF_CODE THEN "LD_SP" ELSE "LD"
      /\ lu.family = "LD_SP_HL" => ControlFamily(lu) = "LD_SP"
  BY SMT DEF ControlFamily, StoresOfA
<1>2. lu.family \in LoadsOfA \cup {"LD_R8_HLR", "LD_R8_N8", "LD_R8_R8"} => ControlFamily(lu) = "LD"
  BY SMT DEF ControlFamily, StoresOfA, LoadsOfA, StorageFamilies
<1>3. lu.family \in AluFamilies \ {"INC_HLR", "INC_R16SP"} => ControlFamily(lu) = "ALU"
  BY SMT DEF ControlFamily, AluFamilies, StoresOfA, LoadsOfA, StorageFamilies
<1> QED BY <1>1, <1>2, <1>3, Zenon

LEMMA Abstracted ==
  ASSUME TypeOK, NEW lu, Decoded(lu), NEW x, x = Abstract(lu, cpu)
  PROVE  /\ x \in AnyInstruction
         /\ x.family = ControlFamily(lu) /\ x.bytes = lu.bytes /\ x.cycles = lu.cycles
         /\ x.arg = ControlArgument(lu, cpu)
<1>1. /\ x.family = ControlFamily(lu) /\ x.bytes = lu.bytes /\ x.cycles = lu.cycles
      /\ x.arg = ControlArgument(lu, cpu)
  BY DEF Abstract
<1>2. ControlFamily(lu) \in { "NOP", "STOP", "HALT", "EI", "DI", "JP", "JP_CC", "JR", "JR_CC", "CALL",
          "CALL_CC", "RST", "RET", "RET_CC", "RETI", "UNKN", "ALU", "INC_SP", "LD", "LD_SP", "ST", "ST16",
          "PUSH", "POP" }
  BY SMT DEF ControlFamily
<1>3. ControlArgument(lu, cpu) \in Word
  <2>0. Typed(cpu)
    BY DEF TypeOK
  <2>1. PICK rel \in Word : rel = Plus16(0, Signed(cpu_read_data_after_opcode(cpu)))
    <3>1. 0 \in Int /\ Signed(cpu_read_data_after_opcode(cpu)) \in Int
      BY <2>0, Reads, OpcodeFields
    <3> QED BY <3>1, Wrapped
  <2>2. PICK rst \in Word : rst = 8 * extract_n3(lu.opcode)
    <3>1. extract_n3(lu.opcode) \in 0 .. 7
      BY OpcodeFields DEF Decoded
    <3> QED BY <3>1, InWord, SMT
  <2>3. PICK hl \in Word, addr \in Word, word \in Word :
          hl = HL(cpu) /\ addr = Address(lu, cpu) /\ word = cpu_read_addr_after_opcode(cpu)
    BY <2>0, Reads, Addresses
  <2> QED BY <2>1, <2>2, <2>3, SMT DEF ControlArgument
<1> QED BY <1>1, <1>2, <1>3, SMT DEF Abstract, AnyInstruction, Decoded

(* It is enough to find the action of CPU.tla for it.                      *)
LEMMA ExecutedBy ==
  ASSUME NEW lu, lu = Fetched(cpu), NEW x, x = Abstract(lu, cpu),
         \/ x.family \in {"ALU", "LD"} /\ ControlSide!DataOnly(x)
         \/ x.family = "PUSH"
              /\ ControlSide!PushWord(x, cpu_reg_pair_get(cpu, extract_reg_pair(lu.opcode)))
         \/ x.family \notin {"ALU", "LD", "PUSH"} /\ ControlSide!Execute(x)
  PROVE  Executed
  BY SMT DEF Executed

LEMMA LeavesBecomes ==
  ASSUME NEW x, x.family # "HALT", NEW b, NEW pc0, Begun(b, pc0, (x.cycles - 1) % 256),
         NEW pc, NEW sp, NEW ime, NEW listener, NEW mem,
         Leaves(b, cpu', pc, sp, ime, listener, mem)
  PROVE  Becomes(x, pc, sp, ime, listener, mem)
<1>1. b.HALT \in BOOLEAN /\ ~b.HALT
  BY DEF Begun, Typed
<1> QED BY <1>1, SMT DEF Begun, Leaves, Becomes

-----------------------------------------------------------------------------
(* The arithmetic and the loads and stores.                                *)
LEMMA AluExecuted ==
  ASSUME Ready, NEW lu, Decoded(lu), lu = Fetched(cpu), lu.family \in AluFamilies,
         NEW b, Begun(b, cpu.PC, (lu.cycles - 1) % 256), cpu' = cpu_dispatch_alu(lu, b)
  PROVE  Executed
<1>1. PICK x \in AnyInstruction : /\ x = Abstract(lu, cpu)
        /\ x.family = ControlFamily(lu) /\ x.cycles = lu.cycles /\ x.arg = ControlArgument(lu, cpu)
  BY Abstracted DEF Ready
<1>2. Typed(b) /\ b.PC = cpu.PC /\ b.SP = cpu.SP /\ b.IME = cpu.IME /\ b.mem = cpu.mem
      /\ b.write_listener = 0 /\ HL(b) = HL(cpu)
  BY SameReads DEF Begun, SameData
<1>3. CASE lu.family = "INC_HLR"
  <2>0. PICK a : a = HL(cpu)
    OBVIOUS
  <2>1. PICK w \in Byte : StoredAt(b, cpu', a, SetByte(cpu.mem, a, w))
    BY <1>2, <1>3, <2>0, AluLeaves
  <2>2. x.family = "ST" /\ x.arg = a
    <3>1. x.arg = a
      BY <1>1, <1>3, <2>0, SMT DEF ControlArgument, StoresOfA
    <3> QED BY <1>1, <1>3, <3>1, FamilyOfData
  <2>3. Becomes(x, cpu.PC, cpu.SP, cpu.IME, a, SetByte(cpu.mem, a, w))
    BY <1>1, <1>2, <2>1, <2>2, LeavesBecomes DEF StoredAt
  <2>4. ControlSide!Store(x)
    BY <2>2, <2>3, ActsStoring
  <2> QED BY <1>1, <2>2, <2>4, ExecutedBy DEF ControlSide!Execute
<1>4. CASE lu.family = "INC_R16SP" /\ extract_reg_pair(lu.opcode) = REG_AF_CODE
  <2>1. MovedTo(b, cpu', Plus16(cpu.SP, 1))
    BY <1>2, <1>4, AluLeaves
  <2>2. x.family = "INC_SP"
    BY <1>1, <1>4, FamilyOfData
  <2>3. Becomes(x, cpu.PC, Plus16(cpu.SP, 1), cpu.IME, 0, cpu.mem)
    BY <1>1, <1>2, <2>1, <2>2, LeavesBecomes DEF MovedTo
  <2>4. ControlSide!SetSP(x)
    BY <2>2, <2>3, ActsQuietly
  <2> QED BY <1>1, <2>2, <2>4, ExecutedBy DEF ControlSide!Execute
<1>5. CASE lu.family # "INC_HLR" /\ ~(lu.family = "INC_R16SP" /\ extract_reg_pair(lu.opcode) = REG_AF_CODE)
  <2>1. SameControl(b, cpu')
    BY <1>2, <1>5, AluLeaves
  <2>2. x.family = "ALU"
    BY <1>1, <1>5, FamilyOfData
  <2>3. Becomes(x, cpu.PC, cpu.SP, cpu.IME, 0, cpu.mem)
    BY <1>1, <1>2, <2>1, <2>2, LeavesBecomes DEF SameControl
  <2>4. ControlSide!DataOnly(x)
    BY <2>2, <2>3, ActsQuietly
  <2> QED BY <1>1, <2>2, <2>4, ExecutedBy
<1> QED BY <1>3, <1>4, <1>5

LEMMA StorageExecuted ==
  ASSUME Ready, NEW lu, Decoded(lu), lu = Fetched(cpu), lu.family \in StorageFamilies,
         NEW b, Begun(b, cpu.PC, (lu.cycles - 1) % 256), cpu' = cpu_dispatch_storage(lu, b)
  PROVE  Executed
<1>1. PICK x \in AnyInstruction : /\ x = Abstract(lu, cpu)
        /\ x.family = ControlFamily(lu) /\ x.cycles = lu.cycles /\ x.arg = ControlArgument(lu, cpu)
  BY Abstracted DEF Ready
<1>2. Typed(b) /\ b.PC = cpu.PC /\ b.SP = cpu.SP /\ b.IME = cpu.IME /\ b.mem = cpu.mem
      /\ b.write_listener = 0 /\ HL(b) = HL(cpu)
  BY SameReads DEF Begun, SameData
<1>3. PICK word : word = cpu_read_addr_after_opcode(cpu) /\ word = cpu_read_addr_after_opcode(b)
  BY SameOperands DEF Begun
<1>4. PICK p : p = extract_reg_pair(lu.opcode)
  OBVIOUS
<1>5. CASE \/ lu.family \in LoadsOfA \cup {"LD_R8_HLR", "LD_R8_N8", "LD_R8_R8"}
           \/ lu.family = "LD_R16SP_N16" /\ p # REG_AF_CODE
  <2>1. SameControl(b, cpu')
    BY <1>2, <1>4, <1>5, StorageLeaves
  <2>2. x.family = "LD"
    BY <1>1, <1>4, <1>5, FamilyOfData
  <2>3. Becomes(x, cpu.PC, cpu.SP, cpu.IME, 0, cpu.mem)
    BY <1>1, <1>2, <2>1, <2>2, LeavesBecomes DEF SameControl
  <2>4. ControlSide!DataOnly(x)
    BY <2>2, <2>3, ActsQuietly
  <2> QED BY <1>1, <2>2, <2>4, ExecutedBy
<1>6. CASE \/ lu.family = "LD_R16SP_N16" /\ p = REG_AF_CODE
           \/ lu.family = "LD_SP_HL"
  <2>1. x.family = "LD_SP"
    BY <1>1, <1>4, <1>6, FamilyOfData
  <2>2. x.arg = IF lu.family = "LD_SP_HL" THEN HL(cpu) ELSE word
    BY <1>1, <1>3, <1>6, SMT DEF ControlArgument, StoresOfA
  <2>3. MovedTo(b, cpu', x.arg)
    BY <1>2, <1>3, <1>4, <1>6, <2>2, StorageLeaves
  <2>4. Becomes(x, cpu.PC, x.arg, cpu.IME, 0, cpu.mem)
    BY <1>1, <1>2, <2>1, <2>3, LeavesBecomes DEF MovedTo
  <2>5. ControlSide!SetSP(x)
    BY <2>1, <2>4, ActsQuietly
  <2> QED BY <1>1, <2>1, <2>5, ExecutedBy DEF ControlSide!Execute
<1>7. CASE lu.family = "POP_R16"
  <2>1. x.family = "POP"
    BY <1>1, <1>7, FamilyOfData
  <2>2. MovedTo(b, cpu', Plus16(cpu.SP, 2))
    BY <1>2, <1>7, StorageLeaves
  <2>3. Becomes(x, cpu.PC, Plus16(cpu.SP, 2), cpu.IME, 0, cpu.mem)
    BY <1>1, <1>2, <2>1, <2>2, LeavesBecomes DEF MovedTo
  <2>4. ControlSide!SetSP(x)
    BY <2>1, <2>3, ActsQuietly
  <2> QED BY <1>1, <2>1, <2>4, ExecutedBy DEF ControlSide!Execute
<1>8. CASE lu.family \in StoresOfA \cup {"LD_HLR_N8", "LD_HLR_R8"}
  <2>1. x.family = "ST"
    BY <1>1, <1>8, FamilyOfData
  <2>2. x.arg = IF lu.family \in StoresOfA THEN Address(lu, cpu) ELSE HL(cpu)
    BY <1>1, <1>8, SMT DEF ControlArgument, StoresOfA
  <2>3. Address(lu, b) = Address(lu, cpu)
    BY SameOperands DEF Begun
  <2>4. PICK w \in Byte : StoredAt(b, cpu', x.arg, SetByte(cpu.mem, x.arg, w))
    <3>1. lu.family \in StoresOfA => lu.family \notin {"LD_HLR_N8", "LD_HLR_R8"}
      BY SMT DEF StoresOfA
    <3>2. CASE lu.family \in StoresOfA
      BY <1>2, <2>2, <2>3, <3>2, StorageLeaves
    <3>3. CASE lu.family \in {"LD_HLR_N8", "LD_HLR_R8"}
      BY <1>2, <2>2, <3>1, <3>3, StorageLeaves
    <3> QED BY <1>8, <3>2, <3>3
  <2>5. Becomes(x, cpu.PC, cpu.SP, cpu.IME, x.arg, SetByte(cpu.mem, x.arg, w))
    BY <1>1, <1>2, <2>1, <2>4, LeavesBecomes DEF StoredAt
  <2>6. ControlSide!Store(x)
    BY <2>1, <2>5, ActsStoring
  <2> QED BY <1>1, <2>1, <2>6, ExecutedBy DEF ControlSide!Execute
<1>9. CASE lu.family = "LD_N16R_SP"
  <2>1. x.family = "ST16"
    BY <1>1, <1>9, FamilyOfData
  <2>2. x.arg = word
    BY <1>1, <1>3, <1>9, SMT DEF ControlArgument, StoresOfA
  <2>3. StoredAt(b, cpu', x.arg, Stored16(cpu.mem, x.arg, cpu.SP))
    BY <1>2, <1>3, <1>9, <2>2, StorageLeaves
  <2>4. Becomes(x, cpu.PC, cpu.SP, cpu.IME, x.arg, Stored16(cpu.mem, x.arg, cpu.SP))
    BY <1>1, <1>2, <2>1, <2>3, LeavesBecomes DEF StoredAt
  <2>5. ControlSide!StoreSP(x)
    BY <2>1, <2>4, ActsStoring
  <2> QED BY <1>1, <2>1, <2>5, ExecutedBy DEF ControlSide!Execute
<1>10. CASE lu.family = "PUSH_R16"
  <2>1. x.family = "PUSH"
    BY <1>1, <1>10, FamilyOfData
  <2>2. PICK w \in Word : w = cpu_reg_pair_get(cpu, p) /\ w = cpu_reg_pair_get(b, p)
    <3>1. cpu_reg_pair_get(b, p) = cpu_reg_pair_get(cpu, p)
      BY SameReads DEF Begun
    <3>2. p \in 0 .. 3
      BY <1>4, OpcodeFields DEF Decoded
    <3> QED BY <1>2, <3>1, <3>2, Reads
  <2>3. PICK sp : sp = Plus16(cpu.SP, -2)
    OBVIOUS
  <2>4. PushedAt(b, cpu', sp, w)
    BY <1>2, <1>4, <1>10, <2>2, <2>3, StorageLeaves
  <2>5. Becomes(x, cpu.PC, sp, cpu.IME, sp, Stored16(cpu.mem, sp, w))
    BY <1>1, <1>2, <2>1, <2>4, LeavesBecomes DEF PushedAt
  <2>6. ControlSide!PushWord(x, w)
    BY <2>1, <2>3, <2>5, ActsStoring
  <2> QED BY <1>1, <1>4, <2>1, <2>2, <2>6, ExecutedBy
<1> QED BY <1>5, <1>6, <1>7, <1>8, <1>9, <1>10 DEF StorageFamilies

-----------------------------------------------------------------------------
(* What a return finds on the stack is what CPU.tla says may be read there. *)
LEMMA ReadsReadable ==
  ASSUME TypeOK, NEW a \in Word
  PROVE  cpu_read16_at_idx(cpu, a) \in ControlSide!Readable16At(a)
<1>0. Typed(cpu)
  BY DEF TypeOK
<1>1. ASSUME NEW b
      PROVE  cpu_read_at_idx(cpu, b) \in ControlSide!ReadableAt(b)
  <2>1. PICK v \in Byte : v = cpu_read_at_idx(cpu, b)
    BY <1>0, Reads
  <2>2. v \in 0 .. 256 - 1
    BY SMT DEF Byte
  <2>3. ControlSide!BitsOf(v) = LinesIn(v) /\ ControlSide!RegIE = REG_IE
    BY SameNumbers
  <2>4. b \in Followed => v = FollowedBytes(cpu)[b]
    BY <2>1 DEF FollowedBytes
  <2>5. b = REG_IE => LinesIn(v) = LinesUp(cpu, REG_IE)
    BY <2>1 DEF LinesIn, LinesUp
  <2>6. b = REG_IF => LinesIn(v) = LinesUp(cpu, REG_IF)
    BY <2>1 DEF LinesIn, LinesUp
  <2> QED BY <2>1, <2>2, <2>3, <2>4, <2>5, <2>6, Zenon DEF ControlSide!ReadableAt
<1>2. CASE a = 65535
  <2>1. cpu_read16_at_idx(cpu, a) = 255
    BY <1>2 DEF cpu_read16_at_idx
  <2>2. ControlSide!Readable16At(a) = {256 - 1}
    <3>1. ControlSide!Top = 65535
      BY SameNumbers
    <3> QED BY <1>2, <3>1 DEF ControlSide!Readable16At
  <2> QED BY <2>1, <2>2, SMT
<1>3. CASE a # 65535
  <2>1. PICK lo \in Byte, hi \in Byte : lo = cpu_read_at_idx(cpu, a) /\ hi = cpu_read_at_idx(cpu, a + 1)
    BY <1>0, Reads
  <2>2. cpu_read16_at_idx(cpu, a) = ControlSide!merge8(lo, hi)
    <3>1. cpu_read16_at_idx(cpu, a) = merge8(lo, hi)
      BY <1>3, <2>1, SMT DEF cpu_read16_at_idx
    <3> QED BY <3>1, SameNumbers
  <2>3. lo \in ControlSide!ReadableAt(a) /\ hi \in ControlSide!ReadableAt(a + 1)
    BY <1>1, <2>1
  <2>4. ControlSide!Readable16At(a)
          = {ControlSide!merge8(l, h) : l \in ControlSide!ReadableAt(a), h \in ControlSide!ReadableAt(a + 1)}
    <3>1. ControlSide!Top = 65535
      BY SameNumbers
    <3> QED BY <1>3, <3>1 DEF ControlSide!Readable16At
  <2> QED BY <2>2, <2>3, <2>4
<1> QED BY <1>2, <1>3

(* A relative jump may bring its offset into range before it adds it or     *)
(* after.                                                                  *)
LEMMA OffsetWrapped ==
  ASSUME NEW a \in Word, NEW s \in Int, -128 <= s, s <= 127
  PROVE  Plus16(a, Plus16(0, s)) = Plus16(a, s)
<1>1. a \in Int /\ 0 <= a /\ a <= 65535
  BY InWord
<1>2. PICK n \in Int : n = a + s
  BY <1>1
<1>3. CASE s >= 0
  <2>1. (0 + s) % 65536 = s
    BY <1>3, SMT
  <2>2. Plus16(0, s) = s
    BY <2>1 DEF Plus16
  <2> QED BY <2>2
<1>4. CASE s < 0
  <2>1. PICK r \in Int : r = s + 65536
    BY SMT
  <2>2. Plus16(0, s) = r
    <3>1. s = r - 65536 /\ 0 <= r /\ r <= 65535 /\ 0 + s = s
      BY <1>4, <2>1, SMT
    <3>2. s % 65536 = r
      BY <3>1, Below
    <3>3. (0 + s) % 65536 = r
      BY <3>1, <3>2, SMT
    <3> QED BY <3>3 DEF Plus16
  <2>3. PICK m \in Int : m = a + r /\ m = n + 65536
    BY <1>1, <1>2, <2>1, SMT
  <2>4. m % 65536 = n % 65536
    <3>1. CASE n < 0
      <4>1. n = m - 65536 /\ 0 <= m /\ m <= 65535
        BY <1>1, <1>2, <2>3, <3>1, SMT
      <4>2. n % 65536 = m
        BY <4>1, Below
      <4>3. m % 65536 = m
        BY <4>1, SMT
      <4> QED BY <4>2, <4>3
    <3>2. CASE n >= 0
      <4>1. n <= 65535
        BY <1>1, <1>2, <1>4, SMT
      <4> QED BY <2>3, <3>2, <4>1, SMT
    <3> QED BY <3>1, <3>2
  <2>5. Plus16(a, r) = m % 65536 /\ Plus16(a, s) = n % 65536
    BY <1>2, <2>3 DEF Plus16
  <2> QED BY <2>2, <2>4, <2>5
<1> QED BY <1>3, <1>4

LEMMA AdvancedTwice ==
  ASSUME NEW a \in Word, NEW b \in 1 .. 3
  PROVE  Plus16(Plus16(a, b), b) = Plus16(a, 2 * b)
<1>1. a \in Int /\ 0 <= a /\ a <= 65535
  BY InWord
<1>2. PICK n \in Int, m \in Int : n = (a + b) % 65536 /\ m = 2 * b
  BY <1>1, SMT
<1>3. (n + b) % 65536 = (a + m) % 65536
  BY <1>1, <1>2, SMT
<1>4. Plus16(a, b) = n /\ Plus16(n, b) = (n + b) % 65536 /\ Plus16(a, m) = (a + m) % 65536
  BY <1>2 DEF Plus16
<1> QED BY <1>2, <1>3, <1>4

-----------------------------------------------------------------------------
(* The instructions that cpu_dispatch executes itself.                     *)
LEMMA JumpExecuted ==
  ASSUME Ready, NEW lu, Decoded(lu), lu = Fetched(cpu),
         NEW b, Begun(b, Plus16(cpu.PC, lu.bytes), (lu.cycles - 1) % 256),
         lu.family \in ControlFamilies \ {"EDI", "HALT", "STOP", "NOP"},
         cpu' = Jumped(lu, b, cpu_read_addr_after_opcode(cpu), cpu_read_data_after_opcode(cpu))
  PROVE  Executed
<1>1. PICK x \in AnyInstruction :
        /\ x = Abstract(lu, cpu) /\ x.family = ControlFamily(lu) /\ x.bytes = lu.bytes
        /\ x.cycles = lu.cycles /\ x.arg = ControlArgument(lu, cpu)
  BY Abstracted DEF Ready
<1>2. /\ Typed(b) /\ b.PC = After(x) /\ b.SP = cpu.SP /\ b.IME = cpu.IME /\ b.mem = cpu.mem
      /\ b.write_listener = 0 /\ HL(b) = HL(cpu)
      /\ cpu_read16_at_idx(b, b.SP) = cpu_read16_at_idx(cpu, cpu.SP)
  BY <1>1, SameReads DEF Begun, SameData, After
<1>3. PICK word, byte : word = cpu_read_addr_after_opcode(cpu) /\ byte = cpu_read_data_after_opcode(cpu)
  OBVIOUS
<1>4. PICK sp : sp = Plus16(cpu.SP, -2)
  OBVIOUS
<1>5. CASE lu.family \in {"JP_N16", "JP_CC_N16", "JP_HL", "JR_E8", "JR_CC_E8"}
  <2>1. x.family \in {"JP", "JP_CC", "JR", "JR_CC"}
        /\ (x.family \in {"JR", "JR_CC"} <=> lu.family \in {"JR_E8", "JR_CC_E8"})
    BY <1>1, <1>5, FamilyOfControl
  <2>2. PICK s \in Int : s = Signed(byte) /\ -128 <= s /\ s <= 127
    <3>1. PICK v \in Byte : v = byte
      BY <1>3, Reads DEF Ready, TypeOK
    <3>2. v \in Int /\ 0 <= v /\ v <= 255
      BY SMT DEF Byte
    <3> QED BY <3>1, <3>2, SMT DEF Signed
  <2>3. x.arg = IF lu.family = "JP_HL" THEN HL(cpu)
                ELSE IF lu.family \in {"JR_E8", "JR_CC_E8"} THEN Plus16(0, s) ELSE word
    BY <1>1, <1>3, <1>5, <2>2, SMT DEF ControlArgument, StoresOfA
  <2>4. After(x) \in Word
    BY <1>2, TypedFields
  <2>5. Plus16(After(x), Plus16(0, s)) = Plus16(After(x), s)
    BY <2>2, <2>4, OffsetWrapped
  <2>6. ControlSide!After(x) = After(x) /\ \A v, w : ControlSide!Plus(v, w) = Plus16(v, w)
    BY SameNumbers DEF ControlSide!After, After
  <2>7. ControlSide!Target(x) = IF lu.family \in {"JR_E8", "JR_CC_E8"} THEN Plus16(After(x), s)
                                ELSE IF lu.family = "JP_HL" THEN HL(cpu) ELSE word
    <3>1. CASE lu.family \in {"JR_E8", "JR_CC_E8"}
      BY <2>1, <2>3, <2>5, <2>6, <3>1 DEF ControlSide!Target
    <3>2. CASE lu.family \notin {"JR_E8", "JR_CC_E8"}
      BY <2>1, <2>3, <3>2 DEF ControlSide!Target
    <3> QED BY <3>1, <3>2
  <2>8. Leaves(b, cpu', ControlSide!Target(x), cpu.SP, cpu.IME, 0, cpu.mem)
    <3>1. CASE lu.family \in {"JR_E8", "JR_CC_E8"}
      BY <1>2, <1>3, <2>2, <2>7, <3>1, JumpLeaves
    <3>2. CASE lu.family \in {"JP_N16", "JP_CC_N16"}
      BY <1>2, <1>3, <2>7, <3>2, JumpLeaves
    <3>3. CASE lu.family = "JP_HL"
      BY <1>2, <1>3, <2>7, <3>3, JumpLeaves
    <3> QED BY <1>5, <3>1, <3>2, <3>3
  <2>9. Becomes(x, ControlSide!Target(x), cpu.SP, cpu.IME, 0, cpu.mem)
    BY <1>1, <2>1, <2>8, LeavesBecomes
  <2>10. ControlSide!Jump(x)
    BY <2>1, <2>9, ActsQuietly
  <2> QED BY <1>1, <2>1, <2>10, ExecutedBy DEF ControlSide!Execute
<1>6. CASE \/ lu.family = "CALL_N16"
           \/ lu.family \in {"CALL_CC_N16", "RST_U3"} /\ ~PushFails(b)
  <2>1. x.family \in {"CALL", "CALL_CC", "RST"} /\ (x.family = "CALL" <=> lu.family = "CALL_N16")
    BY <1>1, <1>6, FamilyOfControl
  <2>2. x.arg = IF lu.family = "RST_U3" THEN 8 * extract_n3(lu.opcode) ELSE word
    BY <1>1, <1>3, <1>6, SMT DEF ControlArgument, StoresOfA
  <2>3. Leaves(b, cpu', x.arg, sp, cpu.IME, sp, Stored16(cpu.mem, sp, After(x)))
    <3>1. CASE lu.family = "RST_U3"
      BY <1>2, <1>3, <1>4, <1>6, <2>2, <3>1, JumpLeaves
    <3>2. CASE lu.family # "RST_U3"
      BY <1>2, <1>3, <1>4, <1>6, <2>2, <3>2, JumpLeaves
    <3> QED BY <3>1, <3>2
  <2>4. Becomes(x, x.arg, sp, cpu.IME, sp, Stored16(cpu.mem, sp, After(x)))
    BY <1>1, <2>1, <2>3, LeavesBecomes
  <2>5. x.family # "CALL" => sp # 65535
    BY <1>2, <1>4, <1>6, <2>1 DEF PushFails
  <2>6. ControlSide!Call(x)
    BY <1>4, <2>1, <2>4, <2>5, ActsStoring
  <2> QED BY <1>1, <2>1, <2>6, ExecutedBy DEF ControlSide!Execute
<1>7. CASE lu.family \in {"CALL_CC_N16", "RST_U3"} /\ PushFails(b)
  <2>1. x.family \in {"CALL_CC", "RST"}
    BY <1>1, <1>7, FamilyOfControl
  <2>2. PICK low : low = Plus16(cpu.SP, -4)
    OBVIOUS
  <2>3. PushedAt(b, cpu', low, After(x))
    BY <1>2, <1>3, <1>7, <2>2, JumpLeaves
  <2>4. Becomes(x, After(x), low, cpu.IME, low, Stored16(cpu.mem, low, After(x)))
    BY <1>1, <1>2, <2>1, <2>3, LeavesBecomes DEF PushedAt
  <2>5. Plus16(cpu.SP, -2) = 65535
    BY <1>2, <1>7 DEF PushFails
  <2>6. ControlSide!CallPushedTwice(x)
    BY <2>1, <2>2, <2>4, <2>5, ActsStoring
  <2> QED BY <1>1, <2>1, <2>6, ExecutedBy DEF ControlSide!Execute
<1>8. CASE lu.family \in {"RET", "RET_CC", "RETI"}
  <2>1. x.family = lu.family
    BY <1>1, <1>8, FamilyOfControl
  <2>2. PICK pc : pc = cpu_read16_at_idx(cpu, cpu.SP) /\ pc \in ControlSide!Popped
    BY ReadsReadable, TypedFields DEF Ready, TypeOK, ControlSide!Popped
  <2>3. PICK ime : ime = (cpu.IME \/ lu.family = "RETI") /\ ime = IF lu.family = "RETI" THEN TRUE ELSE cpu.IME
    <3>1. cpu.IME \in BOOLEAN
      BY TypedFields DEF Ready, TypeOK
    <3> QED BY <3>1, Zenon
  <2>4. Leaves(b, cpu', pc, Plus16(cpu.SP, 2), ime, 0, cpu.mem)
    <3>1. CASE lu.family = "RETI"
      BY <1>2, <1>3, <2>2, <2>3, <3>1, JumpLeaves
    <3>2. CASE lu.family \in {"RET", "RET_CC"}
      BY <1>2, <1>3, <2>2, <2>3, <3>2, JumpLeaves
    <3> QED BY <1>8, <3>1, <3>2
  <2>5. Becomes(x, pc, Plus16(cpu.SP, 2), ime, 0, cpu.mem)
    BY <1>1, <1>8, <2>1, <2>4, LeavesBecomes
  <2>6. ControlSide!Return(x)
    BY <1>8, <2>1, <2>2, <2>3, <2>5, ActsQuietly
  <2> QED BY <1>1, <1>8, <2>1, <2>6, ExecutedBy DEF ControlSide!Execute
<1> QED BY <1>5, <1>6, <1>7, <1>8 DEF ControlFamilies, ConditionalFamilies

LEMMA ControlExecuted ==
  ASSUME Ready, NEW lu, Decoded(lu), lu = Fetched(cpu), lu.family \in ControlFamilies,
         NEW b, Begun(b, Plus16(cpu.PC, lu.bytes), (lu.cycles - 1) % 256),
         cpu' = Control(lu, b, cpu_read_addr_after_opcode(cpu), cpu_read_data_after_opcode(cpu))
  PROVE  Executed
<1>1. PICK x \in AnyInstruction :
        /\ x = Abstract(lu, cpu) /\ x.family = ControlFamily(lu) /\ x.bytes = lu.bytes
        /\ x.cycles = lu.cycles /\ x.arg = ControlArgument(lu, cpu)
  BY Abstracted DEF Ready
<1>2. /\ Typed(b) /\ b.PC = After(x) /\ b.SP = cpu.SP /\ b.IME = cpu.IME /\ b.mem = cpu.mem
      /\ b.write_listener = 0 /\ b.HALT = FALSE /\ b.idle_time = (x.cycles - 1) % 256
      /\ Leaves(b, b, After(x), cpu.SP, cpu.IME, 0, cpu.mem)
  <2>1. b.HALT \in BOOLEAN /\ ~b.HALT
    BY DEF Begun, Typed
  <2> QED BY <1>1, <2>1, TypedHasFields DEF Begun, SameData, After, SameControl
<1>3. CASE lu.family = "EDI"
  <2>1. PICK ime : ime = (lu.opcode = OpcodeEI) /\ ime \in BOOLEAN
    OBVIOUS
  <2>2. cpu' = [b EXCEPT !.IME = ime]
    BY <1>3, <2>1 DEF Control, ConditionalFamilies
  <2>3. x.family \in {"EI", "DI"} /\ ime = (x.family = "EI")
    BY <1>1, <1>3, <2>1, FamilyOfControl
  <2>4. Leaves(b, cpu', After(x), cpu.SP, ime, 0, cpu.mem)
    BY <1>2, <2>2, SMT DEF Leaves, Fields
  <2>5. Becomes(x, After(x), cpu.SP, ime, 0, cpu.mem)
    BY <1>1, <2>3, <2>4, LeavesBecomes
  <2>6. ControlSide!SetIME(x)
    BY <2>3, <2>5, ActsQuietly
  <2> QED BY <1>1, <2>3, <2>6, ExecutedBy DEF ControlSide!Execute
<1>4. CASE lu.family = "HALT"
  <2>1. cpu' = [b EXCEPT !.HALT = TRUE]
    BY <1>4 DEF Control, ConditionalFamilies
  <2>2. x.family = "HALT"
    BY <1>1, <1>4, FamilyOfControl
  <2>3. Becomes(x, After(x), cpu.SP, cpu.IME, 0, cpu.mem)
    BY <1>2, <2>1, <2>2, SMT DEF Leaves, Fields, Becomes
  <2>4. ControlSide!Proceed(x)
    BY <2>2, <2>3, ActsQuietly
  <2> QED BY <1>1, <2>2, <2>4, ExecutedBy DEF ControlSide!Execute
<1>5. CASE \/ lu.family \in {"STOP", "NOP"}
           \/ lu.family \in ConditionalFamilies /\ ~checkCCconditions(b, lu.opcode)
  <2>1. cpu' = b
    BY <1>5 DEF Control, ConditionalFamilies
  <2>2. x.family \in {"NOP", "STOP", "JP_CC", "JR_CC", "CALL_CC", "RET_CC"}
    BY <1>1, <1>5, FamilyOfControl DEF ConditionalFamilies
  <2>3. Becomes(x, After(x), cpu.SP, cpu.IME, 0, cpu.mem)
    <3>1. Leaves(b, cpu', After(x), cpu.SP, cpu.IME, 0, cpu.mem)
      BY <1>2, <2>1
    <3> QED BY <1>1, <2>2, <3>1, LeavesBecomes
  <2>4. ControlSide!Proceed(x)
    BY <2>2, <2>3, ActsQuietly
  <2> QED BY <1>1, <2>2, <2>4, ExecutedBy DEF ControlSide!Execute
<1>6. CASE /\ lu.family \notin {"EDI", "HALT", "STOP", "NOP"}
           /\ ~(lu.family \in ConditionalFamilies /\ ~checkCCconditions(b, lu.opcode))
  <2>1. cpu' = Jumped(lu, b, cpu_read_addr_after_opcode(cpu), cpu_read_data_after_opcode(cpu))
    BY <1>6 DEF Control
  <2> QED BY <1>6, <2>1, JumpExecuted
<1> QED BY <1>3, <1>4, <1>5, <1>6

(* Dispatching an instruction, twice where M_REQUIRE_NO_ERR does: an unknown*)
(* one, and a register loaded from itself.                                 *)
LEMMA UnknownExecuted ==
  ASSUME Ready, NEW lu, Decoded(lu), lu = Fetched(cpu), lu.family = "UNKN",
         NEW b, Begun(b, Plus16(Plus16(cpu.PC, lu.bytes), lu.bytes), (lu.cycles - 1) % 256), cpu' = b
  PROVE  Executed
<1>1. PICK x \in AnyInstruction : /\ x = Abstract(lu, cpu)
        /\ x.family = ControlFamily(lu) /\ x.bytes = lu.bytes /\ x.cycles = lu.cycles
  BY Abstracted DEF Ready
<1>2. x.family = "UNKN"
  BY <1>1, FamilyOfControl
<1>3. PICK pc : /\ pc = Plus16(Plus16(cpu.PC, lu.bytes), lu.bytes)
                /\ pc = Plus16(cpu.PC, 2 * x.bytes)
  <2>1. cpu.PC \in Word /\ lu.bytes \in 1 .. 3
    BY TypedFields DEF Ready, TypeOK, Decoded
  <2> QED BY <1>1, <2>1, AdvancedTwice
<1>4. Leaves(b, b, pc, cpu.SP, cpu.IME, 0, cpu.mem)
  BY <1>3, TypedHasFields DEF Begun, SameData, SameControl, Leaves
<1>5. Leaves(b, cpu', pc, cpu.SP, cpu.IME, 0, cpu.mem)
  BY <1>4
<1>6. Becomes(x, pc, cpu.SP, cpu.IME, 0, cpu.mem)
  BY <1>1, <1>2, <1>5, LeavesBecomes
<1>7. ControlSide!Unknown(x)
  BY <1>2, <1>3, <1>6, ActsQuietly
<1> QED BY <1>1, <1>2, <1>7, ExecutedBy DEF ControlSide!Execute

LEMMA BegunFrom ==
  ASSUME NEW lu, Decoded(lu), NEW c, NEW pc, NEW idle, Begun(c, pc, idle)
  PROVE  /\ Begun(Advanced(lu, c), Plus16(pc, lu.bytes), (lu.cycles - 1) % 256)
         /\ Begun(Returned(lu, c), pc, (lu.cycles - 1) % 256)
<1>1. Typed(c)
  BY DEF Begun
<1> QED BY <1>1, DispatchBegins DEF Begun, SameData

LEMMA FetchedExecuted ==
  ASSUME Ready, NEW c, Begun(c, cpu.PC, 0), cpu' = cpu_do_cycle(c)
  PROVE  Executed
<1>1. Typed(cpu) /\ Typed(c) /\ SameData(cpu, c) /\ c.PC = cpu.PC
  BY DEF Ready, TypeOK, Begun
<1>2. PICK lu : lu = Fetched(cpu) /\ lu = Fetched(c) /\ Decoded(lu)
  BY <1>1, FetchedDecoded, SameOperands
<1>3. cpu' = IF Fails(lu) THEN cpu_dispatch(lu, cpu_dispatch(lu, c)) ELSE cpu_dispatch(lu, c)
  <2>1. ~(c.IME /\ Pending(c) # {})
    BY <1>1, SameReads DEF Ready, SameData
  <2> QED BY <1>2, <2>1 DEF cpu_do_cycle
<1>4. PICK after, back : after = Advanced(lu, c) /\ back = Returned(lu, c)
  OBVIOUS
<1>5. /\ Begun(after, Plus16(cpu.PC, lu.bytes), (lu.cycles - 1) % 256)
      /\ Begun(back, cpu.PC, (lu.cycles - 1) % 256)
  BY <1>2, <1>4, BegunFrom
<1>6. CASE ~Fails(lu)
  <2>1. lu.family \in AluFamilies \cup StorageFamilies \cup ControlFamilies /\ cpu' = cpu_dispatch(lu, c)
    BY <1>3, <1>6 DEF Fails
  <2>2. CASE lu.family \in AluFamilies
    BY <1>2, <1>4, <1>5, <2>1, <2>2, DispatchGives, AluExecuted
  <2>3. CASE lu.family \in StorageFamilies
    BY <1>2, <1>4, <1>5, <2>1, <2>3, DispatchGives, StorageExecuted
  <2>4. CASE lu.family \in ControlFamilies
    <3>1. /\ cpu_read_addr_after_opcode(c) = cpu_read_addr_after_opcode(cpu)
          /\ cpu_read_data_after_opcode(c) = cpu_read_data_after_opcode(cpu)
      BY <1>1, SameOperands
    <3>2. cpu' = Control(lu, after, cpu_read_addr_after_opcode(cpu), cpu_read_data_after_opcode(cpu))
      BY <1>4, <2>1, <2>4, <3>1, DispatchGives
    <3> QED BY <1>2, <1>5, <2>4, <3>2, ControlExecuted
  <2> QED BY <2>1, <2>2, <2>3, <2>4
<1>7. CASE Fails(lu) /\ lu.family = "UNKN"
  <2>1. cpu' = Advanced(lu, after)
    BY <1>3, <1>4, <1>7, DispatchGives
  <2>2. Begun(cpu', Plus16(Plus16(cpu.PC, lu.bytes), lu.bytes), (lu.cycles - 1) % 256)
    BY <1>2, <1>5, <2>1, BegunFrom
  <2> QED BY <1>2, <1>7, <2>2, UnknownExecuted
<1>8. CASE lu.family = "LD_R8_R8" /\ Fails(lu)
  <2>1. lu.family \in StorageFamilies
    BY <1>8, SMT DEF StorageFamilies
  <2>2. PICK once : /\ once = cpu_dispatch_storage(lu, back) /\ once = cpu_dispatch(lu, c)
                    /\ Typed(once) /\ SameControl(back, once)
    <3>1. Typed(back)
      BY <1>5 DEF Begun
    <3>2. SameControl(back, cpu_dispatch_storage(lu, back)) /\ Typed(cpu_dispatch_storage(lu, back))
      BY <1>2, <1>8, <2>1, <3>1, StorageLeaves, StorageTyped
    <3> QED BY <1>4, <2>1, <3>2, DispatchGives
  <2>3. PICK again : /\ again = Returned(lu, once) /\ Typed(again) /\ SameData(once, again)
                     /\ again.PC = once.PC /\ again.idle_time = (lu.cycles - 1) % 256
                     /\ again.HALT = once.HALT /\ again.write_listener = once.write_listener
    BY <1>2, <2>2, DispatchBegins
  <2>4. cpu' = cpu_dispatch_storage(lu, again)
    BY <1>3, <1>8, <2>1, <2>2, <2>3, DispatchGives
  <2>5. SameControl(again, cpu')
    BY <1>2, <1>8, <2>3, <2>4, StorageLeaves
  <2>6. Leaves(back, cpu', cpu.PC, cpu.SP, cpu.IME, 0, cpu.mem)
    BY <1>5, <2>2, <2>3, <2>5 DEF Begun, SameData, SameControl, Leaves
  <2>7. PICK x \in AnyInstruction : /\ x = Abstract(lu, cpu)
          /\ x.family = ControlFamily(lu) /\ x.cycles = lu.cycles
    BY <1>2, Abstracted DEF Ready
  <2>8. x.family = "LD"
    BY <1>8, <2>7, FamilyOfData
  <2>9. Becomes(x, cpu.PC, cpu.SP, cpu.IME, 0, cpu.mem)
    BY <1>5, <2>6, <2>7, <2>8, LeavesBecomes
  <2>10. ControlSide!DataOnly(x)
    BY <2>8, <2>9, ActsQuietly
  <2> QED BY <1>2, <2>7, <2>8, <2>10, ExecutedBy
<1>9. Fails(lu) => lu.family \in {"UNKN", "LD_R8_R8"}
  BY <1>2 DEF Fails, Decoded, Known
<1> QED BY <1>6, <1>7, <1>8, <1>9

-----------------------------------------------------------------------------
(* Interrupts.                                                             *)
LEMMA InterruptTaken ==
  ASSUME TypeOK, cpu.idle_time = 0, cpu.IME, Pending(cpu) # {},
         NEW c, Begun(c, cpu.PC, 0), c.IME, cpu' = handle_interruption(c)
  PROVE  ControlSide!Interrupt \/ ControlSide!InterruptWithoutIndex
<1>1. /\ Typed(cpu) /\ Typed(c) /\ SameData(cpu, c) /\ c.PC = cpu.PC /\ c.idle_time = 0
      /\ c.HALT = FALSE /\ c.write_listener = 0 /\ Fields(c)
  <2>1. c.HALT \in BOOLEAN
    BY DEF Begun, Typed
  <2> QED BY <2>1, TypedHasFields DEF Begun, TypeOK
<1>2. PICK i \in 0 .. 7 : /\ i = find_interrupt_index(c) /\ i \in Pending(cpu)
                          /\ \A j \in Pending(cpu) : i <= j
  <2>1. PICK i \in 0 .. 7 : i = find_interrupt_index(c) /\ i \in Pending(c)
    BY <1>1, SameReads, LeastLine
  <2>2. Pending(c) = Pending(cpu)
    BY <1>1, SameReads
  <2>3. \A j \in Pending(c) : i <= j
    BY <2>1, LeastLine
  <2> QED BY <2>1, <2>2, <2>3
<1>3. /\ ControlSide!Pending = Pending(cpu) /\ ControlSide!PendingLines = Pending(cpu) \cap (0 .. 4)
      /\ ControlSide!Active
  BY PendingSeen DEF ControlSide!Active
<1>4. CASE i >= 5
  <2>1. cpu' = [c EXCEPT !.IME = FALSE]
    BY <1>2, <1>4 DEF handle_interruption, interruptionNb
  <2>2. /\ cpu'.IME = FALSE /\ cpu'.HALT = FALSE /\ cpu'.PC = cpu.PC /\ cpu'.SP = cpu.SP
        /\ cpu'.idle_time = cpu.idle_time /\ cpu'.write_listener = 0 /\ cpu'.mem = cpu.mem
    BY <1>1, <2>1, SMT DEF Fields, SameData
  <2>3. Pending(cpu) \cap (0 .. 4) = {}
    BY <1>2, <1>4, SMT
  <2>4. ControlSide!NothingStored
    BY <2>2, IsNothingStored
  <2>5. ControlSide!InterruptWithoutIndex
    BY <1>3, <2>2, <2>3, <2>4, Zenon DEF ControlSide!InterruptWithoutIndex
  <2> QED BY <2>5
<1>5. CASE i < 5
  <2>1. PICK sp \in Word : sp = Plus16(cpu.SP, -2)
    <3>1. cpu.SP \in Int /\ -2 \in Int
      BY <1>1, TypedFields, InWord
    <3> QED BY <3>1, Wrapped
  <2>2. i \in ControlSide!PendingLines /\ ControlSide!find_interrupt_index = i
    <3>1. i \in ControlSide!PendingLines /\ \A j \in ControlSide!PendingLines : i <= j /\ j \in Int
      BY <1>2, <1>3, <1>5
    <3>2. PICK f : f = ControlSide!find_interrupt_index
      OBVIOUS
    <3>3. f \in ControlSide!PendingLines /\ \A j \in ControlSide!PendingLines : f <= j
      BY <3>1, <3>2 DEF ControlSide!find_interrupt_index
    <3> QED BY <3>1, <3>2, <3>3
  <2>3. PICK m : /\ m = SetByte(cpu.mem, REG_IF, bit_unset(Cell(cpu.mem, REG_IF), i))
                 /\ m = SetByte(c.mem, REG_IF, bit_unset(IfByte(c), i))
                 /\ Memory(m) /\ Memory(cpu.mem)
    <3>1. IfByte(c) = Cell(cpu.mem, REG_IF) /\ c.mem = cpu.mem
      BY <1>1, CellsRead DEF IfByte, SameData
    <3>2. Memory(cpu.mem) /\ bit_unset(IfByte(c), i) \in Byte
      BY <1>1, Reads, BitsEdited, TypedFields DEF IfByte
    <3> QED BY <3>1, <3>2, Constants, ByteSet
  <2>4. PICK cleared : cleared = [c EXCEPT !.IME = FALSE, !.mem = m]
    OBVIOUS
  <2>5. /\ Fields(cleared) /\ cleared.PC = cpu.PC /\ cleared.SP = cpu.SP /\ cleared.IME = FALSE
        /\ cleared.HALT = FALSE /\ cleared.idle_time = 0 /\ cleared.mem = m
    BY <1>1, <2>4, SMT DEF Fields, SameData
  <2>6. PICK pushed : /\ pushed = cpu_SP_push(cleared, cpu.PC)
                      /\ Leaves(cleared, pushed, cpu.PC, sp, FALSE, sp, Stored16(m, sp, cpu.PC))
    BY <2>1, <2>5, IsPushedAt DEF PushedAt
  <2>7. cpu' = [pushed EXCEPT !.PC = 64 + 8 * i, !.idle_time = (pushed.idle_time + 5) % 256]
    BY <1>1, <1>2, <1>5, <2>3, <2>4, <2>6 DEF handle_interruption, interruptionNb
  <2>8. /\ cpu'.PC = 64 + 8 * i /\ cpu'.SP = sp /\ cpu'.IME = FALSE /\ cpu'.HALT = FALSE
        /\ cpu'.idle_time = 5 /\ cpu'.write_listener = sp /\ cpu'.mem = Stored16(m, sp, cpu.PC)
    <3>1. (0 + 5) % 256 = 5
      BY SMT
    <3>2. (pushed.idle_time + 5) % 256 = 5
      BY <2>5, <2>6, <3>1 DEF Leaves
    <3> QED BY <2>5, <2>6, <2>7, <3>2, SMT DEF Leaves, Fields
  <2>9. ControlSide!Stored(Seen(Stored16(m, sp, cpu.PC)), sp)
    BY <2>8, IsStored
  <2>10. Seen(m) = [ControlSide!Memory EXCEPT !.flags = ControlSide!FlagsWithout(i)]
    <3>1. Seen(m) = [Seen(cpu.mem) EXCEPT !.flags = LinesIn(Cell(cpu.mem, REG_IF)) \ {i}]
      <4>1. Seen(SetByte(cpu.mem, REG_IF, bit_unset(Cell(cpu.mem, REG_IF), i)))
              = [Seen(cpu.mem) EXCEPT !.flags = LinesIn(Cell(cpu.mem, REG_IF)) \ {i}]
        BY <2>3, SeenFlags, Zenon
      <4> QED BY <2>3, <4>1, Zenon
    <3>2. LinesUp(cpu, REG_IF) = LinesIn(Cell(cpu.mem, REG_IF))
      BY CellsRead DEF LinesUp, LinesIn
    <3> QED BY <3>1, <3>2, MemorySeen DEF ControlSide!FlagsWithout
  <2>11. ControlSide!Written16(Seen(m), sp, cpu.PC) = Seen(Stored16(m, sp, cpu.PC))
    BY <1>1, <2>3, SeenWritten16, TypedFields
  <2>12. ControlSide!Plus(cpu.SP, -2) = sp
    BY <2>1, SameNumbers
  <2>13. [l \in 0 .. 4 |-> 64 + 8 * l][i] = 64 + 8 * i /\ 5 % 256 = 5
    BY <1>5, SMT
  <2>14. ControlSide!TakesInterrupt
    BY <1>3, <2>2 DEF ControlSide!TakesInterrupt
  <2>15. ControlSide!Interrupt
    BY <2>2, <2>8, <2>9, <2>10, <2>11, <2>12, <2>13, <2>14, Zenon DEF ControlSide!Interrupt
  <2> QED BY <2>15
<1> QED BY <1>2, <1>4, <1>5

-----------------------------------------------------------------------------
(* One call of cpu_cycle, and one interrupt request.                       *)
LEMMA CycleRefines ==
  ASSUME TypeOK, cpu_cycle
  PROVE  ControlStep
<1>1. Typed(cpu) /\ cpu.HALT \in BOOLEAN /\ cpu.idle_time \in Byte /\ cpu.IME \in BOOLEAN
  BY SMT DEF TypeOK, Typed
<1>2. PICK quiet : quiet = [cpu EXCEPT !.write_listener = 0]
  OBVIOUS
<1>3. /\ Typed(quiet) /\ SameData(cpu, quiet) /\ quiet.PC = cpu.PC /\ quiet.write_listener = 0
      /\ quiet.idle_time = cpu.idle_time /\ quiet.HALT = cpu.HALT /\ Fields(quiet)
  <2>1. 0 \in Word
    BY InWord, SMT
  <2>2. Typed(quiet)
    BY <1>1, <1>2, <2>1, FieldsSet
  <2>3. SameData(cpu, quiet) /\ quiet.PC = cpu.PC /\ quiet.write_listener = 0
        /\ quiet.idle_time = cpu.idle_time /\ quiet.HALT = cpu.HALT
    BY <1>1, <1>2, SMT DEF SameData, Typed
  <2> QED BY <2>2, <2>3, TypedHasFields
<1>4. ASSUME cpu.idle_time # 0 PROVE ControlStep
  <2>1. cpu' = [quiet EXCEPT !.idle_time = cpu.idle_time - 1]
    <3>1. cpu' = [quiet EXCEPT !.idle_time = @ - 1]
      BY <1>2, <1>4 DEF cpu_cycle, Cycled
    <3> QED BY <1>3, <3>1
  <2>2. /\ cpu'.idle_time = cpu.idle_time - 1 /\ cpu'.PC = cpu.PC /\ cpu'.SP = cpu.SP
        /\ cpu'.IME = cpu.IME /\ cpu'.HALT = cpu.HALT
        /\ cpu'.write_listener = 0 /\ cpu'.mem = cpu.mem
    BY <1>3, <2>1, SMT DEF Fields, SameData
  <2>3. cpu.idle_time > 0
    BY <1>1, <1>4, SMT DEF Byte
  <2>4. ControlSide!Wait
    BY <2>2, <2>3, IsNothingStored DEF ControlSide!Wait
  <2> QED BY <2>3, <2>4 DEF ControlStep
<1>5. ASSUME cpu.idle_time = 0, cpu.HALT, Pending(cpu) = {} PROVE ControlStep
  <2>1. cpu' = quiet
    BY <1>2, <1>5 DEF cpu_cycle, Cycled
  <2>2. /\ cpu'.idle_time = cpu.idle_time /\ cpu'.PC = cpu.PC /\ cpu'.SP = cpu.SP
        /\ cpu'.IME = cpu.IME /\ cpu'.HALT = cpu.HALT
        /\ cpu'.write_listener = 0 /\ cpu'.mem = cpu.mem
    BY <1>3, <2>1 DEF SameData
  <2>3. ~(cpu.idle_time > 0)
    BY <1>5, SMT
  <2>4. ControlSide!Sleep
    BY <1>5, <2>2, IsNothingStored, PendingSeen DEF ControlSide!Sleep
  <2> QED BY <2>3, <2>4 DEF ControlStep
<1>6. ASSUME cpu.idle_time = 0, cpu.HALT => Pending(cpu) # {} PROVE ControlStep
  <2>1. PICK c : Begun(c, cpu.PC, 0) /\ cpu' = cpu_do_cycle(c)
    <3>1. CASE ~cpu.HALT
      <4>1. Begun(quiet, cpu.PC, 0)
        BY <1>3, <1>6, <3>1 DEF Begun
      <4>2. cpu' = cpu_do_cycle(quiet)
        BY <1>2, <1>6, <3>1 DEF cpu_cycle, Cycled
      <4> QED BY <4>1, <4>2
    <3>2. CASE cpu.HALT
      <4>1. PICK woken : woken = [quiet EXCEPT !.HALT = FALSE]
        OBVIOUS
      <4>2. cpu' = cpu_do_cycle(woken)
        BY <1>2, <1>6, <3>2, <4>1 DEF cpu_cycle, Cycled
      <4>3. Typed(woken)
        BY <1>3, <4>1, FieldsSet
      <4>4. /\ SameData(quiet, woken) /\ woken.PC = quiet.PC /\ woken.write_listener = 0
            /\ woken.idle_time = quiet.idle_time /\ ~woken.HALT
        BY <1>3, <4>1, SMT DEF SameData, Typed
      <4>5. Begun(woken, cpu.PC, 0)
        BY <1>3, <1>6, <4>3, <4>4 DEF Begun, SameData
      <4> QED BY <4>2, <4>5
    <3> QED BY <3>1, <3>2
  <2>2. c.IME = cpu.IME /\ Pending(c) = Pending(cpu)
    <3>1. SameData(cpu, c)
      BY <2>1 DEF Begun
    <3> QED BY <3>1, SameReads DEF SameData
  <2>3. CASE cpu.IME /\ Pending(cpu) # {}
    <3>1. cpu' = handle_interruption(c)
      BY <2>1, <2>2, <2>3 DEF cpu_do_cycle
    <3>2. ControlSide!Interrupt \/ ControlSide!InterruptWithoutIndex
      BY <1>6, <2>1, <2>2, <2>3, <3>1, InterruptTaken
    <3> QED BY <3>2 DEF ControlStep
  <2>4. CASE ~(cpu.IME /\ Pending(cpu) # {})
    <3>1. Ready
      BY <1>6, <2>4 DEF Ready
    <3>2. Executed
      BY <2>1, <3>1, FetchedExecuted
    <3> QED BY <3>2 DEF ControlStep
  <2> QED BY <2>3, <2>4
<1> QED BY <1>1, <1>4, <1>5, <1>6

LEMMA RequestRefines ==
  ASSUME TypeOK, NEW i \in 0 .. 4, cpu_request_interrupt(i)
  PROVE  ControlSide!cpu_request_interrupt(i)
<1>1. Typed(cpu) /\ Fields(cpu) /\ Memory(cpu.mem) /\ i \in 0 .. 7
  BY TypedHasFields, TypedFields, SMT DEF TypeOK
<1>2. PICK m : m = SetByte(cpu.mem, REG_IF, bit_set(Cell(cpu.mem, REG_IF), i))
  OBVIOUS
<1>3. cpu' = [cpu EXCEPT !.mem = m]
  <2>1. IfByte(cpu) = Cell(cpu.mem, REG_IF)
    BY CellsRead DEF IfByte
  <2> QED BY <1>2, <2>1 DEF cpu_request_interrupt
<1>4. /\ cpu'.mem = m /\ cpu'.idle_time = cpu.idle_time /\ cpu'.PC = cpu.PC /\ cpu'.SP = cpu.SP
      /\ cpu'.IME = cpu.IME /\ cpu'.HALT = cpu.HALT /\ cpu'.write_listener = cpu.write_listener
  BY <1>1, <1>3, SMT DEF Fields
<1>5. ControlSide!MemoryBecomes(Seen(m))
  BY <1>4, MemoryIs
<1>6. Seen(m) = [Seen(cpu.mem) EXCEPT !.flags = LinesIn(Cell(cpu.mem, REG_IF)) \cup {i}]
  BY <1>1, <1>2, SeenFlags, Zenon
<1>7. PICK ram, up, flags : /\ Seen(cpu.mem) = [ram |-> ram, IE |-> up, flags |-> flags]
                            /\ flags = LinesIn(Cell(cpu.mem, REG_IF))
                            /\ FollowedBytes(cpu) = ram /\ LinesUp(cpu, REG_IE) = up
                            /\ LinesUp(cpu, REG_IF) = flags
  BY CellsRead, Zenon DEF Seen, FollowedBytes, LinesUp, LinesIn
<1>8. Seen(m) = [ram |-> ram, IE |-> up, flags |-> flags \cup {i}]
  BY <1>6, <1>7, SMT
<1>9. /\ LinesUp(cpu, REG_IF)' = LinesUp(cpu, REG_IF) \cup {i}
      /\ LinesUp(cpu, REG_IE)' = LinesUp(cpu, REG_IE) /\ FollowedBytes(cpu)' = FollowedBytes(cpu)
  BY <1>5, <1>7, <1>8, SMT DEF ControlSide!MemoryBecomes
<1> QED BY <1>4, <1>9 DEF ControlSide!cpu_request_interrupt

LEMMA StepRefines ==
  ASSUME TypeOK, Next
  PROVE  ControlStep
<1>1. CASE cpu_cycle
  BY <1>1, CycleRefines
<1>2. ASSUME NEW i \in 0 .. interruptionNb - 1, cpu_request_interrupt(i) PROVE ControlStep
  <2>1. i \in 0 .. 4
    BY SMT DEF interruptionNb
  <2> QED BY <1>2, <2>1, RequestRefines DEF ControlStep
<1> QED BY <1>1, <1>2 DEF Next

(* Whatever the program, each cycle of the CPU with its registers and      *)
(* memory is a step CPU.tla allows for the instruction fetched: with its   *)
(* bytes, cycles and argument, and with the PC, SP, IME, interrupt lines,  *)
(* store announced and bytes that come of it (cpu_cycle, cpu_dispatch).    *)
THEOREM ControlImplemented == TypeOK /\ [][Next]_cpu => ImplementsControl
<1>1. TypeOK /\ [Next]_cpu => [Next => ControlStep]_cpu
  BY StepRefines
<1> QED BY <1>1, TypeCorrect, PTL DEF ImplementsControl

-----------------------------------------------------------------------------
(* ControlStep says more than CPU's Next: which instruction it is.         *)

-----------------------------------------------------------------------------
(* ControlStep says which instruction is executed; CPU's Next lets it be    *)
(* any that Code has.                                                      *)
LEMMA WordsAreAddresses == ControlSide!Addrs = Word
<1>1. 256 * 256 - 1 = 65535
  BY SMT
<1> QED BY <1>1 DEF ControlSide!Addrs, Word

LEMMA ExecutedAllowed ==
  ASSUME TypeOK, Executed
  PROVE  ControlSide!cpu_cycle
<1>1. PICK lu : lu = Fetched(cpu)
  OBVIOUS
<1>2. PICK x : x = Abstract(lu, cpu)
  OBVIOUS
<1>3. PICK w \in Word : w = cpu_reg_pair_get(cpu, extract_reg_pair(lu.opcode))
  <2>1. Typed(cpu) /\ Decoded(lu)
    BY <1>1, FetchedDecoded DEF TypeOK
  <2>2. extract_reg_pair(lu.opcode) \in 0 .. 3
    BY <2>1, OpcodeFields DEF Decoded
  <2> QED BY <2>1, <2>2, Reads
<1>4. x \in [a \in Word |-> AnyInstruction][cpu.PC]
  <2>1. Typed(cpu) /\ Decoded(lu)
    BY <1>1, FetchedDecoded DEF TypeOK
  <2>2. x \in AnyInstruction /\ cpu.PC \in Word
    BY <1>2, <2>1, Abstracted, TypedFields
  <2> QED BY <2>2
<1>5. /\ x.family \in {"ALU", "LD"} => ControlSide!DataOnly(x)
      /\ x.family = "PUSH" => ControlSide!PushWord(x, w)
      /\ x.family \notin {"ALU", "LD", "PUSH"} => ControlSide!Execute(x)
  <2>1. CASE x.family \in {"ALU", "LD"}
    BY <1>1, <1>2, <2>1 DEF Executed
  <2>2. CASE x.family = "PUSH"
    BY <1>1, <1>2, <1>3, <2>2 DEF Executed
  <2>3. CASE x.family \notin {"ALU", "LD", "PUSH"}
    BY <1>1, <1>2, <2>3 DEF Executed
  <2> QED BY <2>1, <2>2, <2>3
<1>6. ControlSide!PushWord(x, w) => ControlSide!Push(x)
  BY <1>3, WordsAreAddresses DEF ControlSide!Push
<1>7. ControlSide!Execute(x)
  BY <1>5, <1>6 DEF ControlSide!Execute
<1> QED BY <1>4, <1>7 DEF ControlSide!cpu_cycle

LEMMA StepAllowed ==
  ASSUME TypeOK, Next
  PROVE  ControlSide!Next
<1>1. CASE Executed
  BY <1>1, ExecutedAllowed DEF ControlSide!Next
<1>2. CASE \E i \in 0 .. 4 : ControlSide!cpu_request_interrupt(i)
  <2>1. ControlSide!Lines = 0 .. 4
    BY SMT DEF ControlSide!Lines
  <2> QED BY <1>2, <2>1 DEF ControlSide!Next
<1>3. CASE \/ IF cpu.idle_time > 0 THEN ControlSide!Wait ELSE ControlSide!Sleep
           \/ ControlSide!Interrupt \/ ControlSide!InterruptWithoutIndex
  BY <1>3 DEF ControlSide!Next, ControlSide!cpu_cycle
<1> QED BY <1>1, <1>2, <1>3, StepRefines DEF ControlStep

LEMMA StartsTyped == cpu = cpu_init => TypeOK
<1> SUFFICES ASSUME cpu = cpu_init PROVE TypeOK
  OBVIOUS
<1>1. 0 \in Byte /\ 0 \in Word /\ REG_IF \in Word /\ REG_IE \in Word
  <2>1. 0 \in Byte
    BY SMT DEF Byte
  <2> QED BY <2>1, InWord, SMT DEF REG_IF, REG_IE
<1>2. 0 \in FlagBytes
  BY SMT DEF FlagBytes
<1> QED BY <1>1, <1>2, SMT DEF TypeOK, Typed, cpu_init

LEMMA StartsAsCPU == cpu = cpu_init => ControlSide!Init
<1> SUFFICES ASSUME cpu = cpu_init PROVE ControlSide!Init
  OBVIOUS
<1>1. \A a : cpu_read_at_idx(cpu, a) = 0
  BY DEF cpu_init, cpu_read_at_idx
<1>2. \A i \in 0 .. 7 : bit_get(0, i) = 0
  <2>1. \A p \in {1, 2, 4, 8, 16, 32, 64, 128} : (0 \div p) % 2 = 0
    BY SMT
  <2> QED BY <2>1, BitPowers DEF bit_get, PowersOf2
<1>3. LinesUp(cpu, REG_IE) = {} /\ LinesUp(cpu, REG_IF) = {}
  BY <1>1, <1>2 DEF LinesUp
<1>4. FollowedBytes(cpu) = [a \in Followed |-> 0]
  BY <1>1 DEF FollowedBytes
<1>5. /\ cpu.PC = 0 /\ cpu.SP = 0 /\ cpu.IME = FALSE /\ cpu.HALT = FALSE
      /\ cpu.idle_time = 0 /\ cpu.write_listener = 0
  BY DEF cpu_init
<1> QED BY <1>3, <1>4, <1>5 DEF ControlSide!Init

(* From cpu_init on, what a run of any program shows of the CPU is a run   *)
(* of CPU.tla, in which any instruction may be anywhere: what is proved    *)
(* of the control side for every program (that no interrupt request is     *)
(* lost, that every store is announced) is so proved of this one.          *)
THEOREM RunsAsCPU ==
  cpu = cpu_init /\ [][Next]_cpu => ControlSide!Init /\ [][ControlSide!Next]_(ControlSide!vars)
<1>1. TypeOK /\ [Next]_cpu => [ControlSide!Next]_(ControlSide!vars)
  <2>1. ASSUME UNCHANGED cpu PROVE UNCHANGED ControlSide!vars
    BY <2>1, SMT DEF ControlSide!vars, LinesUp, FollowedBytes, cpu_read_at_idx
  <2> QED BY <2>1, StepAllowed
<1> QED BY <1>1, StartsTyped, StartsAsCPU, TypeCorrect, PTL

(* What CPU assumes of its constants holds of those given to it here: so   *)
(* the theorems about CPU apply.                                           *)
THEOREM ControlConstants ==
  /\ 8 \in Nat \ {0} /\ 256 = 2 ^ 8 /\ 5 \in 1 .. 8 /\ 256 >= 4
  /\ [i \in 0 .. 4 |-> 64 + 8 * i] \in [ControlSide!Lines -> ControlSide!Addrs]
  /\ REG_IF \in ControlSide!Addrs \ { ControlSide!RegIE }
  /\ Followed \subseteq ControlSide!Addrs \ { ControlSide!RegIE, REG_IF }
  /\ 0 \in ControlSide!Addrs
  /\ [a \in Word |-> AnyInstruction] \in [ControlSide!Addrs -> SUBSET ControlSide!Instructions]
<1>1. ControlSide!Addrs = Word /\ ControlSide!RegIE = REG_IE /\ ControlSide!Lines = 0 .. 4
  BY WordsAreAddresses, SameNumbers, SMT DEF ControlSide!Lines
<1>2. REG_IF \in Word \ {REG_IE} /\ 0 \in Word /\ \A i \in 0 .. 4 : 64 + 8 * i \in Word
  BY InWord, SMT DEF REG_IF, REG_IE
<1>3. AnyInstruction \subseteq ControlSide!Instructions
  BY WordsAreAddresses, Zenon DEF AnyInstruction, ControlSide!Instructions, ControlSide!Families
<1>4. 8 \in Nat \ {0} /\ 256 = 2 ^ 8 /\ 5 \in 1 .. 8 /\ 256 >= 4
  BY SMT
<1> QED BY <1>1, <1>2, <1>3, <1>4, FollowedAssumption
=============================================================================
