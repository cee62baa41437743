-------------------------- MODULE BitVector_proofs --------------------------
(***************************************************************************)
(* The laws at the end of BitVector, for vectors of every size and         *)
(* content, whatever their padding holds.                                  *)
(***************************************************************************)
EXTENDS BitVector, TLAPS

-----------------------------------------------------------------------------
(* Chunks and the bits in them                                              *)

(* Every bit of a vector is in one of its chunks, and a bit of the last one  *)
(* is not in its padding.                                                   *)
LEMMA BitHasChunk ==
  ASSUME NEW size \in Nat \ {0}, NEW k \in 0 .. size - 1
  PROVE  /\ forced_size(size) \in Nat \ {0}
         /\ k \div 32 \in Chunks(size) /\ k % 32 \in Places
         /\ k < 32 * forced_size(size)
         /\ k = 32 * (k \div 32) + (k % 32)
         /\ k \div 32 = forced_size(size) - 1 /\ size % 32 # 0 => k % 32 < size % 32
BY SMT DEF forced_size, Chunks, Places, CHUNK_SIZE

(* The halves and bytes of bit_vector_get find bit index % 32 of its chunk.  *)
LEMMA ByteOfBit ==
  ASSUME NEW index \in Nat
  PROVE  LET byte == (index - 32 * (index \div 32)) \div 8
         IN  Half(byte) + Byte(byte) + (index % 8) = index % 32
<1> DEFINE r == index % 32
<1>1. index - 32 * (index \div 32) = r /\ r \in 0 .. 31 /\ index % 8 = r % 8
  BY SMT
<1> HIDE DEF r
<1>2. Half(r \div 8) + Byte(r \div 8) + (r % 8) = r
  <2>1. CASE r \in 0 .. 7
    <3>1. r \div 8 = 0 /\ r % 8 = r
      BY <2>1, SMT
    <3> QED BY <3>1, <2>1, SMT DEF Half, Byte, CHUNK_SIZE, BYTE_SIZE
  <2>2. CASE r \in 8 .. 15
    <3>1. r \div 8 = 1 /\ r % 8 = r - 8
      BY <2>2, SMT
    <3> QED BY <3>1, <2>2, SMT DEF Half, Byte, CHUNK_SIZE, BYTE_SIZE
  <2>3. CASE r \in 16 .. 23
    <3>1. r \div 8 = 2 /\ r % 8 = r - 16
      BY <2>3, SMT
    <3> QED BY <3>1, <2>3, SMT DEF Half, Byte, CHUNK_SIZE, BYTE_SIZE
  <2>4. CASE r \in 24 .. 31
    <3>1. r \div 8 = 3 /\ r % 8 = r - 24
      BY <2>4, SMT
    <3> QED BY <3>1, <2>4, SMT DEF Half, Byte, CHUNK_SIZE, BYTE_SIZE
  <2> QED BY <1>1, <2>1, <2>2, <2>3, <2>4, SMT
<1> QED BY <1>1, <1>2 DEF r

(* bit_vector_get of a bit of the vector is its place in its chunk.          *)
LEMMA GetReadsTheChunk ==
  ASSUME NEW v, IsVector(v), NEW k \in 0 .. v.size - 1
  PROVE  bit_vector_get(v, k) = 1 <=> k % 32 \in v.content[k \div 32]
<1>1. v.size \in Nat \ {0} /\ k \in Nat
  BY DEF IsVector
<1>2. v # NULL
  BY <1>1 DEF NULL
<1>3. k < CHUNK_SIZE * forced_size(v.size) /\ forced_size(v.size) \in Nat
  BY <1>1, BitHasChunk DEF CHUNK_SIZE
<1> DEFINE byte == (k - 32 * (k \div 32)) \div 8
<1>4. bit_vector_get(v, k) = IF Half(byte) + Byte(byte) + (k % 8) \in v.content[k \div 32] THEN 1 ELSE 0
  BY <1>1, <1>2, <1>3 DEF bit_vector_get, CHUNK_SIZE, BYTE_SIZE
<1>5. Half(byte) + Byte(byte) + (k % 8) = k % 32
  BY <1>1, ByteOfBit
<1> QED BY <1>4, <1>5

(* The bits of a vector, chunk by chunk                                     *)
LEMMA BitsOfChunks ==
  ASSUME NEW v, IsVector(v)
  PROVE  Bits(v) = { k \in 0 .. v.size - 1 : k % 32 \in v.content[k \div 32] }
BY GetReadsTheChunk DEF Bits

LEMMA VectorOfChunks ==
  ASSUME NEW size \in Nat \ {0}, NEW content \in [Chunks(size) -> SUBSET Places]
  PROVE  /\ IsVector([size |-> size, content |-> content])
         /\ Bits([size |-> size, content |-> content]) =
              { k \in 0 .. size - 1 : k % 32 \in content[k \div 32] }
<1>1. IsVector([size |-> size, content |-> content])
  BY DEF IsVector
<1> QED BY <1>1, BitsOfChunks

(* bit_vector_set_unnecessary_bits_to_0 takes no bit of the vector.          *)
LEMMA PaddingIsNoBit ==
  ASSUME NEW size \in Nat \ {0}, NEW content \in [Chunks(size) -> SUBSET Places]
  PROVE  LET w == bit_vector_set_unnecessary_bits_to_0([size |-> size, content |-> content])
         IN  /\ IsVector(w) /\ w.size = size
             /\ Bits(w) = { k \in 0 .. size - 1 : k % 32 \in content[k \div 32] }
<1> DEFINE last == forced_size(size) - 1
           cut  == [content EXCEPT ![last] = { i \in @ : i < size % 32 }]
<1>1. CASE size % 32 = 0
  <2>1. bit_vector_set_unnecessary_bits_to_0([size |-> size, content |-> content])
          = [size |-> size, content |-> content]
    BY <1>1 DEF bit_vector_set_unnecessary_bits_to_0, CHUNK_SIZE
  <2> QED BY <2>1, VectorOfChunks
<1>2. CASE size % 32 # 0
  <2>1. bit_vector_set_unnecessary_bits_to_0([size |-> size, content |-> content])
          = [size |-> size, content |-> cut]
    BY <1>2 DEF bit_vector_set_unnecessary_bits_to_0, CHUNK_SIZE
  <2>2. cut \in [Chunks(size) -> SUBSET Places]
    OBVIOUS
  <2>3. ASSUME NEW k \in 0 .. size - 1
        PROVE  k % 32 \in cut[k \div 32] <=> k % 32 \in content[k \div 32]
    <3>1. k \div 32 \in Chunks(size) /\ (k \div 32 = last => k % 32 < size % 32)
      BY <1>2, BitHasChunk
    <3> QED BY <3>1
  <2> HIDE DEF cut
  <2> QED BY <2>1, <2>2, <2>3, VectorOfChunks
<1> QED BY <1>1, <1>2

-----------------------------------------------------------------------------
(* bit_vector_not turns every bit of the vector over, and none of the       *)
(* padding it had shows (bit_vector.c 139-150).                             *)
THEOREM NotIsExact ==
  ASSUME NEW v, IsVector(v)
  PROVE  IsVector(bit_vector_not(v)) /\ bit_vector_not(v).size = v.size /\ NotComplements(v)
<1> DEFINE turned == [j \in Chunks(v.size) |-> Places \ v.content[j]]
<1>1. v.size \in Nat \ {0} /\ v = [size |-> v.size, content |-> v.content]
      /\ turned \in [Chunks(v.size) -> SUBSET Places]
  BY DEF IsVector
<1>2. v # NULL
  BY <1>1 DEF NULL
<1>3. bit_vector_not(v) = bit_vector_set_unnecessary_bits_to_0([size |-> v.size, content |-> turned])
  <2>1. [v EXCEPT !.content = turned] = [size |-> v.size, content |-> turned]
    <3> HIDE DEF turned
    <3> QED BY <1>1
  <2>2. bit_vector_not(v) = bit_vector_set_unnecessary_bits_to_0([v EXCEPT !.content = turned])
    BY <1>2, Zenon DEF bit_vector_not
  <2> HIDE DEF turned
  <2> QED BY <2>1, <2>2
<1>4. ASSUME NEW k \in 0 .. v.size - 1
      PROVE  k % 32 \in turned[k \div 32] <=> ~ (k % 32 \in v.content[k \div 32])
  BY <1>1, BitHasChunk
<1>5. IsVector(bit_vector_not(v)) /\ bit_vector_not(v).size = v.size
      /\ Bits(bit_vector_not(v)) = { k \in 0 .. v.size - 1 : k % 32 \in turned[k \div 32] }
  <2> HIDE DEF turned
  <2> QED BY <1>1, <1>3, PaddingIsNoBit
<1> HIDE DEF turned
<1> QED BY <1>4, <1>5, BitsOfChunks DEF NotComplements

(* bit_vector_and, _or and _xor give a vector of the same size and work bit *)
(* by bit (bit_vector.c 154-190).                                           *)
THEOREM OperatorsAreBitByBit ==
  ASSUME NEW v, NEW w, IsVector(v), IsVector(w), v.size = w.size
  PROVE  /\ IsVector(bit_vector_and(v, w)) /\ bit_vector_and(v, w).size = v.size
         /\ IsVector(bit_vector_or(v, w))  /\ bit_vector_or(v, w).size = v.size
         /\ IsVector(bit_vector_xor(v, w)) /\ bit_vector_xor(v, w).size = v.size
         /\ BitByBit(v, w)
<1> DEFINE both   == [j \in Chunks(v.size) |-> v.content[j] \cap w.content[j]]
           either == [j \in Chunks(v.size) |-> v.content[j] \cup w.content[j]]
           one    == [j \in Chunks(v.size) |-> (v.content[j] \ w.content[j]) \cup (w.content[j] \ v.content[j])]
<1>1. v.size \in Nat \ {0} /\ v = [size |-> v.size, content |-> v.content]
  BY DEF IsVector
<1>2. both \in [Chunks(v.size) -> SUBSET Places] /\ either \in [Chunks(v.size) -> SUBSET Places]
      /\ one \in [Chunks(v.size) -> SUBSET Places]
  BY DEF IsVector
<1>3. ~ Unfit(v, w)
  BY <1>1 DEF Unfit, NULL
<1>4. /\ bit_vector_and(v, w) = [size |-> v.size, content |-> both]
      /\ bit_vector_or(v, w)  = [size |-> v.size, content |-> either]
      /\ bit_vector_xor(v, w) = [size |-> v.size, content |-> one]
  BY <1>1, <1>3 DEF bit_vector_and, bit_vector_or, bit_vector_xor
<1>5. ASSUME NEW k \in 0 .. v.size - 1
      PROVE  LET j == k \div 32  i == k % 32
             IN  /\ i \in both[j]   <=> i \in v.content[j] /\ i \in w.content[j]
                 /\ i \in either[j] <=> i \in v.content[j] \/ i \in w.content[j]
                 /\ i \in one[j]    <=> (i \in v.content[j] /\ i \notin w.content[j])
                                        \/ (i \in w.content[j] /\ i \notin v.content[j])
  <2>1. k \div 32 \in Chunks(v.size)
    BY <1>1, BitHasChunk
  <2> QED BY <2>1
<1> HIDE DEF both, either, one
<1>6. /\ IsVector(bit_vector_and(v, w)) /\ bit_vector_and(v, w).size = v.size
      /\ Bits(bit_vector_and(v, w)) = { k \in 0 .. v.size - 1 : k % 32 \in both[k \div 32] }
  BY <1>1, <1>2, <1>4, VectorOfChunks
<1>7. /\ IsVector(bit_vector_or(v, w)) /\ bit_vector_or(v, w).size = v.size
      /\ Bits(bit_vector_or(v, w)) = { k \in 0 .. v.size - 1 : k % 32 \in either[k \div 32] }
  BY <1>1, <1>2, <1>4, VectorOfChunks
<1>8. /\ IsVector(bit_vector_xor(v, w)) /\ bit_vector_xor(v, w).size = v.size
      /\ Bits(bit_vector_xor(v, w)) = { k \in 0 .. v.size - 1 : k % 32 \in one[k \div 32] }
  BY <1>1, <1>2, <1>4, VectorOfChunks
<1>9. /\ Bits(v) = { k \in 0 .. v.size - 1 : k % 32 \in v.content[k \div 32] }
      /\ Bits(w) = { k \in 0 .. v.size - 1 : k % 32 \in w.content[k \div 32] }
  BY BitsOfChunks
<1>10. Bits(bit_vector_and(v, w)) = Bits(v) \cap Bits(w)
  BY <1>5, <1>6, <1>9
<1>11. Bits(bit_vector_or(v, w)) = Bits(v) \cup Bits(w)
  BY <1>5, <1>7, <1>9
<1>12. Bits(bit_vector_xor(v, w)) = (Bits(v) \ Bits(w)) \cup (Bits(w) \ Bits(v))
  BY <1>5, <1>8, <1>9
<1> QED BY <1>6, <1>7, <1>8, <1>10, <1>11, <1>12 DEF BitByBit

-----------------------------------------------------------------------------
(* The bits a size_t index is wrapped to                                    *)

LEMMA RemainderSmall ==
  ASSUME NEW a \in Int, NEW m \in Nat \ {0}, 0 <= a, a < m
  PROVE  a % m = a
BY SMT

LEMMA RemainderBelow ==
  ASSUME NEW a \in Int, NEW m \in Nat \ {0}, -m <= a, a < 0
  PROVE  a % m = a + m
<1>1. a \div m = -1
  BY SMT
<1> QED BY <1>1, SMT

(* bit_vector_extract_zero_ext gives a vector of the size asked, with the   *)
(* bits from index on and 0 on both sides of the vector, although a negative *)
(* index wraps in a size_t, as long as what it reads stays within the range  *)
(* of one (bit_vector.c 193-211).                                           *)
THEOREM ExtractReadsZeros ==
  ASSUME NEW v, IsVector(v), NEW index \in Int, NEW size \in Nat \ {0},
         v.size <= SIZE_RANGE, v.size - SIZE_RANGE <= index, index + size <= SIZE_RANGE
  PROVE  /\ IsVector(bit_vector_extract_zero_ext(v, index, size))
         /\ ExtractsWithZeros(v, index, size)
<1> DEFINE O(j, i) == OriginalIndex(j, index, i)
           taken == [j \in Chunks(size) |->
                      { i \in Places : O(j, i) < v.size /\ bit_vector_get(v, O(j, i)) = 1 }]
<1>1. v.size \in Nat \ {0} /\ v # NULL
  BY DEF IsVector, NULL
<1>2. bit_vector_extract_zero_ext(v, index, size) = [size |-> size, content |-> taken]
  BY <1>1, Zenon DEF bit_vector_extract_zero_ext
<1>3. taken \in [Chunks(size) -> SUBSET Places]
  OBVIOUS
<1>4. ASSUME NEW k \in 0 .. size - 1
      PROVE  k % 32 \in taken[k \div 32] <=> k + index \in Bits(v)
  <2>1. k \div 32 \in Chunks(size) /\ k % 32 \in Places /\ k = 32 * (k \div 32) + (k % 32)
    BY BitHasChunk
  <2>2. k % 32 \in taken[k \div 32] <=>
          O(k \div 32, k % 32) < v.size /\ bit_vector_get(v, O(k \div 32, k % 32)) = 1
    BY <2>1
  <2>3. O(k \div 32, k % 32) = (k + index) % SIZE_RANGE
    <3>1. (k \div 32) * CHUNK_SIZE + index + (k % 32) = k + index
      BY <2>1, SMT DEF CHUNK_SIZE
    <3> QED BY <3>1 DEF OriginalIndex
  <2> HIDE DEF O, taken
  <2>4. k + index \in Int /\ SIZE_RANGE \in Nat \ {0} /\ k + index < SIZE_RANGE
        /\ v.size - SIZE_RANGE <= k + index
    BY <1>1, RangeAssumption
  <2>5. CASE 0 <= k + index
    <3>1. O(k \div 32, k % 32) = k + index
      BY <2>3, <2>4, <2>5, RemainderSmall
    <3> QED BY <1>1, <2>2, <2>4, <2>5, <3>1 DEF Bits
  <2>6. CASE k + index < 0
    <3>1. -SIZE_RANGE <= k + index
      BY <1>1, <2>4
    <3>2. O(k \div 32, k % 32) = k + index + SIZE_RANGE
      BY <2>3, <2>4, <2>6, <3>1, RemainderBelow
    <3>3. ~ (O(k \div 32, k % 32) < v.size)
      BY <1>1, <2>4, <3>2
    <3> QED BY <1>1, <2>2, <2>6, <3>3 DEF Bits
  <2> QED BY <2>4, <2>5, <2>6
<1> HIDE DEF taken
<1> QED BY <1>2, <1>3, <1>4, VectorOfChunks DEF ExtractsWithZeros

(* There is one remainder.                                                  *)
LEMMA OneRemainder ==
  ASSUME NEW m \in Nat \ {0}, NEW p \in Int, NEW q \in Int,
         NEW r \in 0 .. m - 1, NEW t \in 0 .. m - 1, m * p + r = m * q + t
  PROVE  r = t
<1>1. m * (p - q) = t - r
  BY SMT
<1>2. CASE p > q
  <2>1. m * (p - q) >= m
    BY <1>2, SMT
  <2> QED BY <1>1, <2>1
<1>3. CASE p < q
  <2>1. m * (q - p) >= m
    BY <1>3, SMT
  <2>2. m * (q - p) = r - t
    BY SMT
  <2> QED BY <2>1, <2>2
<1>4. CASE p = q
  BY <1>4
<1> QED BY <1>2, <1>3, <1>4

LEMMA RemainderOfTurns ==
  ASSUME NEW a \in Int, NEW m \in Nat \ {0}, NEW q \in Int
  PROVE  (a + m * q) % m = a % m
<1> DEFINE b == a + m * q
           p == a \div m
           t == b \div m
<1>1. /\ a = m * p + (a % m) /\ a % m \in 0 .. m - 1 /\ p \in Int
  BY SMT
<1>2. /\ b = m * t + (b % m) /\ b % m \in 0 .. m - 1 /\ t \in Int
  <2>1. b \in Int
    BY SMT
  <2> HIDE DEF b
  <2> QED BY <2>1, SMT
<1> HIDE DEF p, t
<1>3. b = m * (p + q) + (a % m)
  <2>1. m * (p + q) = m * p + m * q
    BY <1>1, SMT
  <2> QED BY <1>1, <2>1, SMT
<1> HIDE DEF b
<1>4. m * (p + q) + (a % m) = m * t + (b % m) /\ p + q \in Int
  BY <1>1, <1>2, <1>3
<1>5. a % m = b % m
  BY <1>1, <1>2, <1>4, OneRemainder
<1> QED BY <1>5 DEF b

(* bit_vector_extract_wrap_ext gives a vector of the size asked that reads  *)
(* the vector over and over, also before its start when the vector's size   *)
(* divides the range of a size_t (bit_vector.c 215-235).                    *)
THEOREM ExtractReadsInTurn ==
  ASSUME NEW v, IsVector(v), NEW index \in Int, NEW size \in Nat \ {0},
         -SIZE_RANGE <= index, index + size <= SIZE_RANGE
  PROVE  /\ IsVector(bit_vector_extract_wrap_ext(v, index, size))
         /\ ExtractsInTurn(v, index, size)
<1> DEFINE O(j, i) == OriginalIndex(j, index, i) % v.size
           taken == [j \in Chunks(size) |-> { i \in Places : bit_vector_get(v, O(j, i)) = 1 }]
<1>1. v.size \in Nat \ {0} /\ v # NULL
  BY DEF IsVector, NULL
<1>2. bit_vector_extract_wrap_ext(v, index, size) = [size |-> size, content |-> taken]
  BY <1>1, Zenon DEF bit_vector_extract_wrap_ext
<1>3. taken \in [Chunks(size) -> SUBSET Places]
  OBVIOUS
<1>4. ASSUME index >= 0 \/ SIZE_RANGE % v.size = 0, NEW k \in 0 .. size - 1
      PROVE  k % 32 \in taken[k \div 32] <=> (k + index) % v.size \in Bits(v)
  <2>1. k \div 32 \in Chunks(size) /\ k % 32 \in Places /\ k = 32 * (k \div 32) + (k % 32)
    BY BitHasChunk
  <2>2. k % 32 \in taken[k \div 32] <=> bit_vector_get(v, O(k \div 32, k % 32)) = 1
    BY <2>1
  <2>3. O(k \div 32, k % 32) = ((k + index) % SIZE_RANGE) % v.size
    <3>1. (k \div 32) * CHUNK_SIZE + index + (k % 32) = k + index
      BY <2>1, SMT DEF CHUNK_SIZE
    <3> QED BY <3>1 DEF OriginalIndex
  <2> HIDE DEF O, taken
  <2> DEFINE x == k + index
  <2>4. x \in Int /\ SIZE_RANGE \in Nat \ {0} /\ x < SIZE_RANGE /\ -SIZE_RANGE <= x
        /\ (x < 0 => index < 0)
    BY <1>1, RangeAssumption
  <2> HIDE DEF x
  <2>5. (x % SIZE_RANGE) % v.size = x % v.size
    <3>1. CASE 0 <= x
      BY <2>4, <3>1, RemainderSmall
    <3>2. CASE x < 0
      <4>1. x % SIZE_RANGE = x + SIZE_RANGE
        BY <2>4, <3>2, RemainderBelow
      <4>2. PICK q \in Int : SIZE_RANGE = v.size * q
        <5>1. SIZE_RANGE % v.size = 0
          BY <1>4, <2>4, <3>2
        <5>2. SIZE_RANGE = v.size * (SIZE_RANGE \div v.size) /\ SIZE_RANGE \div v.size \in Int
          BY <1>1, <2>4, <5>1, SMT
        <5> QED BY <5>2
      <4>3. (x + v.size * q) % v.size = x % v.size
        BY <1>1, <2>4, RemainderOfTurns
      <4> QED BY <4>1, <4>2, <4>3
    <3> QED BY <2>4, <3>1, <3>2
  <2>6. x % v.size \in 0 .. v.size - 1
    BY <1>1, <2>4, SMT
  <2>7. O(k \div 32, k % 32) = x % v.size
    BY <2>3, <2>5 DEF x
  <2>8. x % v.size \in Bits(v) <=> bit_vector_get(v, x % v.size) = 1
    BY <2>6 DEF Bits
  <2> QED BY <2>2, <2>7, <2>8 DEF x
<1> HIDE DEF taken
<1>5. Bits(bit_vector_extract_wrap_ext(v, index, size))
        = { k \in 0 .. size - 1 : k % 32 \in taken[k \div 32] }
      /\ IsVector(bit_vector_extract_wrap_ext(v, index, size))
  BY <1>2, <1>3, VectorOfChunks
<1> QED BY <1>4, <1>5 DEF ExtractsInTurn

(* bit_vector_join gives a vector with the bits of the first before shift   *)
(* and those of the second from shift on (bit_vector.c 250-280).            *)
THEOREM JoinIsExact ==
  ASSUME NEW v, NEW w, IsVector(v), IsVector(w), NEW shift \in 0 .. v.size, v.size = w.size
  PROVE  /\ IsVector(bit_vector_join(v, w, shift)) /\ bit_vector_join(v, w, shift).size = v.size
         /\ JoinsAt(v, w, shift)
<1> DEFINE at(j) == { i \in Places :
              bit_vector_get(IF i < shift % CHUNK_SIZE THEN v ELSE w, j * CHUNK_SIZE + i) = 1 }
           joined == [j \in Chunks(v.size) |->
              CASE j < shift \div CHUNK_SIZE -> v.content[j]
                [] j > shift \div CHUNK_SIZE -> w.content[j]
                [] j = shift \div CHUNK_SIZE -> at(j)]
<1>1. /\ v.size \in Nat \ {0} /\ v # NULL /\ w # NULL
      /\ v.content \in [Chunks(v.size) -> SUBSET Places]
      /\ w.content \in [Chunks(v.size) -> SUBSET Places]
  BY DEF IsVector, NULL
<1>2. bit_vector_join(v, w, shift) = [size |-> v.size, content |-> joined]
  <2>1. ~ (shift < 0 \/ Unfit(v, w) \/ shift > v.size)
    BY <1>1 DEF Unfit
  <2> QED BY <2>1, Zenon DEF bit_vector_join
<1>3. joined \in [Chunks(v.size) -> SUBSET Places]
  <2>1. ASSUME NEW j \in Chunks(v.size)
        PROVE  joined[j] \in SUBSET Places
    <3>1. j \in Int /\ shift \div CHUNK_SIZE \in Int
      BY <1>1, SMT DEF Chunks, forced_size, CHUNK_SIZE
    <3> QED BY <1>1, <3>1
  <2> QED BY <2>1
<1>4. ASSUME NEW k \in 0 .. v.size - 1
      PROVE  k % 32 \in joined[k \div 32] <=>
               IF k < shift THEN k % 32 \in v.content[k \div 32] ELSE k % 32 \in w.content[k \div 32]
  <2>1. k \div 32 \in Chunks(v.size) /\ k % 32 \in Places /\ k = 32 * (k \div 32) + (k % 32)
        /\ k \div 32 \in Int /\ k % 32 \in 0 .. 31
    BY <1>1, BitHasChunk, SMT DEF Places, CHUNK_SIZE
  <2>2. shift = 32 * (shift \div 32) + (shift % 32) /\ shift \div 32 \in Int /\ shift % 32 \in 0 .. 31
    BY <1>1, SMT
  <2>3. CASE k \div 32 < shift \div 32
    <3>1. joined[k \div 32] = v.content[k \div 32]
      <4> HIDE DEF at
      <4>1. k \div 32 < shift \div 32 /\ ~ (k \div 32 > shift \div 32) /\ k \div 32 # shift \div 32
        BY <2>1, <2>2, <2>3
      <4> QED BY <2>1, <4>1, Zenon DEF CHUNK_SIZE
    <3>2. k < shift
      BY <2>1, <2>2, <2>3
    <3> QED BY <3>1, <3>2
  <2>4. CASE k \div 32 > shift \div 32
    <3>1. joined[k \div 32] = w.content[k \div 32]
      BY <2>1, <2>2, <2>4 DEF CHUNK_SIZE
    <3>2. ~ (k < shift)
      BY <2>1, <2>2, <2>4
    <3> QED BY <3>1, <3>2
  <2>5. CASE k \div 32 = shift \div 32
    <3>1. joined[k \div 32] = at(k \div 32)
      BY <2>1, <2>2, <2>5 DEF CHUNK_SIZE
    <3>2. k < shift <=> k % 32 < shift % 32
      BY <2>1, <2>2, <2>5
    <3>3. (k \div 32) * CHUNK_SIZE + (k % 32) = k
      BY <2>1 DEF CHUNK_SIZE
    <3>4. k % 32 \in at(k \div 32) <=> bit_vector_get(IF k < shift THEN v ELSE w, k) = 1
      BY <2>1, <3>2, <3>3 DEF CHUNK_SIZE
    <3>5. /\ bit_vector_get(v, k) = 1 <=> k % 32 \in v.content[k \div 32]
          /\ bit_vector_get(w, k) = 1 <=> k % 32 \in w.content[k \div 32]
      BY GetReadsTheChunk
    <3> HIDE DEF joined, at
    <3> QED BY <3>1, <3>4, <3>5
  <2> HIDE DEF joined
  <2> QED BY <2>1, <2>2, <2>3, <2>4, <2>5
<1>5. /\ Bits(v) = { k \in 0 .. v.size - 1 : k % 32 \in v.content[k \div 32] }
      /\ Bits(w) = { k \in 0 .. v.size - 1 : k % 32 \in w.content[k \div 32] }
  BY BitsOfChunks
<1> HIDE DEF joined
<1>6. /\ IsVector(bit_vector_join(v, w, shift)) /\ bit_vector_join(v, w, shift).size = v.size
      /\ Bits(bit_vector_join(v, w, shift)) = { k \in 0 .. v.size - 1 : k % 32 \in joined[k \div 32] }
  BY <1>1, <1>2, <1>3, VectorOfChunks
<1>7. Bits(bit_vector_join(v, w, shift)) =
        { k \in Bits(v) : k < shift } \cup { k \in Bits(w) : k >= shift }
  <2>1. ASSUME NEW k
        PROVE  k \in Bits(bit_vector_join(v, w, shift)) <=>
                 k \in { x \in Bits(v) : x < shift } \cup { x \in Bits(w) : x >= shift }
    <3>1. CASE k \in 0 .. v.size - 1
      <4>1. k < shift \/ k >= shift
        BY <1>1, <3>1
      <4>2. ~ (k < shift /\ k >= shift)
        BY <1>1, <3>1
      <4> QED BY <1>4, <1>5, <1>6, <3>1, <4>1, <4>2
    <3> QED BY <1>5, <1>6, <3>1
  <2> QED BY <2>1
<1> QED BY <1>6, <1>7 DEF JoinsAt
=============================================================================
