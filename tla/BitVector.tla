----------------------------- MODULE BitVector -----------------------------
(***************************************************************************)
(* The bit vectors of bit_vector.c: a size and as many 32-bit chunks as    *)
(* hold it.  A chunk is the set of its bits that are 1.  The bits of the   *)
(* last chunk from size on, its padding, belong to no pixel, and not every *)
(* function keeps them at 0.                                               *)
(***************************************************************************)
EXTENDS Naturals, Integers

CONSTANT SIZE_RANGE   (* one more than SIZE_MAX: where a size_t wraps       *)
ASSUME RangeAssumption == SIZE_RANGE \in Nat \ {0}

CHUNK_SIZE == 32
BYTE_SIZE  == 8
Places == 0 .. CHUNK_SIZE - 1

(* No vector has size 0: bit_vector_create refuses it                      *)
NULL == [size |-> 0, content |-> [j \in {} |-> {}]]

forced_size(size) == size \div CHUNK_SIZE + (IF size % CHUNK_SIZE # 0 THEN 1 ELSE 0)
Chunks(size) == 0 .. forced_size(size) - 1

IsVector(v) ==
  /\ v = [size |-> v.size, content |-> v.content]
  /\ v.size \in Nat \ {0}
  /\ v.content \in [Chunks(v.size) -> SUBSET Places]

bit_vector_set_unnecessary_bits_to_0(v) ==
  IF v.size % CHUNK_SIZE = 0 THEN v
  ELSE [v EXCEPT !.content[forced_size(v.size) - 1] = { i \in @ : i < v.size % CHUNK_SIZE }]

-----------------------------------------------------------------------------
bit_vector_create(size, value) ==
  IF size = 0 THEN NULL
  ELSE IF value = 1
  THEN bit_vector_set_unnecessary_bits_to_0([size |-> size, content |-> [j \in Chunks(size) |-> Places]])
  ELSE [size |-> size, content |-> [j \in Chunks(size) |-> {}]]

bit_vector_cpy(v) == v

(* Where the half of a chunk that holds a byte starts, and the byte in it   *)
Half(byte) == IF byte <= 1 THEN 0 ELSE CHUNK_SIZE \div 2
Byte(byte) == IF byte % 2 = 0 THEN 0 ELSE BYTE_SIZE

bit_vector_get(v, index) ==
  IF v = NULL \/ index >= CHUNK_SIZE * forced_size(v.size) THEN 0
  ELSE LET chunk == index \div CHUNK_SIZE
           byte  == (index - CHUNK_SIZE * chunk) \div BYTE_SIZE
       IN  IF Half(byte) + Byte(byte) + (index % BYTE_SIZE) \in v.content[chunk] THEN 1 ELSE 0

bit_vector_not(v) ==
  IF v = NULL THEN NULL
  ELSE bit_vector_set_unnecessary_bits_to_0([v EXCEPT !.content = [j \in Chunks(v.size) |-> Places \ @[j]]])

(* The second operand may be NULL or of another size: then there is no      *)
(* result, and the first operand is left alone.                            *)
Unfit(v, w) == v = NULL \/ w = NULL \/ v.size # w.size
bit_vector_and(v, w) ==
  IF Unfit(v, w) THEN NULL
  ELSE [v EXCEPT !.content = [j \in Chunks(v.size) |-> @[j] \cap w.content[j]]]
bit_vector_or(v, w) ==
  IF Unfit(v, w) THEN NULL
  ELSE [v EXCEPT !.content = [j \in Chunks(v.size) |-> @[j] \cup w.content[j]]]
bit_vector_xor(v, w) ==
  IF Unfit(v, w) THEN NULL
  ELSE [v EXCEPT !.content = [j \in Chunks(v.size) |-> (@[j] \ w.content[j]) \cup (w.content[j] \ @[j])]]

(* index_in_original_vector, a size_t                                      *)
OriginalIndex(j, index, i) == (j * CHUNK_SIZE + index + i) % SIZE_RANGE

bit_vector_extract_zero_ext(v, index, size) ==
  IF v = NULL \/ size = 0 THEN bit_vector_create(size, 0)
  ELSE [size |-> size,
        content |-> [j \in Chunks(size) |->
          { i \in Places : /\ OriginalIndex(j, index, i) < v.size
                           /\ bit_vector_get(v, OriginalIndex(j, index, i)) = 1 }]]

WrapsAtTheChunk(v, index, size) ==                                    \* fault
  IF v = NULL \/ size = 0 THEN NULL
  ELSE [size |-> size,
        content |-> [j \in Chunks(size) |->
          { i \in Places : bit_vector_get(v, OriginalIndex(j, index, i)
                             % (CHUNK_SIZE * forced_size(v.size))) = 1 }]]
bit_vector_extract_wrap_ext(v, index, size) ==
  IF v = NULL \/ size = 0 THEN NULL
  ELSE [size |-> size,
        content |-> [j \in Chunks(size) |->
          { i \in Places : bit_vector_get(v, OriginalIndex(j, index, i) % v.size) = 1 }]]

bit_vector_shift(v, shift) ==
  IF v = NULL THEN NULL ELSE bit_vector_extract_zero_ext(v, -shift, v.size)

bit_vector_join(v, w, shift) ==
  IF shift < 0 \/ Unfit(v, w) \/ shift > v.size THEN NULL
  ELSE [size |-> v.size,
        content |-> [j \in Chunks(v.size) |->
          CASE j < shift \div CHUNK_SIZE -> v.content[j]
            [] j > shift \div CHUNK_SIZE -> w.content[j]
            [] j = shift \div CHUNK_SIZE ->
                 { i \in Places :
                     bit_vector_get(IF i < shift % CHUNK_SIZE THEN v ELSE w, j * CHUNK_SIZE + i) = 1 }]]

-----------------------------------------------------------------------------
(***************************************************************************)
(* What the functions promise: the bits of a vector, and none of its       *)
(* padding.                                                                *)
(***************************************************************************)
Bits(v) == { k \in 0 .. v.size - 1 : bit_vector_get(v, k) = 1 }

(* bit_vector_not turns every bit over, whatever the padding was.          *)
NotComplements(v) == Bits(bit_vector_not(v)) = (0 .. v.size - 1) \ Bits(v)

(* bit_vector_and, _or and _xor work bit by bit.                           *)
BitByBit(v, w) ==
  v.size = w.size =>
    /\ Bits(bit_vector_and(v, w)) = Bits(v) \cap Bits(w)
    /\ Bits(bit_vector_or(v, w))  = Bits(v) \cup Bits(w)
    /\ Bits(bit_vector_xor(v, w)) = (Bits(v) \ Bits(w)) \cup (Bits(w) \ Bits(v))

(* bit_vector_extract_zero_ext reads 0 on both sides of the vector, however *)
(* index wraps on its way to a size_t.                                      *)
ExtractsWithZeros(v, index, size) ==
  Bits(bit_vector_extract_zero_ext(v, index, size)) = { k \in 0 .. size - 1 : k + index \in Bits(v) }

(* bit_vector_extract_wrap_ext reads the vector over and over, also before  *)
(* its start if its size divides the range of a size_t.                     *)
ExtractsInTurn(v, index, size) ==
  index >= 0 \/ SIZE_RANGE % v.size = 0 =>
    Bits(bit_vector_extract_wrap_ext(v, index, size)) = { k \in 0 .. size - 1 : (k + index) % v.size \in Bits(v) }

(* bit_vector_join has the first's bits before shift, the second's after.   *)
JoinsAt(v, w, shift) ==
  v.size = w.size /\ shift \in 0 .. v.size =>
    Bits(bit_vector_join(v, w, shift)) =
      { k \in Bits(v) : k < shift } \cup { k \in Bits(w) : k >= shift }
=============================================================================
