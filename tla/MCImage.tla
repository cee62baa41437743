------------------------------ MODULE MCImage ------------------------------
(***************************************************************************)
(* Image with three lines, two of them drawn: a, 34 pixels wide and with   *)
(* garbage in its padding, and b, as wide or 32 pixels.  34 is no power of *)
(* two.                                                                    *)
(***************************************************************************)
EXTENDS Image, BitVectorTests

Thirds == { i \in Places : i % 3 = 0 }
MCWords == { Places, Thirds }

Vec(size, content) == [size |-> size, content |-> [j \in Chunks(size) |-> content[j + 1]]]
Held3(first) == [msb |-> first, lsb |-> first + 1, opacity |-> first + 2]

MCInit ==
  /\ \E width \in Widths : LET drawn == width = 34 IN
       /\ line = [l \in Lines |-> CASE l = "a" -> Held3(1) [] l = "b" -> Held3(4) [] OTHER -> NoLine]
       /\ image = IF drawn THEN [height |-> 1, content |-> [y \in 0 .. 0 |-> Held3(7)]] ELSE NoImage
       /\ heap = [p \in Pointers |->
            CASE p = 1 -> Vec(34, << Thirds, Places >>)
              [] p = 2 -> Vec(34, << { i \in Places : i < 20 }, Thirds >>)
              [] p = 3 -> Vec(34, << Thirds \cup { i \in Places : i < 20 }, Places >>)
              [] p \in 4 .. 6 -> Vec(width, << { i \in Places : i % p = 1 }, { 0 } >>)
              [] drawn /\ p \in 7 .. 9 -> bit_vector_create(34, 0)
              [] OTHER -> NULL]
  /\ call = << >> /\ result = "ERR_NONE" /\ short = FALSE /\ lossy = FALSE /\ calls = 0

(* A refused call has changed nothing but what was called: none follows it  *)
MCNext == result # "ERR_BAD_PARAMETER" /\ Next
MCSpec == MCInit /\ [][MCNext]_vars

MCWidths   == { 32, 34 }
MCHeights  == { 2 }
MCShifts   == { -3, 33 }
MCIndexes  == { 0, 30 }
MCPalettes == { 228, 27, 0 }
MCStarts   == { 0, 5, 33 }
MCFailures == { {} } \cup { { n } : n \in 0 .. 8 }

ASSUME RangesAssumption == InRange

-----------------------------------------------------------------------------
(* Vectors of one bit, less than a chunk, a chunk and more, their padding as *)
(* it comes                                                                *)
Samples == { Vec(size, content) : size \in { 1, 5, 32, 34 },
                                  content \in { << Thirds, Places >>, << Places, Thirds >>, << {0, 31}, {1, 9} >> } }

(***************************************************************************)
(* The functions of bit_vector.c do bit by bit what bit_vector.h says and  *)
(* are not misled by padding, by a negative index that wraps in a size_t or *)
(* by the edges of a chunk; and the repository's unit tests of them hold.  *)
(***************************************************************************)
VectorLaws == calls = 0 =>
  /\ VectorTestsHold
  /\ \A v \in Samples :
       /\ NotComplements(v)
       /\ \A index \in { -40, -1, 0, 3, 33 }, size \in { 1, 31, 34 } :
            ExtractsWithZeros(v, index, size) /\ ExtractsInTurn(v, index, size)
       /\ \A w \in Samples :
            BitByBit(v, w) /\ \A shift \in { 0, 1, 5, 31, 32, 33, 34 } : JoinsAt(v, w, shift)
=============================================================================
