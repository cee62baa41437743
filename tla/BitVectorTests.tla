--------------------------- MODULE BitVectorTests ---------------------------
(***************************************************************************)
(* What unit-test-bit-vector.c expects of bit_vector.c, word by word and   *)
(* padding included, one operator per test.                                *)
(***************************************************************************)
EXTENDS BitVector, Sequences

(* A word of two halves                                                    *)
Word(high, low) ==
  { i \in Places : ((IF i < 16 THEN low ELSE high) \div 2^(i % 16)) % 2 = 1 }
Twice(word) == << word, word >>

ZEROS    == Word(0, 0)
ONES     == Word(\hFFFF, \hFFFF)
HALF     == Word(0, \hFFFF)
AAAAAAAA == Word(\hAAAA, \hAAAA)
DEADBOSS == Word(\hDEAD, \hB055)
EXT_ZERO == [P5 |-> << Word(\hAEF5, \h6D82), Word(\h06F5, \h6D82) >>, M5 |-> << Word(\hD5B6, \h0AA0), Word(\hD5B6, \h0ABB) >>,
             P10 |-> << Word(\h1577, \hAB6C), Word(\h0037, \hAB6C) >>, M10 |-> << Word(\hB6C1, \h5400), Word(\hB6C1, \h577A) >>]
EXT_WRAP == [P5 |-> Word(\hAEF5, \h6D82), M5 |-> Word(\hD5B6, \h0ABB),
             P10 |-> Word(\h1577, \hAB6C), M10 |-> Word(\hB6C1, \h577A)]

vector_match_tab(v, words) == v # NULL /\ \A j \in DOMAIN words : v.content[j - 1] = words[j]
fill_vector_with(v, word) == [v EXCEPT !.content = [j \in DOMAIN @ |-> word]]

One   == bit_vector_create(32, 1)
Two   == bit_vector_create(64, 1)
None1 == bit_vector_create(32, 0)
None2 == bit_vector_create(64, 0)
Most  == bit_vector_create(48, 1)      \* its second chunk has padding
DeadBoss2 == fill_vector_with(None2, DEADBOSS)
Aaaaaaaa2 == fill_vector_with(None2, AAAAAAAA)

-----------------------------------------------------------------------------
create_exec ==
  /\ bit_vector_create(0, 0) = NULL /\ bit_vector_create(0, 1) = NULL
  /\ One.size = 32
  /\ vector_match_tab(One, << ONES >>) /\ vector_match_tab(None1, << ZEROS >>)
  /\ vector_match_tab(Two, << ONES, ONES >>) /\ vector_match_tab(None2, << ZEROS, ZEROS >>)
  /\ vector_match_tab(bit_vector_create(16, 1), << HALF >>)
  /\ vector_match_tab(Most, << ONES, HALF >>)

cpy_exec ==
  /\ bit_vector_cpy(NULL) = NULL
  /\ bit_vector_cpy(One) = One
  /\ bit_vector_cpy(DeadBoss2).size = 64 /\ vector_match_tab(bit_vector_cpy(DeadBoss2), Twice(DEADBOSS))

get_exec ==
  /\ bit_vector_get(NULL, 0) = 0
  /\ bit_vector_get(One, SIZE_RANGE - 1) = 0 /\ bit_vector_get(One, One.size + 1) = 0
  /\ \A i \in 0 .. 31 : bit_vector_get(fill_vector_with(One, DEADBOSS), i) = (IF i \in DEADBOSS THEN 1 ELSE 0)

not_exec ==
  /\ bit_vector_not(NULL) = NULL
  /\ vector_match_tab(bit_vector_not(One), << ZEROS >>) /\ vector_match_tab(bit_vector_not(None1), << ONES >>)
  /\ vector_match_tab(bit_vector_not(Two), << ZEROS, ZEROS >>)
  /\ vector_match_tab(bit_vector_not(None2), << ONES, ONES >>)
  /\ vector_match_tab(bit_vector_not(bit_vector_create(16, 1)), << ZEROS >>)
  /\ vector_match_tab(bit_vector_not(Most), << ZEROS, ZEROS >>)
  /\ vector_match_tab(bit_vector_not(fill_vector_with(None2, Word(\h2152, \h4FAA))), Twice(DEADBOSS))

and_exec ==
  /\ bit_vector_and(NULL, NULL) = NULL /\ bit_vector_and(One, Two) = NULL
  /\ vector_match_tab(bit_vector_and(One, One), << ONES >>)
  /\ vector_match_tab(bit_vector_and(None1, One), << ZEROS >>)
  /\ vector_match_tab(bit_vector_and(None2, Two), << ZEROS >>)
  /\ vector_match_tab(bit_vector_and(Most, Most), << ONES, HALF >>)
  /\ vector_match_tab(bit_vector_and(Aaaaaaaa2, DeadBoss2), Twice(Word(\h8AA8, \hA000)))

or_exec ==
  /\ bit_vector_or(NULL, NULL) = NULL /\ bit_vector_or(One, Two) = NULL
  /\ vector_match_tab(bit_vector_or(None1, One), << ONES >>)
  /\ vector_match_tab(bit_vector_or(None2, Two), << ONES, ONES >>)
  /\ vector_match_tab(bit_vector_or(Most, Most), << ONES, HALF >>)
  /\ vector_match_tab(bit_vector_or(Aaaaaaaa2, DeadBoss2), Twice(Word(\hFEAF, \hBAFF)))

xor_exec ==
  /\ bit_vector_xor(NULL, NULL) = NULL /\ bit_vector_xor(One, Two) = NULL
  /\ vector_match_tab(bit_vector_xor(None1, One), << ONES >>)
  /\ vector_match_tab(bit_vector_xor(None2, Two), << ONES, ONES >>)
  /\ vector_match_tab(bit_vector_xor(Most, bit_vector_create(48, 0)), << ONES, HALF >>)
  /\ vector_match_tab(bit_vector_xor(Most, Most), << ZEROS, ZEROS >>)
  /\ vector_match_tab(bit_vector_xor(Aaaaaaaa2, DeadBoss2), Twice(Word(\h7407, \h1AFF)))

extract_zero_exec ==
  LET Extract(index, size) == bit_vector_extract_zero_ext(Two, index, size)
      Dead(index) == bit_vector_extract_zero_ext(DeadBoss2, index, 64) IN
  /\ Extract(0, 0) = NULL
  /\ bit_vector_extract_zero_ext(NULL, 0, 69) = bit_vector_create(69, 0)
  /\ vector_match_tab(Extract(0, 64), << ONES, ONES >>) /\ vector_match_tab(Extract(64, 64), << ZEROS, ZEROS >>)
  /\ vector_match_tab(Extract(0, 32), << ONES >>) /\ vector_match_tab(Extract(-32, 32), << ZEROS >>)
  /\ vector_match_tab(Extract(16, 64), << ONES, HALF >>)
  /\ vector_match_tab(Dead(5), EXT_ZERO.P5) /\ vector_match_tab(Dead(-5), EXT_ZERO.M5)
  /\ vector_match_tab(Dead(10), EXT_ZERO.P10) /\ vector_match_tab(Dead(-10), EXT_ZERO.M10)

extract_wrap_exec ==
  LET Extract(index, size) == bit_vector_extract_wrap_ext(Two, index, size)
      Dead(index) == bit_vector_extract_wrap_ext(DeadBoss2, index, 64) IN
  /\ bit_vector_extract_wrap_ext(NULL, 0, 32) = NULL /\ Extract(0, 0) = NULL
  /\ \A index \in { 0, 64, -16 } : vector_match_tab(Extract(index, 64), << ONES, ONES >>)
  /\ \A index \in { 0, -32 } : vector_match_tab(Extract(index, 32), << ONES >>)
  /\ vector_match_tab(Dead(5), Twice(EXT_WRAP.P5)) /\ vector_match_tab(Dead(-5), Twice(EXT_WRAP.M5))
  /\ vector_match_tab(Dead(10), Twice(EXT_WRAP.P10)) /\ vector_match_tab(Dead(-10), Twice(EXT_WRAP.M10))

shift_exec ==
  LET Dead(shift) == bit_vector_shift(DeadBoss2, shift) IN
  /\ bit_vector_shift(NULL, 0) = NULL
  /\ vector_match_tab(bit_vector_shift(Two, 0), << ONES, ONES >>)
  /\ \A shift \in { 64, -64 } : vector_match_tab(bit_vector_shift(Two, shift), << ZEROS, ZEROS >>)
  /\ vector_match_tab(bit_vector_shift(bit_vector_shift(Two, -16), 0), << ONES, HALF >>)
  /\ vector_match_tab(Dead(-5), EXT_ZERO.P5) /\ vector_match_tab(Dead(5), EXT_ZERO.M5)
  /\ vector_match_tab(Dead(-10), EXT_ZERO.P10) /\ vector_match_tab(Dead(10), EXT_ZERO.M10)

join_exec ==
  /\ bit_vector_join(NULL, NULL, 0) = NULL /\ bit_vector_join(NULL, One, 0) = NULL
  /\ bit_vector_join(One, NULL, 0) = NULL /\ bit_vector_join(One, None2, 0) = NULL
  /\ bit_vector_join(One, One, 32) # NULL
  /\ vector_match_tab(bit_vector_join(One, None1, 16), << HALF >>)
  /\ vector_match_tab(bit_vector_join(Two, None2, 48), << ONES, HALF >>)
  /\ vector_match_tab(bit_vector_join(fill_vector_with(One, Word(\hB055, \hB055)),
                                      fill_vector_with(None1, Word(\hDEAD, \hDEAD)), 16), << DEADBOSS >>)

various ==
  LET pv2 == bit_vector_not(bit_vector_extract_zero_ext(One, -17, 32)) IN
  /\ vector_match_tab(pv2, << Word(1, \hFFFF) >>)
  /\ vector_match_tab(bit_vector_extract_wrap_ext(pv2, 11, 64), Twice(Word(\hFFE0, \h003F)))

(* 0xAAAADEADB055 out of a single bit                                      *)
deadboss ==
  LET Or3(a, b, c) == bit_vector_or(a, bit_vector_or(b, c))
      Zero(v, index, size) == bit_vector_extract_zero_ext(v, index, size)
      Wrap(v, index, size) == bit_vector_extract_wrap_ext(v, index, size)
      pv1_8 == Zero(bit_vector_create(1, 1), -3, 4)
      Low(shift) == bit_vector_shift(pv1_8, -shift)
      pv4_8888 == Wrap(pv1_8, 0, 16)
      pv4_AAAA == bit_vector_or(bit_vector_shift(pv4_8888, -2), pv4_8888)
      pv8_0000AAAA == Zero(pv4_AAAA, 0, 32)
      pv1_D == Or3(pv1_8, Low(1), Low(3))
      pv1_E == Or3(pv1_8, Low(1), Low(2))
      pv1_A == bit_vector_or(pv1_8, Low(2))
      pv1_B == bit_vector_or(pv1_A, Low(3))
      pv1_5 == bit_vector_not(pv1_A)
      pv4_D0A0 == bit_vector_or(bit_vector_and(Zero(pv1_A, -4, 16), pv4_AAAA), Zero(pv1_D, -12, 16))
      pv4_0E0D == bit_vector_or(Zero(pv1_E, -8, 16), Zero(pv1_D, 0, 16))
      pv4_DEAD == bit_vector_or(pv4_D0A0, pv4_0E0D)
      pv4_BOSS == bit_vector_or(Zero(pv1_B, -12, 16), Zero(Wrap(pv1_5, -64, 8), 0, 16))
      pv8_DEADBOSS == bit_vector_join(Wrap(pv4_BOSS, 0, 32), Wrap(pv4_DEAD, 0, 32), 16)
      pv12_AAAADEADBOSS ==
        Zero(bit_vector_join(Wrap(pv8_DEADBOSS, -32, 64), Wrap(pv8_0000AAAA, 32, 64), 32), 0, 48)
  IN  \E v \in { pv12_AAAADEADBOSS } : vector_match_tab(v, << DEADBOSS, Word(0, \hAAAA) >>)

-----------------------------------------------------------------------------
(***************************************************************************)
(* Every assertion of unit-test-bit-vector.c about what a vector holds.    *)
(***************************************************************************)
VectorTestsHold ==
  /\ create_exec /\ cpy_exec /\ get_exec /\ not_exec /\ and_exec /\ or_exec /\ xor_exec
  /\ extract_zero_exec /\ extract_wrap_exec /\ shift_exec /\ join_exec /\ various /\ deadboss
=============================================================================
