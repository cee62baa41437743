--------------------------- MODULE DispatchTests ---------------------------
(***************************************************************************)
(* The unit tests of cpu_dispatch, unit-test-cpu-dispatch-week08.c and     *)
(* -week09.c, as programs of steps: each sets registers and memory,        *)
(* dispatches one instruction and states what the CPU must then show.  A   *)
(* test is a sequence of runs, and a run a sequence of steps on one CPU,   *)
(* fresh from cpu_init.                                                    *)
(***************************************************************************)
EXTENDS Datapath, Sequences
LOCAL INSTANCE SequencesExt

(* What a test sets, and what it asserts: registers and pairs by name.  In  *)
(* "spair" the name AF stands for SP.                                       *)
Reg(name, value)   == [what |-> "reg", at |-> RegisterCode[name], value |-> value]
PairOf(name, value)  == [what |-> "pair", at |-> PairCode[name], value |-> value]
SPair(name, value) == [what |-> "spair", at |-> PairCode[name], value |-> value]
AtAddr(addr, value) == [what |-> "byte", at |-> addr, value |-> value]
Field(name, value) == [what |-> name, at |-> 0, value |-> value]
Pushed(word)       == [what |-> "push", at |-> 0, value |-> word]

PutIn(c, s) ==
  CASE s.what = "reg"   -> cpu_reg_set(c, s.at, s.value)
    [] s.what = "pair"  -> cpu_reg_pair_set(c, s.at, s.value)
    [] s.what = "spair" -> cpu_reg_pair_SP_set(c, s.at, s.value)
    [] s.what = "byte"  -> [c EXCEPT !.mem = SetByte(@, s.at, s.value)]
    [] s.what = "push"  -> cpu_SP_push(c, s.value)
    [] s.what = "F"     -> [c EXCEPT !.F = s.value]
    [] s.what = "PC"    -> [c EXCEPT !.PC = s.value]
    [] s.what = "SP"    -> [c EXCEPT !.SP = s.value]

Shows(c, s) ==
  s.value = CASE s.what = "reg"   -> cpu_reg_get(c, s.at)
              [] s.what = "pair"  -> cpu_reg_pair_get(c, s.at)
              [] s.what = "spair" -> cpu_reg_pair_SP_get(c, s.at)
              [] s.what = "byte"  -> cpu_read_at_idx(c, s.at)
              [] s.what = "pop"   -> cpu_SP_pop(c).word
              [] OTHER            -> c[s.what]

Step(set, lu, expect) == [set |-> set, lu |-> lu, expect |-> expect]
Prepared(step, c) == FoldLeft(PutIn, c, step.set)
Dispatched(step, c) == cpu_dispatch(step.lu, Prepared(step, c))

-----------------------------------------------------------------------------
(* The macros of unit-test-cpu-dispatch.h: one run each                    *)
RUN_DISPATCH_ALU_HL(a, b, f, v, e, lu) == [i \in DOMAIN f |->
  Step(<<Reg("A", a[i]), Field("F", f[i]), PairOf("HL", 0), AtAddr(0, b[i])>>, lu,
       <<Reg("A", v[i]), Field("F", e[i])>>)]

RUN_DISPATCH_ALU_N8(a, b, f, v, e, lu) == [i \in DOMAIN f |->
  Step(<<Reg("A", a[i]), Field("F", f[i]), Field("PC", 0), AtAddr(1, b[i])>>, lu,
       <<Reg("A", v[i]), Field("F", e[i])>>)]

RUN_DISPATCH_ALU_R8(a, b, f, v, e, r, lu) == [i \in DOMAIN f |->
  Step(<<Reg("A", a[i]), Field("F", f[i]), Reg(r, b[i])>>, lu, <<Reg("A", v[i]), Field("F", e[i])>>)]

RUN_DISPATCH_ALU_R8_S(a, f, v, e, r, lu) == [i \in DOMAIN f |->
  Step(<<Field("F", f[i]), Reg(r, a[i])>>, lu, <<Reg(r, v[i]), Field("F", e[i])>>)]

RUN_DISPATCH_ALU_R16_S(a, f, v, e, p, lu) == [i \in DOMAIN f |->
  Step(<<Field("F", f[i]), SPair(p, a[i])>>, lu, <<SPair(p, v[i]), Field("F", e[i])>>)]

RUN_DISPATCH_ALU_R16(a, b, f, v, e, p, lu) == [i \in DOMAIN f |->
  Step(<<PairOf("HL", a[i]), Field("F", f[i]), SPair(p, b[i])>>, lu,
       <<PairOf("HL", v[i]), Field("F", e[i])>>)]

NotA == <<"B", "C", "D", "E", "H", "L">>
All7 == <<"A", "B", "C", "D", "E", "H", "L">>

(* Each k of keys, and for each the steps f[k] in turn, on one CPU          *)
InTurn(keys, f) == FlattenSeq([i \in DOMAIN keys |-> f[keys[i]]])

-----------------------------------------------------------------------------
(* The data                                                                *)
ADD_IN_DATA_A == <<0, 0, 1, 1, 2, 2, 4, 8, 8, 0, 0, 1, 1, 239, 128, 255, 15, 0, 0, 1, 1, 239,
                   128, 255, 15>>
ADD_IN_DATA_B == <<0, 0, 1, 1, 2, 2, 4, 8, 8, 0, 1, 0, 15, 1, 128, 255, 241, 0, 1, 0, 15, 1,
                   128, 255, 241>>
ADD_IN_FLAG == <<0, 16, 0, 16, 0, 16, 0, 0, 16, 0, 0, 0, 0, 0, 0, 0, 0, 240, 240, 240, 240, 240,
                 240, 240, 240>>
ADD_OUT_DATA == <<0, 0, 2, 2, 4, 4, 8, 16, 16, 0, 1, 1, 16, 240, 0, 254, 0, 0, 1, 1, 16, 240, 0,
                  254, 0>>
ADD_OUT_FLAG == <<128, 128, 0, 0, 0, 0, 0, 32, 32, 128, 0, 0, 32, 32, 144, 48, 176, 128, 0, 0,
                  32, 32, 144, 48, 176>>
ADD_OUT_S_DATA == <<0, 0, 2, 2, 4, 4, 8, 16, 16, 0, 0, 2, 2, 222, 0, 254, 30, 0, 0, 2, 2, 222,
                    0, 254, 30>>
ADD_OUT_S_FLAG == <<128, 128, 0, 0, 0, 0, 0, 32, 32, 128, 128, 0, 0, 48, 144, 48, 32, 128, 128,
                    0, 0, 48, 144, 48, 32>>
ADD_OUT_C_DATA == <<0, 1, 2, 3, 4, 5, 8, 16, 17, 0, 1, 1, 16, 240, 0, 254, 0, 1, 2, 2, 17, 241,
                    1, 255, 1>>
ADD_OUT_C_FLAG == <<128, 0, 0, 0, 0, 0, 0, 32, 32, 128, 0, 0, 32, 32, 144, 48, 176, 0, 0, 0, 32,
                    32, 16, 48, 48>>
ADD_OUT_SC_DATA == <<0, 1, 2, 3, 4, 5, 8, 16, 17, 0, 0, 2, 2, 222, 0, 254, 30, 1, 1, 3, 3, 223,
                     1, 255, 31>>
ADD_OUT_SC_FLAG == <<128, 0, 0, 0, 0, 0, 0, 32, 32, 128, 128, 0, 0, 48, 144, 48, 32, 0, 0, 0, 0,
                     48, 16, 48, 32>>

INC_IN_DATA == <<0, 1, 255, 254, 16, 240, 221, 187, 15, 0, 255>>
INC_IN_FLAG == <<0, 0, 0, 0, 0, 0, 0, 0, 0, 240, 240>>
INC_OUT_DATA == <<1, 2, 0, 255, 17, 241, 222, 188, 16, 1, 0>>
INC_OUT_FLAG == <<0, 0, 160, 0, 0, 0, 0, 0, 32, 16, 176>>
INC_IN_DATA16 == <<4096, 0, 65535, 65520, 1, 4095, 57005, 45073, 45061, 0, 65535>>
INC_IN_FLAG16 == <<0, 0, 0, 0, 128, 0, 0, 0, 0, 240, 240>>
INC_OUT_DATA16 == <<4097, 1, 0, 65521, 2, 4096, 57006, 45074, 45062, 1, 0>>
INC_OUT_FLAG16 == <<0, 0, 0, 0, 128, 0, 0, 0, 0, 240, 240>>
ADD_IN_DATA_A16 == <<0, 65535, 1, 15, 4095, 2, 255, 61166, 15, 0, 65535>>
ADD_IN_DATA_B16 == <<0, 1, 1, 1, 2, 2, 1, 8738, 0, 0, 1>>
ADD_IN_FLAG16 == <<0, 16, 0, 16, 0, 16, 0, 0, 16, 240, 240>>
ADD_OUT_DATA16 == <<0, 0, 2, 16, 4097, 4, 256, 4368, 15, 0, 0>>
ADD_OUT_FLAG16 == <<0, 48, 0, 0, 32, 0, 0, 48, 0, 128, 176>>
ADD_OUT_S_DATA16 == <<0, 65534, 2, 30, 8190, 4, 510, 56796, 30, 0, 65534>>
ADD_OUT_S_FLAG16 == <<0, 48, 0, 0, 32, 0, 0, 48, 0, 128, 176>>

BIT_IN_DATA == <<0, 1, 2, 4, 8, 16, 32, 64, 128, 255, 15, 240, 0, 1, 2, 4, 8, 16, 32, 64, 128,
                 255, 15, 240>>
BIT_IN_FLAG == <<0, 0, 0, 0, 0, 0, 0, 0, 0, 0, 0, 0, 240, 240, 240, 240, 240, 240, 240, 240,
                 240, 240, 240, 240>>

CP_IN_DATA_A == <<0, 0, 1, 1, 2, 2, 4, 8, 8, 0, 0, 1, 1, 239, 128, 255, 15, 0, 0, 1, 1, 239,
                  128, 255, 15>>
CP_IN_DATA_B == <<0, 0, 1, 1, 2, 2, 4, 8, 8, 0, 1, 0, 15, 1, 128, 255, 241, 0, 1, 0, 15, 1, 128,
                  255, 241>>
CP_IN_FLAG == <<0, 16, 0, 16, 0, 16, 0, 0, 16, 0, 0, 0, 0, 0, 0, 0, 0, 240, 240, 240, 240, 240,
                240, 240, 240>>
CP_OUT_FLAG == <<192, 192, 192, 192, 192, 192, 192, 192, 192, 192, 112, 64, 112, 64, 192, 192,
                 80, 192, 112, 64, 112, 64, 192, 192, 80>>
CP_OUT_S_FLAG == <<192, 192, 192, 192, 192, 192, 192, 192, 192, 192, 192, 192, 192, 192, 192,
                   192, 192, 192, 192, 192, 192, 192, 192, 192, 192>>

ROT_IN_DATA == <<0, 0, 15, 255, 3, 0, 255, 254, 1, 128, 0, 1, 16, 128, 8>>
ROT_IN_FLAG == <<0, 16, 0, 0, 0, 0, 16, 0, 0, 0, 240, 240, 240, 240, 240>>
ROT_OUT_L_DATA == <<0, 1, 30, 254, 6, 0, 255, 252, 2, 0, 1, 3, 33, 1, 17>>
ROT_OUT_LZ_FLAG == <<128, 0, 0, 16, 0, 128, 16, 16, 0, 144, 0, 0, 0, 16, 0>>
ROT_OUT_R_DATA == <<0, 128, 7, 127, 1, 0, 255, 127, 0, 64, 128, 128, 136, 192, 132>>
ROT_OUT_RZ_FLAG == <<128, 0, 16, 16, 16, 128, 16, 0, 144, 0, 0, 16, 0, 0, 0>>

SHFT_IN_DATA == <<0, 0, 15, 255, 3, 0, 255, 254, 1, 2, 16, 128, 0, 1, 16, 8, 128>>
SHFT_IN_FLAG == <<0, 16, 0, 0, 0, 0, 16, 0, 0, 0, 0, 0, 240, 240, 240, 240, 240>>
SHFT_OUT_L_DATA == <<0, 0, 30, 254, 6, 0, 254, 252, 2, 4, 32, 0, 0, 2, 32, 16, 0>>
SHFT_OUT_L_FLAG == <<128, 128, 0, 16, 0, 128, 16, 16, 0, 0, 0, 144, 128, 0, 0, 0, 144>>

-----------------------------------------------------------------------------
(* Arithmetic                                                              *)
test_ADD_A_HLR == << RUN_DISPATCH_ALU_HL(ADD_IN_DATA_A, ADD_IN_DATA_B, ADD_IN_FLAG,
                                         ADD_OUT_DATA, ADD_OUT_FLAG, OP_ADD_A["HLR"]) >>
test_ADC_A_HLR == << RUN_DISPATCH_ALU_HL(ADD_IN_DATA_A, ADD_IN_DATA_B, ADD_IN_FLAG,
                                         ADD_OUT_C_DATA, ADD_OUT_C_FLAG, OP_ADC_A["HLR"]) >>
test_ADD_A_N8 == << RUN_DISPATCH_ALU_N8(ADD_IN_DATA_A, ADD_IN_DATA_B, ADD_IN_FLAG,
                                        ADD_OUT_DATA, ADD_OUT_FLAG, OP_ADD_A["N8"]) >>
test_ADC_A_N8 == << RUN_DISPATCH_ALU_N8(ADD_IN_DATA_A, ADD_IN_DATA_B, ADD_IN_FLAG,
                                        ADD_OUT_C_DATA, ADD_OUT_C_FLAG, OP_ADC_A["N8"]) >>

(* A + A has data of its own                                                *)
test_ADD_A_R8 ==
  [k \in 1 .. 6 |-> RUN_DISPATCH_ALU_R8(ADD_IN_DATA_A, ADD_IN_DATA_B, ADD_IN_FLAG,
                      ADD_OUT_DATA, ADD_OUT_FLAG, NotA[k], OP_ADD_A[NotA[k]])]
  \o << RUN_DISPATCH_ALU_R8_S(ADD_IN_DATA_A, ADD_IN_FLAG, ADD_OUT_S_DATA, ADD_OUT_S_FLAG,
                              "A", OP_ADD_A["A"]) >>
test_ADC_A_R8 ==
  [k \in 1 .. 6 |-> RUN_DISPATCH_ALU_R8(ADD_IN_DATA_A, ADD_IN_DATA_B, ADD_IN_FLAG,
                      ADD_OUT_C_DATA, ADD_OUT_C_FLAG, NotA[k], OP_ADC_A[NotA[k]])]
  \o << RUN_DISPATCH_ALU_R8_S(ADD_IN_DATA_A, ADD_IN_FLAG, ADD_OUT_SC_DATA, ADD_OUT_SC_FLAG,
                              "A", OP_ADC_A["A"]) >>

test_INC8 == [k \in 1 .. 7 |->
  RUN_DISPATCH_ALU_R8_S(INC_IN_DATA, INC_IN_FLAG, INC_OUT_DATA, INC_OUT_FLAG, All7[k], OP_INC[All7[k]])]
test_INC16 == [k \in 1 .. 3 |-> LET p == <<"BC", "DE", "AF">>[k] IN
  RUN_DISPATCH_ALU_R16_S(INC_IN_DATA16, INC_IN_FLAG16, INC_OUT_DATA16, INC_OUT_FLAG16, p, OP_INC_R16[p])]

test_ADD_HL_R16 ==
  [k \in 1 .. 3 |-> LET p == <<"BC", "DE", "AF">>[k] IN
     RUN_DISPATCH_ALU_R16(ADD_IN_DATA_A16, ADD_IN_DATA_B16, ADD_IN_FLAG16,
                          ADD_OUT_DATA16, ADD_OUT_FLAG16, p, OP_ADD_HL[p])]
  \o << RUN_DISPATCH_ALU_R16_S(ADD_IN_DATA_A16, ADD_IN_FLAG16, ADD_OUT_S_DATA16, ADD_OUT_S_FLAG16,
                               "HL", OP_ADD_HL["HL"]) >>

test_ROT_R8 ==
  [k \in 1 .. 7 |-> RUN_DISPATCH_ALU_R8_S(ROT_IN_DATA, ROT_IN_FLAG, ROT_OUT_L_DATA, ROT_OUT_LZ_FLAG,
                                          All7[k], OP_RL[All7[k]])]
  \o [k \in 1 .. 7 |-> RUN_DISPATCH_ALU_R8_S(ROT_IN_DATA, ROT_IN_FLAG, ROT_OUT_R_DATA,
                                             ROT_OUT_RZ_FLAG, All7[k], OP_RR[All7[k]])]
test_SLA_R8 == [k \in 1 .. 7 |->
  RUN_DISPATCH_ALU_R8_S(SHFT_IN_DATA, SHFT_IN_FLAG, SHFT_OUT_L_DATA, SHFT_OUT_L_FLAG,
                        All7[k], OP_SLA[All7[k]])]

test_CP_A_R8 ==
  [k \in 1 .. 6 |-> RUN_DISPATCH_ALU_R8(CP_IN_DATA_A, CP_IN_DATA_B, CP_IN_FLAG,
                      CP_IN_DATA_A, CP_OUT_FLAG, NotA[k], OP_CP_A[NotA[k]])]
  \o << RUN_DISPATCH_ALU_R8_S(CP_IN_DATA_A, CP_IN_FLAG, CP_IN_DATA_A, CP_OUT_S_FLAG,
                              "A", OP_CP_A["A"]) >>

(* BIT_OUT_FLAG_k is Z where bit k of the data is down, H, and the C found;  *)
(* CHG_OUT_DATA_k is the data without bit k                                  *)
Has(data, k) == (data \div Power2[k]) % 2 = 1
BIT_OUT_FLAG(k) == [i \in DOMAIN BIT_IN_DATA |->
  FLAG_H + (IF Has(BIT_IN_DATA[i], k) THEN 0 ELSE FLAG_Z)
         + (IF BIT_IN_FLAG[i] = 0 THEN 0 ELSE FLAG_C)]
CHG_OUT_DATA(k) == [i \in DOMAIN BIT_IN_DATA |->
  BIT_IN_DATA[i] - (IF Has(BIT_IN_DATA[i], k) THEN Power2[k] ELSE 0)]

test_BIT_U3_R8 == << InTurn(All7, [r \in R8 |-> InTurn(<<0, 1, 2, 3, 4, 5, 6, 7>>, [k \in 0 .. 7 |->
  RUN_DISPATCH_ALU_R8_S(BIT_IN_DATA, BIT_IN_FLAG, BIT_IN_DATA, BIT_OUT_FLAG(k), r, OP_BIT[k][r])])]) >>
test_CHG_U3_R8 == << InTurn(All7, [r \in R8 |-> InTurn(<<0, 1, 2, 3, 4, 5, 6, 7>>, [k \in 0 .. 7 |->
  RUN_DISPATCH_ALU_R8_S(BIT_IN_DATA, BIT_IN_FLAG, CHG_OUT_DATA(k), BIT_IN_FLAG, r, OP_RES[k][r])])]) >>

-----------------------------------------------------------------------------
(* Loads, stores and the stack.  dt, cv, n1, n2 and nn are the same in       *)
(* every test.                                                              *)
dt == <<0, 16, 17, 255, 0, 221, 15, 240>>
cv == <<0, 0, 1, 1, 1, 0, 0, 0>>
n1 == <<0, 173, 255, 1, 1, 0, 0, 0>>
n2 == <<0, 222, 0, 1, 1, 0, 0, 0>>
nn == <<0, 57005, 255, 257, 257, 0, 0, 0>>
n1f == <<0, 160, 240, 0, 0, 0, 0, 0>>
nnf == <<0, 56992, 240, 256, 256, 0, 0, 0>>

(* sp: SP before                                                            *)
LD_PUSH_R16_HELPER(p, i, sp) ==
  Step(<<PairOf(p, nn[i])>>, OP_PUSH[p],
       <<Field("SP", sp - 2), AtAddr(sp - 2, IF p = "AF" THEN n1f[i] ELSE n1[i]), AtAddr(sp - 1, n2[i])>>)
LD_POP_R16_HELPER(p, i, sp) ==
  Step(<<AtAddr(sp, n1[i]), AtAddr(sp + 1, n2[i])>>, OP_POP[p],
       <<Field("SP", sp + 2), PairOf(p, IF p = "AF" THEN nnf[i] ELSE nn[i])>>)

(* cpu.SP = 0xFF before the first step                                      *)
StartingAt255(run) == << [run EXCEPT ![1].set = <<Field("SP", 255)>> \o @] >>
StackPairs == <<"AF", "BC", "DE", "HL">>

test_PUSH_R16 == StartingAt255([k \in 1 .. 32 |->
  LD_PUSH_R16_HELPER(StackPairs[Row(k - 1)], Column(k - 1), 257 - 2 * k)])
test_POP_R16 == StartingAt255([k \in 1 .. 32 |->
  LD_POP_R16_HELPER(StackPairs[Row(k - 1)], Column(k - 1), 253 + 2 * k)])
test_PUSH_POP_R16 == StartingAt255([k \in 1 .. 64 |->
  LET p == StackPairs[Row((k - 1) \div 2)]
      i == Column((k - 1) \div 2)
  IN  IF k % 2 = 1 THEN LD_PUSH_R16_HELPER(p, i, 255) ELSE LD_POP_R16_HELPER(p, i, 253)])

Loaded(set, lu, i) == Step(set, lu, <<Reg("A", dt[i])>>)

test_LD_A_BCR == << [i \in 1 .. 8 |-> Loaded(<<AtAddr(cv[i], dt[i]), PairOf("BC", cv[i])>>, OP_LD_A_BCR, i)] >>
test_LD_A_DER == << [i \in 1 .. 8 |-> Loaded(<<AtAddr(cv[i], dt[i]), PairOf("DE", cv[i])>>, OP_LD_A_DER, i)] >>
test_LD_A_CR == << [i \in 1 .. 8 |->
  Loaded(<<AtAddr(REGISTERS_START + cv[i], dt[i]), Reg("C", cv[i])>>, OP_LD_A_CR, i)] >>
test_LD_A_N16R == << [i \in 1 .. 8 |->
  Loaded(<<AtAddr(nn[i], dt[i]), AtAddr(1, n1[i]), AtAddr(2, n2[i])>>, OP_LD_A_N16R, i)] >>
test_LD_A_N8R == << [i \in 1 .. 8 |->
  Loaded(<<AtAddr(REGISTERS_START + n1[i], dt[i]), AtAddr(1, n1[i])>>, OP_LD_A_N8R, i)] >>

LoadedFromHL(lu, i, hl) ==
  Step(<<AtAddr(cv[i], dt[i]), PairOf("HL", cv[i])>>, lu, <<Reg("A", dt[i]), PairOf("HL", hl)>>)
test_LD_A_HLR == << [i \in 1 .. 8 |-> LoadedFromHL(OP_LD["A"]["HLR"], i, cv[i])] >>
test_LD_A_HLRU == << [i \in 1 .. 8 |-> LoadedFromHL(OP_LD_A_HLRD, i, IF cv[i] = 0 THEN 65535 ELSE 0)]
                  \o [i \in 1 .. 8 |-> LoadedFromHL(OP_LD_A_HLRI, i, cv[i] + 1)] >>

test_LD_R16SP_N16 == << InTurn(<<1, 2, 3, 4, 5, 6, 7, 8>>, [i \in 1 .. 8 |-> [k \in 1 .. 4 |->
  Step(<<AtAddr(1, n1[i]), AtAddr(2, n2[i])>>, OP_LD_R16_N16[Pair[k]], <<SPair(Pair[k], nn[i])>>)]]) >>
test_LD_R8_HLR == << InTurn(<<1, 2, 3, 4, 5, 6, 7, 8>>, [i \in 1 .. 8 |-> [k \in 1 .. 7 |->
  Step(<<PairOf("HL", cv[i]), AtAddr(cv[i], dt[i])>>, OP_LD[All7[k]]["HLR"], <<Reg(All7[k], dt[i])>>)]]) >>
test_LD_R8_N8 == << InTurn(<<1, 2, 3, 4, 5, 6, 7, 8>>, [i \in 1 .. 8 |-> [k \in 1 .. 7 |->
  Step(<<AtAddr(1, dt[i])>>, OP_LD_N8[All7[k]], <<Reg(All7[k], dt[i])>>)]]) >>

StoredA(set, lu, addr, i) == Step(<<Reg("A", dt[i])>> \o set, lu, <<AtAddr(addr, dt[i])>>)

test_LD_BCR_A == << [i \in 1 .. 8 |-> StoredA(<<PairOf("BC", cv[i])>>, OP_LD_BCR_A, cv[i], i)] >>
test_LD_DER_A == << [i \in 1 .. 8 |-> StoredA(<<PairOf("DE", cv[i])>>, OP_LD_DER_A, cv[i], i)] >>
test_LD_CR_A == << [i \in 1 .. 8 |->
  StoredA(<<Reg("C", cv[i])>>, OP_LD_CR_A, REGISTERS_START + cv[i], i)] >>
test_LD_N16R_A == << [i \in 1 .. 8 |->
  StoredA(<<AtAddr(1, n1[i]), AtAddr(2, n2[i])>>, OP_LD_N16R_A, nn[i], i)] >>

StoredAtHL(lu, i, hl) ==
  Step(<<Reg("A", dt[i]), PairOf("HL", cv[i])>>, lu, <<AtAddr(cv[i], dt[i]), PairOf("HL", hl)>>)
test_LD_HLRU_A == << [i \in 1 .. 8 |-> StoredAtHL(OP_LD_HLRD_A, i, IF cv[i] = 0 THEN 65535 ELSE 0)]
                  \o [i \in 1 .. 8 |-> StoredAtHL(OP_LD_HLRI_A, i, cv[i] + 1)] >>

test_LD_HLR_N8 == << [i \in 1 .. 8 |->
  Step(<<PairOf("HL", cv[i]), Field("PC", 32), AtAddr(33, dt[i])>>, OP_LD_N8["HLR"],
       <<AtAddr(cv[i], dt[i])>>)] >>
test_LD_HLR_R8 == << InTurn(<<1, 2, 3, 4, 5, 6, 7, 8>>, [i \in 1 .. 8 |-> [k \in 1 .. 7 |->
  Step(<<PairOf("HL", cv[i]), Reg(All7[k], dt[i])>>, OP_LD["HLR"][All7[k]], <<AtAddr(cv[i], dt[i])>>)]]) >>

test_LD_N16R_SP == << [i \in 1 .. 8 |->
  LET sp == <<57005, 4112, 4369, 65535, 0, 57005, 3855, 61680>>[i]
  IN  Step(<<Field("SP", sp), AtAddr(1, n1[i]), AtAddr(2, n2[i])>>, OP_LD_N16R_SP,
           <<AtAddr(nn[i], sp % 256), AtAddr(nn[i] + 1, sp \div 256)>>)] >>

test_LD_SP_HL == << [i \in 1 .. 9 |->
  LET hl == <<0, 57005, 255, 4112, 257, 0, 57005, 48879, 0>>[i]
  IN  Step(<<PairOf("HL", hl)>>, OP_LD_SP_HL, <<Field("SP", hl)>>)] >>

test_LD_R8_R8 == << InTurn(All7, [to \in R8 |-> InTurn(All7, [from \in R8 |-> [i \in 1 .. 17 |->
  LET n == <<0, 173, 255, 1, 16, 0, 221, 187, 0, 192, 254, 202, 218, 0, 190, 239, 0>>[i]
  IN  Step(<<Reg(from, n)>>, OP_LD[to][from], <<Reg(to, n)>>)]])]) >>

test_STOP == << << Step(<<>>, OP_STOP, <<>>) >> >>
test_NOP  == << << Step(<<>>, OP_NOP, <<>>) >> >>

-----------------------------------------------------------------------------
(* Control: week 9                                                          *)
pcvr == <<57005, 48879, 0, 255>>
pcv1 == <<173, 239, 0, 255>>
pcv2 == <<222, 190, 0, 0>>

test_JP_HL == << [i \in 1 .. 4 |->
  Step(<<Field("PC", 61453), Reg("L", pcv1[i]), Reg("H", pcv2[i])>>, OP_JP_HL, <<Field("PC", pcvr[i])>>)] >>
test_JP_N16 == << [i \in 1 .. 4 |->
  Step(<<Field("PC", 61453), AtAddr(61454, pcv1[i]), AtAddr(61455, pcv2[i])>>, OP_JP_N16,
       <<Field("PC", pcvr[i])>>)] >>
test_CALL_N16 == << [i \in 1 .. 4 |->
  Step(<<Field("PC", 61453), Field("SP", 0), AtAddr(61454, pcv1[i]), AtAddr(61455, pcv2[i])>>,
       OP_CALL_N16, <<Field("PC", pcvr[i]), Field("pop", 61456)>>)] >>

(* input_f, and whether a condition holds under it                          *)
input_f == [i \in 1 .. 16 |-> 16 * (i - 1)]
Holds(cc, f) == CASE cc = "C" -> (f \div 16) % 2 = 1 [] cc = "NC" -> (f \div 16) % 2 = 0
                  [] cc = "Z" -> f >= 128            [] cc = "NZ" -> f < 128

(* For C, NC, Z and NZ in turn: set and the flags, then PC at yes or at no    *)
OnEveryFlag(set, lu, yes, no) == << InTurn(<<"C", "NC", "Z", "NZ">>, [cc \in DOMAIN ConditionCode |->
  [i \in 1 .. 16 |-> Step(set \o <<Field("F", input_f[i])>>, lu[cc],
                          IF Holds(cc, input_f[i]) THEN yes ELSE no)]]) >>

test_JP_CC_N16 == OnEveryFlag(<<Field("PC", 57002), AtAddr(57003, 239), AtAddr(57004, 190)>>,
                    OP_JP_CC, <<Field("PC", 48879)>>, <<Field("PC", 57005)>>)
test_JR_CC_E8 == OnEveryFlag(<<Field("PC", 57003), AtAddr(57004, 129)>>,
                   OP_JR_CC, <<Field("PC", 56878)>>, <<Field("PC", 57005)>>)

(* What is called is popped by the test: SP is back at 0xFFFF at each step   *)
test_CALL_CC_N16 ==
  OnEveryFlag(<<Field("SP", 65535), Field("PC", 57002), AtAddr(57003, 239), AtAddr(57004, 190)>>,
    OP_CALL_CC, <<Field("PC", 48879), Field("pop", 57005)>>, <<Field("PC", 57005)>>)

test_RET_CC == LET run == OnEveryFlag(<<Field("PC", 57004), Pushed(48879)>>,
                            OP_RET_CC, <<Field("PC", 48879)>>, <<Field("PC", 57005)>>)[1]
               IN  << [run EXCEPT ![1].set = <<Field("SP", 65535)>> \o @] >>

test_JR_E8 == << [i \in 1 .. 4 |->
  LET pc == <<255, 0, 57005, 48879>>[i]
  IN  Step(<<Field("PC", pc), AtAddr(pc + 1, <<255, 1, 173, 239>>[i])>>, OP_JR_E8,
           <<Field("PC", <<256, 3, 56924, 48864>>[i])>>)] >>

test_RET == << [i \in 1 .. 6 |->
  LET pcv == <<15, 57005, 48879, 49406, 53710, 49153>>[i]
  IN  Step(<<Pushed(pcv)>>, OP_RET, <<Field("PC", pcv)>>)] >>

test_RST_U3 == << [i \in 1 .. 8 |->
  Step(<<Field("SP", 65535), Field("PC", 15)>>, OP_RST[i - 1],
       <<Field("PC", 8 * (i - 1)), Field("pop", 16)>>)] >>

test_EDI == << [i \in 1 .. 7 |->
  LET order == <<0, 1, 0, 0, 1, 1, 0>>[i]
  IN  Step(<<>>, IF order = 0 THEN OP_DI ELSE OP_EI, <<Field("IME", order = 1)>>)] >>

test_RETI == << << Step(<<Field("SP", 65535), Pushed(57005)>>, OP_RETI,
                        <<Field("IME", TRUE), Field("PC", 57005)>>) >> >>
test_HALT == << << Step(<<>>, OP_HALT, <<Field("HALT", TRUE)>>) >> >>

-----------------------------------------------------------------------------
week08_test_suite == <<
  test_ADD_A_HLR, test_ADC_A_HLR, test_ADD_A_N8, test_ADC_A_N8, test_ADD_A_R8, test_ADC_A_R8,
  test_ADD_HL_R16, test_INC8, test_INC16, test_ROT_R8, test_SLA_R8, test_CP_A_R8, test_BIT_U3_R8,
  test_CHG_U3_R8, test_LD_A_BCR, test_LD_A_CR, test_LD_A_DER, test_LD_A_HLRU, test_LD_A_HLR,
  test_LD_A_N16R, test_LD_A_N8R, test_LD_R16SP_N16, test_LD_R8_N8, test_LD_R8_HLR, test_LD_BCR_A,
  test_LD_CR_A, test_LD_DER_A, test_LD_HLRU_A, test_LD_HLR_N8, test_LD_HLR_R8, test_LD_N16R_A,
  test_LD_N16R_SP, test_PUSH_R16, test_POP_R16, test_PUSH_POP_R16, test_LD_SP_HL, test_LD_R8_R8,
  test_STOP, test_NOP >>

week09_test_suite == <<
  test_JP_HL, test_JP_CC_N16, test_JP_N16, test_JR_CC_E8, test_JR_E8, test_CALL_CC_N16,
  test_CALL_N16, test_RET_CC, test_RET, test_RST_U3, test_EDI, test_RETI, test_HALT >>

(* The runs of both, each a sequence of steps                               *)
Runs == FlattenSeq(week08_test_suite \o week09_test_suite)
=============================================================================
