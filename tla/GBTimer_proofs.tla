--------------------------- MODULE GBTimer_proofs ---------------------------
(***************************************************************************)
(* GBTimer for every width of the registers, every tic count that divides  *)
(* it and every choice of selectable bits: type correctness, alignment of  *)
(* the counter, the implementation of TimerRate, and the closed form of    *)
(* TIMA.                                                                   *)
(***************************************************************************)
EXTENDS MCGBTimerWidth, TLAPS

-----------------------------------------------------------------------------
(* Arithmetic.                                                               *)

(* A natural number is its quotient and its remainder: bit_get and the       *)
(* counter's wrap are read through this.                                     *)
LEMMA DivMod ==
  ASSUME NEW a \in Nat, NEW n \in Nat \ {0}
  PROVE  /\ a \div n \in Nat
         /\ a % n \in 0 .. n - 1
         /\ a = n * (a \div n) + (a % n)
BY SMT

(* ... and no other pair is: used to compute bits of a shifted counter.      *)
LEMMA Quotient ==
  ASSUME NEW n \in Nat \ {0}, NEW q \in Nat, NEW r \in 0 .. n - 1
  PROVE  (n * q + r) \div n = q /\ (n * q + r) % n = r
BY SMT

(* A factor common to both sides cancels.                                    *)
LEMMA Cancel ==
  ASSUME NEW t \in Nat \ {0}, NEW a \in Nat, NEW b \in Nat, t * a = t * b
  PROVE  a = b
BY SMT

(* bit_get for a bit of weight h reads whether the upper half of a period p  *)
(* of 2 * h has been reached.                                                *)
LEMMA BitIsUpperHalf ==
  ASSUME NEW a \in Nat, NEW h \in Nat \ {0}, NEW p \in Nat \ {0}, p = 2 * h
  PROVE  bit_get(a, h) = IF a % p >= h THEN 1 ELSE 0
<1> DEFINE q == a \div p
           r == a % p
<1>1. q \in Nat /\ r \in 0 .. p - 1 /\ a = p * q + r
  BY DivMod
<1> HIDE DEF q, r
<1>2. CASE r >= h
  <2>1. a = h * (2 * q + 1) + (r - h) /\ r - h \in 0 .. h - 1
    BY <1>1, <1>2
  <2>2. 2 * q + 1 \in Nat
    BY <1>1
  <2>3. a \div h = 2 * q + 1
    BY <2>1, <2>2, Quotient
  <2>4. (2 * q + 1) % 2 = 1
    BY <1>1
  <2> QED BY <1>2, <2>3, <2>4 DEF bit_get, r
<1>3. CASE r < h
  <2>1. a = h * (2 * q) + r /\ r \in 0 .. h - 1
    BY <1>1, <1>3
  <2>2. 2 * q \in Nat
    BY <1>1
  <2>3. a \div h = 2 * q
    BY <2>1, <2>2, Quotient
  <2>4. (2 * q) % 2 = 0
    BY <1>1
  <2>5. ~(r >= h)
    BY <1>1, <1>3
  <2> QED BY <2>3, <2>4, <2>5 DEF bit_get, r
<1> QED BY <1>1, <1>2, <1>3

(* Counting modulo a multiple M of the period p, the bit of weight h falls   *)
(* exactly when a multiple of the period is reached.                         *)
LEMMA FallsAtPeriod ==
  ASSUME NEW h \in Nat \ {0}, NEW p \in Nat \ {0}, p = 2 * h,
         NEW M \in Nat \ {0}, M % p = 0,
         NEW a \in 0 .. M - 1
  PROVE  bit_get(a, h) = 1 /\ bit_get((a + 1) % M, h) = 0 <=> ((a + 1) % M) % p = 0
<1> DEFINE q == a \div p
           r == a % p
           b == (a + 1) % M
<1>1. q \in Nat /\ r \in 0 .. p - 1 /\ a = p * q + r
  <2>1. a \in Nat
    OBVIOUS
  <2> QED BY <2>1, DivMod
<1>2. b = IF a + 1 = M THEN 0 ELSE a + 1
  BY SMT
<1>3. a \in Nat /\ b \in Nat
  BY <1>2
<1>4. bit_get(a, h) = IF r >= h THEN 1 ELSE 0
  BY <1>3, BitIsUpperHalf
<1>5. bit_get(b, h) = IF b % p >= h THEN 1 ELSE 0
  BY <1>3, BitIsUpperHalf
<1> HIDE DEF q, r
<1>6. CASE r = p - 1
  <2>1. a + 1 = p * (q + 1) + 0 /\ q + 1 \in Nat /\ 0 \in 0 .. p - 1
    BY <1>1, <1>6
  <2>2. (a + 1) % p = 0
    BY <2>1, Quotient
  <2>3. b % p = 0
    BY <1>2, <2>2
  <2>4. r >= h /\ ~(0 >= h)
    BY <1>6
  <2> QED BY <1>4, <1>5, <2>3, <2>4
<1>7. CASE r # p - 1
  <2>1. a + 1 = p * q + (r + 1) /\ r + 1 \in 1 .. p - 1 /\ r + 1 \in 0 .. p - 1
    BY <1>1, <1>7
  <2>2. (a + 1) % p = r + 1
    <3>1. (p * q + (r + 1)) % p = r + 1
      BY <2>1, <1>1, Quotient
    <3> QED BY <2>1, <3>1
  <2>3. b = a + 1
    BY <1>2, <2>1, <2>2
  <2> QED BY <1>1, <1>4, <1>5, <2>1, <2>2, <2>3
<1> QED BY <1>6, <1>7

(* Reading the counter in tics instead of units changes neither a bit ...    *)
LEMMA ScaledBit ==
  ASSUME NEW a \in Nat, NEW t \in Nat \ {0}, NEW h \in Nat \ {0}
  PROVE  bit_get(t * a, t * h) = bit_get(a, h)
<1> DEFINE q == a \div h
           r == a % h
<1>1. q \in Nat /\ r \in 0 .. h - 1 /\ a = h * q + r
  BY DivMod
<1> HIDE DEF q, r
<1>2. t * a = (t * h) * q + t * r
  BY <1>1, SMT
<1>3. t * r \in 0 .. (t * h) - 1 /\ t * h \in Nat \ {0}
  BY <1>1, SMT
<1>4. (t * a) \div (t * h) = q
  BY <1>1, <1>2, <1>3, Quotient
<1> QED BY <1>4 DEF bit_get, q

(* ... nor the wrap of the counter.                                          *)
LEMMA ScaledWrap ==
  ASSUME NEW t \in Nat \ {0}, NEW M \in Nat \ {0}, NEW a \in 0 .. M - 1
  PROVE  (t * a + t) % (t * M) = t * ((a + 1) % M)
<1>1. t * a + t = t * (a + 1) /\ t * M \in Nat \ {0}
  BY SMT
<1>2. CASE a + 1 = M
  <2>1. (a + 1) % M = 0
    BY <1>2, SMT
  <2>2. (t * M) % (t * M) = 0
    BY <1>1, SMT
  <2> QED BY <1>1, <1>2, <2>1, <2>2
<1>3. CASE a + 1 # M
  <2>1. a + 1 < M /\ (a + 1) % M = a + 1
    BY <1>3, SMT
  <2>2. t * (a + 1) < t * M
    BY <2>1, SMT
  <2>3. t * (a + 1) \in Nat
    OBVIOUS
  <2> QED BY <1>1, <2>1, <2>2, <2>3, SMT
<1> QED BY <1>2, <1>3

-----------------------------------------------------------------------------
(* The constants, counted in tics.                                           *)
Wrap == (Byte * Byte) \div Tics
Half == [s \in Selectors |-> Weight[s] \div Tics]

(* One turn of the counter is a whole number of tics and of periods.         *)
LEMMA ConstantsInTics ==
  /\ Wrap \in Nat \ {0} /\ Byte * Byte = Tics * Wrap
  /\ \A s \in Selectors : /\ Half[s] \in Nat \ {0}
                          /\ Weight[s] = Tics * Half[s]
                          /\ Wrap % (2 * Half[s]) = 0
<1>1. Byte * Byte \in Nat \ {0}
  BY ByteAssumption, SMT
<1>2. (Byte * Byte) % Tics = 0
  <2>1. Byte = Tics * (Byte \div Tics) /\ Byte \div Tics \in Nat
    BY ByteAssumption, TicsAssumption, DivMod
  <2>2. Byte * Byte = Tics * (Byte * (Byte \div Tics)) + 0
    BY <2>1, ByteAssumption, TicsAssumption, SMT
  <2>3. Byte * (Byte \div Tics) \in Nat
    BY <2>1, ByteAssumption
  <2> QED BY <2>2, <2>3, TicsAssumption, Quotient
<1>3. Wrap \in Nat /\ Byte * Byte = Tics * Wrap
  <2>1. /\ Wrap \in Nat
        /\ Byte * Byte = Tics * Wrap + ((Byte * Byte) % Tics)
    <3>1. Byte * Byte \in Nat /\ Tics \in Nat \ {0}
      BY <1>1, TicsAssumption
    <3> QED BY <3>1, DivMod, Zenon DEF Wrap
  <2>2. Tics * Wrap \in Nat
    BY <2>1, TicsAssumption
  <2> QED BY <1>2, <2>1, <2>2
<1>4. Wrap # 0
  BY <1>1, <1>3, TicsAssumption
<1>5. ASSUME NEW s \in Selectors
      PROVE  /\ Half[s] \in Nat \ {0}
             /\ Weight[s] = Tics * Half[s]
             /\ Wrap % (2 * Half[s]) = 0
  <2>1. Weight[s] \in Nat \ {0} /\ Weight[s] % Tics = 0 /\ (Byte * Byte) % (2 * Weight[s]) = 0
    BY WeightAssumption
  <2>2. Half[s] \in Nat /\ Weight[s] = Tics * Half[s]
    <3>1. Weight[s] \in Nat /\ Tics \in Nat \ {0} /\ Half[s] = Weight[s] \div Tics
      BY <2>1, TicsAssumption DEF Half
    <3>2. Half[s] \in Nat /\ Weight[s] = Tics * Half[s] + (Weight[s] % Tics)
      BY <3>1, DivMod, Zenon
    <3>3. Tics * Half[s] \in Nat
      BY <3>1, <3>2
    <3> QED BY <2>1, <3>2, <3>3
  <2>3. Half[s] # 0
    BY <2>1, <2>2, TicsAssumption
  <2> DEFINE k == (Byte * Byte) \div (2 * Weight[s])
  <2>4. k \in Nat /\ Byte * Byte = (2 * Weight[s]) * k
    <3>1. 2 * Weight[s] \in Nat \ {0} /\ Byte * Byte \in Nat
      BY <1>1, <2>1
    <3>2. k \in Nat /\ Byte * Byte = (2 * Weight[s]) * k + ((Byte * Byte) % (2 * Weight[s]))
      BY <3>1, DivMod, Zenon
    <3>3. (2 * Weight[s]) * k \in Nat
      BY <3>1, <3>2
    <3> QED BY <2>1, <3>2, <3>3
  <2> HIDE DEF k
  <2> DEFINE n == (2 * Half[s]) * k
  <2>5. n \in Nat /\ Tics * Wrap = Tics * n
    BY <1>3, <2>2, <2>4, TicsAssumption, SMT
  <2> HIDE DEF n
  <2>6. Wrap = n + 0
    BY <1>3, <2>5, TicsAssumption, Cancel
  <2>7. 2 * Half[s] \in Nat \ {0}
    BY <2>2, <2>3
  <2>8. Wrap = (2 * Half[s]) * k + 0 /\ 0 \in 0 .. (2 * Half[s]) - 1
    BY <2>6, <2>7 DEF n
  <2>9. ((2 * Half[s]) * k + 0) % (2 * Half[s]) = 0
    BY <2>4, <2>7, <2>8, Quotient
  <2> QED BY <2>2, <2>3, <2>8, <2>9
<1> QED BY <1>3, <1>4, <1>5

-----------------------------------------------------------------------------
(* Type correctness.                                                         *)

(* The high byte of a counter value fits the register it is written to.      *)
LEMMA HighByteFits ==
  ASSUME NEW c \in Counters
  PROVE  msb8(c) \in 0 .. MaxByte
<1>1. c \in Nat /\ c < Byte * Byte /\ Byte \in Nat \ {0}
  BY ByteAssumption DEF Counters
<1>2. c \div Byte \in Nat /\ c = Byte * (c \div Byte) + (c % Byte) /\ c % Byte \in 0 .. Byte - 1
  BY <1>1, DivMod, Zenon
<1>3. c \div Byte < Byte
  BY <1>1, <1>2, SMT
<1> QED BY <1>1, <1>2, <1>3 DEF msb8, MaxByte

(* timer_cycle's next counter value is a counter value.                      *)
LEMMA NextCounter ==
  ASSUME NEW c \in Counters
  PROVE  (c + Tics) % (Byte * Byte) \in Counters
BY ByteAssumption, TicsAssumption, SMT DEF Counters

(* Advancing to a counter value keeps the types, the overflow included.      *)
LEMMA AdvanceKeepsTypes ==
  ASSUME TypeOK, NEW c \in Counters, NEW div \in 0 .. MaxByte,
         Advance(c, div), UNCHANGED write_listener
  PROVE  TypeOK'
<1> DEFINE falls == Falls(c, reg["TAC"])
<1> HIDE DEF falls
<1>1. reg["TIMA"] \in 0 .. MaxByte /\ reg["TMA"] \in 0 .. MaxByte
  BY DEF TypeOK, Regs
<1>2. MaxByte \in Nat
  BY ByteAssumption DEF MaxByte
<1> DEFINE tima == IF falls /\ reg["TIMA"] = MaxByte THEN reg["TMA"]
                   ELSE IF falls THEN reg["TIMA"] + 1 ELSE reg["TIMA"]
<1>3. tima \in 0 .. MaxByte
  BY <1>1, <1>2
<1>4. reg' = [reg EXCEPT !["DIV"] = div, !["TIMA"] = tima]
  BY DEF Advance, falls
<1> HIDE DEF tima
<1>5. reg' \in [Regs -> 0 .. MaxByte]
  BY <1>3, <1>4 DEF TypeOK, Regs
<1>6. IFlags' \subseteq 0 .. 4
  BY DEF Advance, TypeOK, TIMER
<1> QED BY <1>5, <1>6 DEF Advance, TypeOK

(* A store keeps the types.                                                  *)
LEMMA StoresKeepTypes ==
  ASSUME TypeOK, CpuCycle
  PROVE  TypeOK'
<1>1. Stored \subseteq 0 .. MaxByte
  BY StoredAssumption DEF MaxByte
<1>2. CASE CpuNoStore
  BY <1>2 DEF CpuNoStore, Stores, TypeOK
<1>3. ASSUME NEW r \in Regs, NEW v \in Stored, CpuStore(r, v)
      PROVE  TypeOK'
  BY <1>1, <1>3 DEF CpuStore, Stores, TypeOK
<1>4. ASSUME NEW r \in Regs \ { "TAC" }, NEW v \in Stored, NEW w \in Stored,
             CpuStore16(r, v, w)
      PROVE  TypeOK'
  BY <1>1, <1>4 DEF CpuStore16, Stores, TypeOK, NextReg
<1>5. ASSUME NEW w \in Stored, CpuStore16Below(w)
      PROVE  TypeOK'
  BY <1>1, <1>5 DEF CpuStore16Below, Stores, TypeOK
<1>6. CASE CpuAcknowledge
  BY <1>6 DEF CpuAcknowledge, TypeOK
<1> QED BY <1>2, <1>3, <1>4, <1>5, <1>6 DEF CpuCycle

(* No step leaves the types.                                                 *)
LEMMA NextKeepsTypes == TypeOK /\ [Next]_vars => TypeOK'
<1> SUFFICES ASSUME TypeOK, [Next]_vars
             PROVE  TypeOK'
  OBVIOUS
<1>0. counter \in Counters /\ 0 \in Counters /\ 0 \in 0 .. MaxByte /\ reg["DIV"] \in 0 .. MaxByte
  BY ByteAssumption, SMT DEF TypeOK, Counters, MaxByte, Regs
<1>1. CASE timer_cycle
  BY <1>0, <1>1, NextCounter, HighByteFits, AdvanceKeepsTypes DEF timer_cycle
<1>2. CASE timer_bus_listener
  <2>1. CASE write_listener = "DIV"
    BY <1>0, <1>2, <2>1, AdvanceKeepsTypes DEF timer_bus_listener
  <2>2. CASE write_listener = "TAC"
    BY <1>0, <1>2, <2>2, AdvanceKeepsTypes DEF timer_bus_listener
  <2>3. CASE write_listener \notin { "DIV", "TAC" }
    BY <1>2, <2>3 DEF timer_bus_listener, TypeOK
  <2> QED BY <2>1, <2>2, <2>3
<1>3. CASE CpuCycle
  BY <1>3, StoresKeepTypes
<1>4. CASE UNCHANGED vars
  BY <1>4 DEF vars, TypeOK
<1> QED BY <1>1, <1>2, <1>3, <1>4 DEF Next

(* The state of the timer always has its types: the 16-bit counter wraps and *)
(* TIMA is reloaded before it would pass 0xFF (timer.c).                     *)
THEOREM TypeCorrect == Spec => []TypeOK
<1>1. Init => TypeOK
  BY ByteAssumption, SMT DEF Init, TypeOK, Counters, MaxByte
<1> QED BY <1>1, NextKeepsTypes, PTL DEF Spec

-----------------------------------------------------------------------------
(* The inductive invariant of the refinement: the types and the alignment of *)
(* the counter, without which a selected bit could be stepped over.          *)
IInv == TypeOK /\ CounterAligned

(* An aligned counter is a number of tics between 0 and Wrap.                *)
LEMMA CounterInTics ==
  ASSUME IInv
  PROVE  /\ counter \div Tics \in 0 .. Wrap - 1
         /\ counter = Tics * (counter \div Tics)
<1> DEFINE a == counter \div Tics
<1>1. counter \in Nat /\ counter < Tics * Wrap /\ counter % Tics = 0 /\ Tics \in Nat \ {0}
  BY ConstantsInTics, ByteAssumption, TicsAssumption, SMT DEF IInv, TypeOK, Counters, CounterAligned
<1>2. a \in Nat /\ counter = Tics * a + (counter % Tics)
  BY <1>1, DivMod, Zenon
<1> HIDE DEF a
<1>3. Tics * a \in Nat
  BY <1>1, <1>2
<1>4. counter = Tics * a
  BY <1>1, <1>2, <1>3
<1>5. a < Wrap
  BY <1>1, <1>2, <1>4, ConstantsInTics, SMT
<1> QED BY <1>2, <1>4, <1>5, ConstantsInTics DEF a

(* The counter value timer_cycle writes, in tics.                            *)
LEMMA NextCounterInTics ==
  ASSUME IInv
  PROVE  LET a == counter \div Tics
             c == (counter + Tics) % (Byte * Byte)
         IN  /\ c = Tics * ((a + 1) % Wrap)
             /\ c \div Tics = (a + 1) % Wrap
             /\ c % Tics = 0
<1> DEFINE a == counter \div Tics
           b == (a + 1) % Wrap
           c == (counter + Tics) % (Byte * Byte)
<1>1. a \in 0 .. Wrap - 1 /\ counter = Tics * a
  BY CounterInTics
<1>2. Wrap \in Nat \ {0} /\ Byte * Byte = Tics * Wrap /\ Tics \in Nat \ {0}
  BY ConstantsInTics, TicsAssumption
<1> HIDE DEF a
<1>3. c = Tics * b
  BY <1>1, <1>2, ScaledWrap
<1>4. b \in Nat
  BY <1>1, <1>2, SMT
<1> HIDE DEF b, c
<1>5. c = Tics * b + 0 /\ 0 \in 0 .. Tics - 1
  BY <1>2, <1>3, <1>4
<1>6. c \div Tics = b /\ c % Tics = 0
  BY <1>2, <1>4, <1>5, Quotient
<1> QED BY <1>3, <1>6 DEF a, b, c

(* Nor the alignment.                                                        *)
LEMMA NextKeepsAlignment == IInv /\ [Next]_vars => CounterAligned'
<1> SUFFICES ASSUME IInv, [Next]_vars
             PROVE  CounterAligned'
  OBVIOUS
<1>1. CASE timer_cycle
  BY <1>1, NextCounterInTics DEF timer_cycle, Advance, CounterAligned
<1>2. CASE timer_bus_listener
  <2>1. 0 % Tics = 0
    BY TicsAssumption, SMT
  <2> QED BY <1>2, <2>1 DEF timer_bus_listener, Advance, IInv, CounterAligned
<1>3. CASE CpuCycle
  BY <1>3 DEF CpuCycle, CpuNoStore, CpuStore, CpuStore16, CpuStore16Below, Stores,
              CpuAcknowledge, IInv, CounterAligned
<1>4. CASE UNCHANGED vars
  BY <1>4 DEF vars, IInv, CounterAligned
<1> QED BY <1>1, <1>2, <1>3, <1>4 DEF Next

(* No step of the timer leaves the counter between two tics, so every bit a  *)
(* program can select is seen on both of its edges (timer_cycle).            *)
THEOREM CounterStaysAligned == Spec => []CounterAligned
<1>1. Init => CounterAligned
  BY TicsAssumption, SMT DEF Init, CounterAligned
<1> QED BY <1>1, NextKeepsAlignment, TypeCorrect, PTL DEF Spec, IInv

(* Only the program can make DIV differ from the counter's high byte: each   *)
(* step of timer.c that moves the counter writes DIV as well.                *)
THEOREM DivIsKept == Spec => DivFollowsCounter
<1>1. IInv /\ [Next]_vars => [counter' # counter => reg'["DIV"] = counter' \div Byte]_vars
  <2> SUFFICES ASSUME IInv, [Next]_vars, counter' # counter
               PROVE  reg'["DIV"] = counter' \div Byte
    OBVIOUS
  <2>0. "DIV" \in DOMAIN reg /\ "TIMA" \in DOMAIN reg /\ 0 \div Byte = 0
    BY ByteAssumption, SMT DEF IInv, TypeOK, Regs
  <2>1. CASE timer_cycle
    BY <2>0, <2>1 DEF timer_cycle, Advance, msb8
  <2>2. CASE timer_bus_listener
    BY <2>0, <2>2 DEF timer_bus_listener, Advance
  <2>3. CASE CpuCycle
    BY <2>3 DEF CpuCycle, CpuNoStore, CpuStore, CpuStore16, CpuStore16Below, Stores,
                CpuAcknowledge
  <2>4. CASE UNCHANGED vars
    BY <2>4 DEF vars
  <2> QED BY <2>1, <2>2, <2>3, <2>4 DEF Next
<1> QED BY <1>1, TypeCorrect, CounterStaysAligned, PTL DEF Spec, IInv, DivFollowsCounter

-----------------------------------------------------------------------------
(* The implementation of TimerRate.                                          *)

(* The selector TAC's low bits hold is one of the four.                      *)
LEMMA SelectorOfTac ==
  ASSUME TypeOK
  PROVE  reg["TAC"] \in Nat /\ reg["TAC"] % 4 \in Selectors
<1>1. reg["TAC"] \in 0 .. MaxByte /\ MaxByte \in Nat
  BY ByteAssumption DEF TypeOK, Regs, MaxByte
<1> QED BY <1>1, SMT DEF Selectors

(* Running, of TimerRate, is bit 2 of TAC, and its half period the selected  *)
(* bit's weight in tics.                                                     *)
LEMMA Selection ==
  ASSUME TypeOK, NEW a \in Nat
  PROVE  LET h == Half[reg["TAC"] % 4]
         IN  timer_state(Tics * a, reg["TAC"]) =
               IF Enabled(reg["TAC"]) THEN bit_get(a, h) ELSE 0
<1> DEFINE s == reg["TAC"] % 4
<1>1. s \in Selectors
  BY SelectorOfTac
<1> HIDE DEF s
<1>2. Half[s] \in Nat \ {0} /\ Weight[s] = Tics * Half[s]
  BY <1>1, ConstantsInTics
<1>3. bit_get(Tics * a, Weight[s]) = bit_get(a, Half[s])
  BY <1>2, ScaledBit, TicsAssumption
<1> QED BY <1>3 DEF timer_state, s

(* A falling edge of the selected bit in a timer cycle is an age that        *)
(* reaches a multiple of the period.                                         *)
LEMMA CycleFalls ==
  ASSUME IInv
  PROVE  LET b == (counter \div Tics + 1) % Wrap
         IN  Falls((counter + Tics) % (Byte * Byte), reg["TAC"])
               <=> Enabled(reg["TAC"]) /\ b % (2 * Half[reg["TAC"] % 4]) = 0
<1> DEFINE a == counter \div Tics
           b == (a + 1) % Wrap
           c == (counter + Tics) % (Byte * Byte)
           h == Half[reg["TAC"] % 4]
<1>1. a \in 0 .. Wrap - 1 /\ counter = Tics * a
  BY CounterInTics
<1>2. c = Tics * b
  BY NextCounterInTics
<1>3. h \in Nat \ {0} /\ Wrap % (2 * h) = 0 /\ Wrap \in Nat \ {0} /\ 2 * h \in Nat \ {0}
  BY ConstantsInTics, SelectorOfTac DEF IInv
<1> HIDE DEF a, c, h
<1>4. a \in Nat /\ b \in Nat
  BY <1>1, <1>3, SMT
<1>5. bit_get(a, h) = 1 /\ bit_get(b, h) = 0 <=> b % (2 * h) = 0
  BY <1>1, <1>3, FallsAtPeriod
<1> HIDE DEF b
<1>6. timer_state(counter, reg["TAC"]) = IF Enabled(reg["TAC"]) THEN bit_get(a, h) ELSE 0
  BY <1>1, <1>4, Selection DEF h, IInv
<1>7. timer_state(c, reg["TAC"]) = IF Enabled(reg["TAC"]) THEN bit_get(b, h) ELSE 0
  BY <1>2, <1>4, Selection DEF h, IInv
<1>8. Falls(c, reg["TAC"]) <=> Enabled(reg["TAC"]) /\ b % (2 * h) = 0
  BY <1>5, <1>6, <1>7 DEF Falls
<1> QED BY <1>8 DEF a, b, c, h

(* A falling edge when the counter is cleared is an age past half a period.  *)
LEMMA ClearFalls ==
  ASSUME IInv
  PROVE  LET h == Half[reg["TAC"] % 4]
         IN  Falls(0, reg["TAC"])
               <=> Enabled(reg["TAC"]) /\ (counter \div Tics) % (2 * h) >= h
<1> DEFINE a == counter \div Tics
           h == Half[reg["TAC"] % 4]
<1>1. a \in 0 .. Wrap - 1 /\ counter = Tics * a
  BY CounterInTics
<1>2. h \in Nat \ {0} /\ Wrap \in Nat /\ 2 * h \in Nat \ {0}
  BY ConstantsInTics, SelectorOfTac DEF IInv
<1> HIDE DEF a, h
<1>3. a \in Nat /\ 0 = Tics * 0
  BY <1>1, <1>2, TicsAssumption
<1>4. timer_state(counter, reg["TAC"]) = IF Enabled(reg["TAC"]) THEN bit_get(a, h) ELSE 0
  BY <1>1, <1>3, Selection DEF h, IInv
<1>5. timer_state(0, reg["TAC"]) = 0
  <2>1. bit_get(0, h) = 0
    BY <1>2, SMT DEF bit_get
  <2> QED BY <1>3, <2>1, Selection DEF h, IInv
<1>6. bit_get(a, h) = IF a % (2 * h) >= h THEN 1 ELSE 0
  BY <1>2, <1>3, BitIsUpperHalf
<1>7. Falls(0, reg["TAC"]) <=> Enabled(reg["TAC"]) /\ a % (2 * h) >= h
  BY <1>4, <1>5, <1>6 DEF Falls
<1> QED BY <1>7 DEF a, h

(* Advance is TimerRate's conditional tick.                                  *)
LEMMA AdvanceTicks ==
  ASSUME TypeOK, NEW c, NEW div, Advance(c, div)
  PROVE  /\ Rate!TickIf(Falls(c, reg["TAC"]))
         /\ reg'["TMA"] = reg["TMA"] /\ reg'["TAC"] = reg["TAC"]
<1> DEFINE falls == Falls(c, reg["TAC"])
<1>1. falls \in BOOLEAN
  BY DEF Falls
<1> HIDE DEF falls
<1>2. /\ reg' = [reg EXCEPT !["DIV"] = div,
                            !["TIMA"] = IF falls /\ reg["TIMA"] = MaxByte THEN reg["TMA"]
                                        ELSE IF falls THEN reg["TIMA"] + 1 ELSE reg["TIMA"]]
      /\ IFlags' = IFlags \cup (IF falls /\ reg["TIMA"] = MaxByte THEN { TIMER } ELSE {})
  BY DEF Advance, falls
<1>3. DOMAIN reg = Regs
  BY DEF TypeOK
<1>4. reg'["TMA"] = reg["TMA"] /\ reg'["TAC"] = reg["TAC"]
  BY <1>2, <1>3 DEF Regs
<1>5. reg'["TIMA"] = IF falls /\ reg["TIMA"] = MaxByte THEN reg["TMA"]
                     ELSE IF falls THEN reg["TIMA"] + 1 ELSE reg["TIMA"]
  BY <1>2, <1>3 DEF Regs
<1>6. (TIMER \in IFlags') = IF falls /\ reg["TIMA"] = MaxByte THEN TRUE ELSE TIMER \in IFlags
  BY <1>2
<1>7. Rate!TickIf(falls)
  BY <1>1, <1>5, <1>6 DEF Rate!TickIf, Rate!Tick, MaxByte
<1> QED BY <1>4, <1>7 DEF falls

(* For every register width, tic count and choice of bits, the bit-level     *)
(* timer of timer.c is the timer of TimerRate: no tick is lost and none is   *)
(* made twice, across wraps, changes of TAC and stores to DIV.               *)
THEOREM ImplementsTimerRate == Spec => TicksAtTheSelectedRate
<1>1. Init => Rate!Init
  <2>1. 0 \div Tics = 0
    BY TicsAssumption, SMT
  <2> QED BY <2>1 DEF Init, Rate!Init, Regs
<1>2. IInv /\ [Next]_vars => [Rate!Next]_(Rate!vars)
  <2> SUFFICES ASSUME IInv, [Next]_vars
               PROVE  Rate!Next \/ UNCHANGED Rate!vars
    OBVIOUS
  <2>0. /\ TypeOK
        /\ [t \in Selectors |-> Weight[t] \div Tics] = Half
        /\ (Byte * Byte) \div Tics = Wrap
    BY DEF IInv, Half, Wrap
  <2>1. CASE timer_cycle
    <3> DEFINE c == (counter + Tics) % (Byte * Byte)
    <3>1. Advance(c, msb8(c)) /\ counter' = c
      BY <2>1 DEF timer_cycle, Advance
    <3>2. counter' \div Tics = (counter \div Tics + 1) % Wrap
      BY <3>1, NextCounterInTics
    <3>3. Falls(c, reg["TAC"])
            <=> Rate!Running /\ (counter' \div Tics) % Rate!Period = 0
      BY <3>2, <2>0, CycleFalls DEF Rate!Running, Rate!Period, Enabled, bit_get
    <3> HIDE DEF c
    <3>4. Rate!TickIf(Falls(c, reg["TAC"])) /\ reg'["TMA"] = reg["TMA"] /\ reg'["TAC"] = reg["TAC"]
      BY <2>0, <3>1, AdvanceTicks
    <3>5. Rate!TickIf(Rate!Running /\ (counter' \div Tics) % Rate!Period = 0)
      BY <3>3, <3>4 DEF Rate!TickIf
    <3> QED BY <2>0, <3>2, <3>4, <3>5 DEF Rate!Next, Rate!Cycle
  <2>2. CASE timer_bus_listener
    <3>1. CASE write_listener = "DIV"
      <4>1. Advance(0, 0) /\ counter' = 0
        BY <2>2, <3>1 DEF timer_bus_listener, Advance
      <4>2. counter' \div Tics = 0
        BY <4>1, TicsAssumption, SMT
      <4>3. Falls(0, reg["TAC"])
              <=> Rate!Running /\ (counter \div Tics) % Rate!Period >= Half[reg["TAC"] % 4]
        BY <2>0, ClearFalls DEF Rate!Running, Rate!Period, Enabled, bit_get
      <4>4. Rate!TickIf(Falls(0, reg["TAC"])) /\ reg'["TMA"] = reg["TMA"] /\ reg'["TAC"] = reg["TAC"]
        BY <2>0, <4>1, AdvanceTicks
      <4>5. Rate!TickIf(Rate!Running /\ (counter \div Tics) % Rate!Period >= Half[reg["TAC"] % 4])
        BY <4>3, <4>4 DEF Rate!TickIf
      <4> QED BY <2>0, <4>2, <4>4, <4>5 DEF Rate!Next, Rate!Reset
    <3>2. CASE write_listener = "TAC"
      <4>1. Advance(counter, reg["DIV"]) /\ counter' = counter
        BY <2>2, <3>2 DEF timer_bus_listener, Advance
      <4>2. ~Falls(counter, reg["TAC"])
        BY DEF Falls
      <4>3. Rate!TickIf(Falls(counter, reg["TAC"])) /\ reg'["TMA"] = reg["TMA"] /\ reg'["TAC"] = reg["TAC"]
        BY <2>0, <4>1, AdvanceTicks
      <4> QED BY <4>1, <4>2, <4>3 DEF Rate!TickIf, Rate!vars
    <3>3. CASE write_listener \notin { "DIV", "TAC" }
      BY <2>2, <3>3 DEF timer_bus_listener, Rate!vars
    <3> QED BY <3>1, <3>2, <3>3
  <2>3. CASE CpuCycle
    <3>1. CASE CpuAcknowledge
      BY <3>1 DEF CpuAcknowledge, Rate!Next, Rate!Acknowledge
    <3>2. CASE ~CpuAcknowledge
      <4>1. UNCHANGED << counter, IFlags >>
        BY <2>3, <3>2 DEF CpuCycle, CpuNoStore, CpuStore, CpuStore16, CpuStore16Below, Stores
      <4>2. reg' \in [Regs -> 0 .. MaxByte]
        BY <2>0, <2>3, StoresKeepTypes DEF TypeOK
      <4>3. Rate!Store
        BY <4>1, <4>2 DEF Rate!Store, Regs, MaxByte
      <4> QED BY <4>3 DEF Rate!Next
    <3> QED BY <3>1, <3>2
  <2>4. CASE UNCHANGED vars
    BY <2>4 DEF vars, Rate!vars
  <2> QED BY <2>1, <2>2, <2>3, <2>4 DEF Next
<1> QED BY <1>1, <1>2, TypeCorrect, CounterStaysAligned, PTL DEF Spec, IInv, TicksAtTheSelectedRate, Rate!Spec

-----------------------------------------------------------------------------
(* The closed form of TIMA.                                                  *)

(* A number has remainder 0 exactly when it is a multiple.                   *)
LEMMA Multiple ==
  ASSUME NEW x \in Int, NEW m \in Nat \ {0}
  PROVE  x % m = 0 <=> \E k \in Int : x = m * k
<1>1. x = m * (x \div m) + (x % m) /\ x \div m \in Int /\ x % m \in 0 .. m - 1
  BY SMT
<1>2. ASSUME NEW k \in Int, x = m * k
      PROVE  x % m = 0
  BY <1>2, SMT
<1>3. ASSUME x % m = 0
      PROVE  \E k \in Int : x = m * k
  <2> DEFINE k == x \div m
  <2>1. k \in Int /\ m * k \in Int /\ x = m * k + 0
    BY <1>1, <1>3
  <2> HIDE DEF k
  <2>2. x = m * k
    BY <2>1
  <2> QED BY <2>1, <2>2
<1> QED BY <1>2, <1>3

(* TIMA and the number of periods that have gone by, both counted with a     *)
(* wrap, stay congruent modulo what divides both wraps.                      *)
InStep(m, byte, turn, t, q, u, v) ==
  /\ m \in Nat \ {0} /\ byte \in Nat \ {0} /\ turn \in Nat \ {0}
  /\ byte % m = 0 /\ turn % m = 0
  /\ t \in 0 .. byte - 1 /\ q \in Nat /\ (t - q) % m = 0
  /\ u = IF t = byte - 1 THEN 0 ELSE t + 1
  /\ v = IF q + 1 = turn THEN 0 ELSE q + 1

LEMMA StaysCongruent ==
  ASSUME NEW m, NEW byte, NEW turn, NEW t, NEW q, NEW u, NEW v,
         InStep(m, byte, turn, t, q, u, v)
  PROVE  (u - v) % m = 0
<1> DEFINE d == u - v
<1>i. /\ m \in Nat \ {0} /\ byte \in Nat \ {0} /\ turn \in Nat \ {0}
      /\ byte % m = 0 /\ turn % m = 0
      /\ t \in 0 .. byte - 1 /\ q \in Nat /\ (t - q) % m = 0
      /\ u = IF t = byte - 1 THEN 0 ELSE t + 1
      /\ v = IF q + 1 = turn THEN 0 ELSE q + 1
  BY DEF InStep
<1> USE <1>i
<1>0. byte \in Int /\ turn \in Int
  OBVIOUS
<1>1. PICK i \in Int : byte = m * i
  BY <1>0, Multiple
<1>2. PICK j \in Int : turn = m * j
  BY <1>0, Multiple
<1>3. PICK k \in Int : t - q = m * k
  <2>1. t - q \in Int
    OBVIOUS
  <2> QED BY <2>1, Multiple
<1>4. \/ d = t - q \/ d = (t - q) - byte
      \/ d = (t - q) + turn \/ d = ((t - q) - byte) + turn
  OBVIOUS
<1>5. d \in Int
  OBVIOUS
<1> HIDE DEF d
<1>6. d = m * k \/ d = m * (k - i) \/ d = m * (k + j) \/ d = m * ((k - i) + j)
  <2>1. /\ m * (k - i) = (m * k) - (m * i) /\ m * (k + j) = (m * k) + (m * j)
        /\ m * ((k - i) + j) = ((m * k) - (m * i)) + (m * j)
    BY SMT
  <2> QED BY <1>1, <1>2, <1>3, <1>4, <2>1
<1>7. \E n \in Int : d = m * n
  <2>1. k - i \in Int /\ k + j \in Int /\ (k - i) + j \in Int
    OBVIOUS
  <2> QED BY <1>6, <2>1
<1>8. d % m = 0
  BY <1>5, <1>7, Multiple
<1> QED BY <1>8 DEF d

(* Periods gone by, as the age of the timer wraps.                           *)
Ages(p, turn, a, b) ==
  /\ p \in Nat \ {0} /\ turn \in Nat \ {0}
  /\ a \in 0 .. p * turn - 1
  /\ b = (a + 1) % (p * turn)

LEMMA PeriodsGoneBy ==
  ASSUME NEW p, NEW turn, NEW a, NEW b, Ages(p, turn, a, b)
  PROVE  /\ a \div p \in Nat
         /\ b % p = 0 => b \div p = IF a \div p + 1 = turn THEN 0 ELSE a \div p + 1
         /\ b % p # 0 => b \div p = a \div p
<1> DEFINE q == a \div p
           r == a % p
<1>w. PICK w : w = p * turn
  OBVIOUS
<1>0. /\ a \in Nat /\ w \in Nat \ {0} /\ p \in Nat \ {0} /\ turn \in Nat \ {0}
      /\ a \in 0 .. w - 1 /\ b = (a + 1) % w /\ w = p * turn
  BY <1>w, SMT DEF Ages
<1> USE <1>0
<1>1. q \in Nat /\ r \in 0 .. p - 1 /\ a = p * q + r
  BY <1>0, DivMod
<1>2. b = IF a + 1 = w THEN 0 ELSE a + 1
  BY <1>0, SMT
<1> HIDE DEF q, r
<1>3. CASE r # p - 1
  <2>1. a + 1 = p * q + (r + 1) /\ r + 1 \in 0 .. p - 1 /\ r + 1 # 0
    BY <1>1, <1>3
  <2>2. (a + 1) % p = r + 1 /\ (a + 1) \div p = q
    <3>1. (p * q + (r + 1)) \div p = q /\ (p * q + (r + 1)) % p = r + 1
      BY <1>1, <2>1, Quotient
    <3> QED BY <2>1, <3>1
  <2>3. w = p * turn + 0 /\ 0 \in 0 .. p - 1
    BY SMT
  <2>4. w % p = 0
    BY <2>3, Quotient
  <2>5. b = a + 1
    BY <1>2, <2>1, <2>2, <2>4
  <2> QED BY <1>1, <2>1, <2>2, <2>5 DEF q
<1>4. CASE r = p - 1
  <2>1. a + 1 = p * (q + 1) + 0 /\ q + 1 \in Nat /\ 0 \in 0 .. p - 1
    BY <1>1, <1>4
  <2>2. (a + 1) % p = 0 /\ (a + 1) \div p = q + 1
    <3>1. (p * (q + 1) + 0) \div p = q + 1 /\ (p * (q + 1) + 0) % p = 0
      BY <2>1, Quotient
    <3> QED BY <2>1, <3>1
  <2>3. 0 % p = 0 /\ 0 \div p = 0
    BY SMT
  <2>4. b % p = 0
    BY <1>2, <2>2, <2>3
  <2>5. a + 1 = w <=> q + 1 = turn
    <3>1. a + 1 = p * (q + 1)
      BY <2>1
    <3> QED BY <3>1, <2>1, Cancel
  <2>6. b \div p = IF q + 1 = turn THEN 0 ELSE q + 1
    BY <1>2, <2>2, <2>3, <2>5
  <2> QED BY <1>1, <2>4, <2>6 DEF q
<1> QED BY <1>3, <1>4

(* None have when the counter starts.                                        *)
LEMMA NoneAtZero ==
  ASSUME NEW p \in Nat \ {0}, NEW m \in Nat \ {0}
  PROVE  (0 - (0 \div p)) % m = 0
<1>1. 0 \div p = 0
  BY SMT
<1>2. 0 % m = 0
  BY SMT
<1> QED BY <1>1, <1>2

Turn(s) == (Byte * Byte) \div (2 * Weight[s])

(* One turn of the counter is a whole number of turns of TIMA or a whole     *)
(* part of one, as for powers of two.                                        *)
Commensurable == \A s \in Selectors : Turn(s) % Byte = 0 \/ Byte % Turn(s) = 0

(* The periods counted in the counter's own units                            *)
LEMMA PeriodsInTics ==
  ASSUME NEW s \in Selectors, NEW a \in Nat
  PROVE  /\ (Tics * a) \div (2 * Weight[s]) = a \div (2 * Half[s])
         /\ Turn(s) \in Nat \ {0} /\ Wrap = (2 * Half[s]) * Turn(s)
<1> DEFINE p == 2 * Half[s]
           q == a \div p
           r == a % p
           k == Wrap \div p
<1>1. /\ Wrap \in Nat \ {0} /\ Byte * Byte = Tics * Wrap /\ Tics \in Nat \ {0}
      /\ Half[s] \in Nat \ {0} /\ Weight[s] = Tics * Half[s] /\ Wrap % p = 0
      /\ p \in Nat \ {0}
  BY ConstantsInTics, TicsAssumption
<1>2. 2 * Weight[s] = Tics * p
  BY <1>1, SMT
<1>3. q \in Nat /\ r \in 0 .. p - 1 /\ a = p * q + r
  BY <1>1, DivMod, Zenon
<1>4. k \in Nat /\ Wrap = p * k + (Wrap % p)
  BY <1>1, DivMod, Zenon
<1> HIDE DEF p, q, r, k
<1>5. Wrap = p * k /\ k # 0
  <2>1. p * k \in Nat
    BY <1>1, <1>4
  <2>2. Wrap = p * k
    BY <1>1, <1>4, <2>1
  <2>3. k # 0
    BY <1>1, <2>2, SMT
  <2> QED BY <2>2, <2>3
<1>6. Tics * p \in Nat \ {0} /\ Tics * r \in 0 .. (Tics * p) - 1
  BY <1>1, <1>3, SMT
<1>7. Tics * a = (Tics * p) * q + (Tics * r)
  BY <1>1, <1>3, SMT
<1>8. (Tics * a) \div (2 * Weight[s]) = q
  BY <1>2, <1>3, <1>6, <1>7, Quotient
<1>9. Byte * Byte = (Tics * p) * k + 0 /\ 0 \in 0 .. (Tics * p) - 1
  BY <1>1, <1>4, <1>5, <1>6, SMT
<1>10. Turn(s) = k
  BY <1>2, <1>4, <1>6, <1>9, Quotient DEF Turn
<1> QED BY <1>4, <1>5, <1>8, <1>10 DEF p, q

(* What both wraps are multiples of                                          *)
Modulus(s) == IF Turn(s) < Byte THEN Turn(s) ELSE Byte

LEMMA ModulusDivides ==
  ASSUME Commensurable, NEW s \in Selectors, Turn(s) \in Nat \ {0}
  PROVE  Modulus(s) \in Nat \ {0} /\ Byte % Modulus(s) = 0 /\ Turn(s) % Modulus(s) = 0
<1> DEFINE turn == Turn(s)
<1>1. turn \in Nat \ {0} /\ Byte \in Nat \ {0} /\ (turn % Byte = 0 \/ Byte % turn = 0)
  BY ByteAssumption DEF Commensurable
<1> HIDE DEF turn
<1>2. turn % turn = 0 /\ Byte % Byte = 0
  BY <1>1, SMT
<1>3. CASE turn < Byte
  <2>1. turn % Byte = turn
    BY <1>1, <1>3, SMT
  <2> QED BY <1>1, <1>2, <1>3, <2>1 DEF Modulus, turn
<1>4. CASE ~(turn < Byte)
  <2>1. turn = Byte \/ Byte % turn = Byte
    BY <1>1, <1>4, SMT
  <2> QED BY <1>1, <1>2, <1>4, <2>1 DEF Modulus, turn
<1> QED BY <1>3, <1>4

Counting ==
  /\ IInv /\ TimaCountsPeriods
  /\ reg["TMA"] = 0 /\ reg["TAC"] \in { 0 } \cup Stored
  /\ reg["TAC"] = 0 => counter = 0 /\ reg["TIMA"] = 0

(* The steps of the run keep the form.                                       *)
LEMMA CycleKeepsCounting ==
  ASSUME Commensurable, Counting, \A v \in Stored : Enabled(v), timer_cycle, reg["TAC"] # 0
  PROVE  TimaCountsPeriods' /\ reg'["TMA"] = 0 /\ reg'["TAC"] = reg["TAC"]
<1>1. PICK tac, s, c, p, a, b, m, t, q, turn :
        /\ tac = reg["TAC"] /\ s = tac % 4 /\ c = (counter + Tics) % (Byte * Byte)
        /\ p = 2 * Half[s] /\ a = counter \div Tics /\ b = (a + 1) % Wrap
        /\ m = Modulus(s) /\ t = reg["TIMA"] /\ q = a \div p /\ turn = Turn(s)
  OBVIOUS
<1>2. IInv /\ TypeOK /\ TimaCountsPeriods /\ reg["TMA"] = 0 /\ Enabled(tac)
  BY <1>1 DEF Counting, IInv
<1>3. /\ s \in Selectors /\ Byte \in Nat \ {0} /\ MaxByte = Byte - 1 /\ t \in 0 .. Byte - 1
      /\ DOMAIN reg = Regs
  BY <1>1, <1>2, SelectorOfTac, ByteAssumption DEF MaxByte, TypeOK, Regs
<1>4. /\ a \in 0 .. Wrap - 1 /\ counter = Tics * a /\ c = Tics * b
      /\ Falls(c, tac) <=> b % p = 0
      /\ Wrap \in Nat \ {0} /\ p \in Nat \ {0}
  BY <1>1, <1>2, <1>3, CounterInTics, NextCounterInTics, CycleFalls, ConstantsInTics
<1>5. a \in Nat /\ b \in Nat /\ b = (a + 1) % Wrap
  BY <1>1, <1>4, SMT
<1>6. /\ turn \in Nat \ {0} /\ Wrap = p * turn
      /\ counter \div (2 * Weight[s]) = q /\ c \div (2 * Weight[s]) = b \div p
  BY <1>1, <1>3, <1>4, <1>5, PeriodsInTics
<1>7. m \in Nat \ {0} /\ Byte % m = 0 /\ turn % m = 0
  BY <1>1, <1>3, <1>6, ModulusDivides
<1>8. q \in Nat /\ b \div p = IF b % p # 0 THEN q ELSE IF q + 1 = turn THEN 0 ELSE q + 1
  <2>1. Ages(p, turn, a, b)
    BY <1>4, <1>5, <1>6 DEF Ages
  <2>2. /\ a \div p \in Nat
        /\ b % p = 0 => b \div p = IF a \div p + 1 = turn THEN 0 ELSE a \div p + 1
        /\ b % p # 0 => b \div p = a \div p
    BY <2>1, PeriodsGoneBy
  <2> QED BY <1>1, <2>2
<1>9. (t - q) % m = 0
  BY <1>1, <1>2, <1>6 DEF TimaCountsPeriods, Modulus, Turn
<1>10. Advance(c, msb8(c)) /\ counter' = c
  BY <1>1 DEF timer_cycle, Advance
<1>11. PICK u : u = IF t = Byte - 1 THEN 0 ELSE t + 1
  OBVIOUS
<1>12. /\ reg'["TIMA"] = IF b % p = 0 THEN u ELSE t
       /\ reg'["TMA"] = 0 /\ reg'["TAC"] = tac /\ reg'["DIV"] = c \div Byte
  BY <1>1, <1>2, <1>3, <1>4, <1>10, <1>11 DEF Advance, Regs, msb8
<1>13. (reg'["TIMA"] - (b \div p)) % m = 0
  <2>1. CASE b % p = 0
    <3>1. PICK v : v = IF q + 1 = turn THEN 0 ELSE q + 1
      OBVIOUS
    <3>2. InStep(m, Byte, turn, t, q, u, v)
      BY <1>3, <1>6, <1>7, <1>8, <1>9, <1>11, <3>1 DEF InStep
    <3>3. (u - v) % m = 0
      BY <3>2, StaysCongruent
    <3> QED BY <2>1, <3>1, <3>3, <1>8, <1>12
  <2>2. CASE b % p # 0
    BY <2>2, <1>8, <1>9, <1>12
  <2> QED BY <2>1, <2>2
<1> QED BY <1>1, <1>6, <1>10, <1>12, <1>13 DEF TimaCountsPeriods, Modulus, Turn

LEMMA WidthNextKeepsCounting ==
  ASSUME Commensurable, \A v \in Stored : Enabled(v), Counting, [WidthNext]_vars
  PROVE  Counting'
<1>0. IInv /\ TypeOK /\ "TAC" \in DOMAIN reg /\ DOMAIN reg = Regs
  BY DEF Counting, IInv, TypeOK, Regs
<1>1. IInv'
  <2>1. [Next]_vars
    BY DEF WidthNext, Next, CpuCycle, Regs
  <2> QED BY <1>0, <2>1, NextKeepsTypes, NextKeepsAlignment DEF IInv
<1>2. ASSUME reg["TAC"] = 0, NEW tac \in Stored, CpuStore("TAC", tac)
      PROVE  Counting'
  <2>1. /\ counter' = 0 /\ reg'["TIMA"] = 0 /\ reg'["TMA"] = 0 /\ reg'["TAC"] = tac
        /\ reg'["DIV"] = 0 \div Byte
    BY <1>0, <1>2 DEF CpuStore, Stores, Regs, Counting, TimaCountsPeriods
  <2>2. tac \in 0 .. MaxByte /\ MaxByte \in Nat
    BY StoredAssumption, ByteAssumption DEF MaxByte
  <2>3. tac % 4 \in Selectors /\ tac # 0
    BY <1>2, <2>2 DEF Selectors, Enabled, bit_get
  <2>4. Modulus(tac % 4) \in Nat \ {0} /\ 2 * Weight[tac % 4] \in Nat \ {0}
    BY <2>3, ModulusDivides, PeriodsInTics, WeightAssumption
  <2>5. (0 - (0 \div (2 * Weight[tac % 4]))) % Modulus(tac % 4) = 0
    BY <2>4, NoneAtZero
  <2>6. TimaCountsPeriods'
    BY <2>1, <2>5 DEF TimaCountsPeriods, Modulus, Turn
  <2> QED BY <1>1, <2>1, <2>3, <2>6 DEF Counting
<1>3. ASSUME reg["TAC"] # 0, timer_cycle
      PROVE  Counting'
  BY <1>1, <1>3, CycleKeepsCounting DEF Counting
<1>4. ASSUME CpuAcknowledge \/ UNCHANGED vars
      PROVE  Counting'
  BY <1>1, <1>4 DEF CpuAcknowledge, vars, Counting, TimaCountsPeriods
<1> QED BY <1>2, <1>3, <1>4 DEF WidthNext

(* Once TAC has enabled it, and with TMA at zero, TIMA holds the whole       *)
(* periods of the selected bit that have gone by, modulo its own wrap and    *)
(* the counter's, and DIV the counter's high byte, for every width at which  *)
(* one wrap divides the other (timer_cycle).                                 *)
THEOREM TimaIsThePeriodsGoneBy ==
  ASSUME Commensurable, \A v \in Stored : Enabled(v)
  PROVE  WidthSpec => []TimaCountsPeriods
<1>1. Init => Counting
  <2> SUFFICES ASSUME Init
               PROVE  Counting
    OBVIOUS
  <2>1. TypeOK /\ CounterAligned
    BY ByteAssumption, TicsAssumption, SMT DEF Init, TypeOK, CounterAligned, Counters, MaxByte
  <2>2. 0 % 4 = 0 /\ 0 \in Selectors /\ 0 \div Byte = 0
    BY ByteAssumption, SMT DEF Selectors
  <2>3. Modulus(0) \in Nat \ {0} /\ 2 * Weight[0] \in Nat \ {0}
    BY <2>2, ModulusDivides, PeriodsInTics, WeightAssumption
  <2>4. (0 - (0 \div (2 * Weight[0]))) % Modulus(0) = 0
    BY <2>3, NoneAtZero
  <2>5. TimaCountsPeriods
    BY <2>2, <2>4 DEF Init, TimaCountsPeriods, Modulus, Turn, Regs
  <2> QED BY <2>1, <2>5 DEF Counting, IInv, Init, Regs
<1>2. Counting /\ [WidthNext]_vars => Counting'
  BY WidthNextKeepsCounting
<1>3. Counting => TimaCountsPeriods
  BY DEF Counting
<1> QED BY <1>1, <1>2, <1>3, PTL DEF WidthSpec
=============================================================================
