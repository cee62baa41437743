---------------------------- MODULE Image_proofs ----------------------------
(***************************************************************************)
(* Who owns the vectors of image.c, for any lines, widths, heights,        *)
(* palettes and failing allocations, and a heap of any size: every vector  *)
(* a line or the image points to is alive and nobody else's, none is lost  *)
(* while memory lasts, and a call that reports an error changed nothing.   *)
(* And what the calls draw: Image implements Picture.                      *)
(*                                                                         *)
(* A call works on a heap of its own.  Work and Adds say of each helper    *)
(* what it leaves alone (all that was in use) and what it has made so far; *)
(* Makes and Exact say it of each function that returns a line.  Then come *)
(* the lines and the image: IInv, and one lemma for each step.             *)
(*                                                                         *)
(* The second half follows the bits: Yields says it of a vector a helper   *)
(* returns, Draws of the line a function returns, Shows of a line that is  *)
(* whole, Seen what Picture makes of it.  The lemmas named ...IsDrawn say  *)
(* of Picture's operators what they do to bits; with them each step of     *)
(* Image is one of Picture, or none.                                       *)
(***************************************************************************)
EXTENDS Image, BitVector_proofs, WellFoundedInduction

-----------------------------------------------------------------------------
(* What the functions of bit_vector.c return                                *)
OfSize(v, size) == IsVector(v) /\ v.size = size

LEMMA VectorIsNotNull == ASSUME NEW v, IsVector(v) PROVE v # NULL
BY SMT DEF IsVector, NULL

LEMMA SizeOfVector == ASSUME NEW v, IsVector(v) PROVE v.size \in Nat \ {0} /\ OfSize(v, v.size)
BY DEF IsVector, OfSize

LEMMA BlankVector ==
  ASSUME NEW size \in Nat \ {0}
  PROVE  OfSize(bit_vector_create(size, 0), size)
<1>1. PICK c : c = [j \in Chunks(size) |-> {}]
  OBVIOUS
<1>2. bit_vector_create(size, 0) = [size |-> size, content |-> c]
  BY <1>1, SMT DEF bit_vector_create
<1> QED BY <1>1, <1>2, VectorOfChunks DEF OfSize

LEMMA CombinedVector ==
  ASSUME NEW v, NEW w, NEW size, OfSize(v, size), OfSize(w, size)
  PROVE  OfSize(bit_vector_and(v, w), size) /\ OfSize(bit_vector_or(v, w), size)
BY OperatorsAreBitByBit DEF OfSize

LEMMA TurnedVector ==
  ASSUME NEW v, NEW size, OfSize(v, size)
  PROVE  OfSize(bit_vector_not(v), size)
BY NotIsExact DEF OfSize

LEMMA ExtractedVector ==
  ASSUME NEW v, IsVector(v), NEW index, NEW size \in Nat \ {0}
  PROVE  /\ OfSize(bit_vector_extract_wrap_ext(v, index, size), size)
         /\ OfSize(bit_vector_extract_zero_ext(v, index, size), size)
<1>1. v # NULL /\ size # 0
  BY VectorIsNotNull
<1>2. PICK c : c = [j \in Chunks(size) |->
          { i \in Places : bit_vector_get(v, OriginalIndex(j, index, i) % v.size) = 1 }]
  OBVIOUS
<1>3. PICK d : d = [j \in Chunks(size) |->
          { i \in Places : /\ OriginalIndex(j, index, i) < v.size
                           /\ bit_vector_get(v, OriginalIndex(j, index, i)) = 1 }]
  OBVIOUS
<1>4. bit_vector_extract_wrap_ext(v, index, size) = [size |-> size, content |-> c]
  BY <1>1, <1>2 DEF bit_vector_extract_wrap_ext
<1>5. bit_vector_extract_zero_ext(v, index, size) = [size |-> size, content |-> d]
  BY <1>1, <1>3 DEF bit_vector_extract_zero_ext
<1> QED BY <1>2, <1>3, <1>4, <1>5, VectorOfChunks DEF OfSize

LEMMA WrappedVector ==
  ASSUME NEW v, NEW w, OfSize(v, w), NEW index, NEW size \in Nat \ {0}
  PROVE  OfSize(bit_vector_extract_wrap_ext(v, index, size), size)
BY ExtractedVector DEF OfSize

LEMMA ShiftedVector ==
  ASSUME NEW v, NEW size, OfSize(v, size), NEW shift
  PROVE  OfSize(bit_vector_shift(v, shift), size)
BY ExtractedVector, SizeOfVector, VectorIsNotNull DEF bit_vector_shift, OfSize

LEMMA JoinedVector ==
  ASSUME NEW v, NEW w, NEW size, OfSize(v, size), OfSize(w, size), NEW shift \in 0 .. size
  PROVE  OfSize(bit_vector_join(v, w, shift), size)
BY JoinIsExact DEF OfSize

LEMMA NothingFromNull ==
  ASSUME NEW v, NEW w, v = NULL \/ w = NULL \/ v.size # w.size
  PROVE  bit_vector_and(v, w) = NULL /\ bit_vector_or(v, w) = NULL /\ bit_vector_not(NULL) = NULL
BY DEF Unfit, bit_vector_and, bit_vector_or, bit_vector_not

-----------------------------------------------------------------------------
(* A call under way has the heap H it began with and, in the set S of those *)
(* that were NULL there, the vectors it has made, of the sizes of Z.        *)
Good(H) == H = [p \in Pointers |-> H[p]] /\ \A p \in Pointers : H[p] = NULL \/ IsVector(H[p])

IsCall(r) ==
  /\ r = [heap |-> r.heap, made |-> r.made, fails |-> r.fails, failed |-> r.failed, ret |-> r.ret]
  /\ r.failed \in BOOLEAN

Work(H, r, S, Z) ==
  /\ IsCall(r) /\ r.heap = [p \in Pointers |-> r.heap[p]]
  /\ S \subseteq Pointers
  /\ \A p \in S : H[p] = NULL /\ IsVector(r.heap[p]) /\ r.heap[p].size \in Z
  /\ \A p \in Pointers \ S : r.heap[p] = H[p]

(* From r and S to s and T, by a function that returns a vector or NULL      *)
Adds(H, r, S, s, T, Z) ==
  /\ Work(H, s, T, Z) /\ S \subseteq T /\ (r.failed => s.failed)
  /\ \/ s.ret = 0
     \/ s.ret \notin S /\ s.ret \in T /\ T = S \cup { s.ret }

LEMMA PointersAreNotZero ==
  /\ 0 \notin Pointers /\ MaxVectors \in Nat
  /\ \A p : p \in 0 .. MaxVectors <=> p \in Pointers \/ p = 0
BY SizesAssumption DEF Pointers

LEMMA CallFields ==
  ASSUME NEW r, IsCall(r)
  PROVE  /\ \A n : LET s == [r EXCEPT !.ret = n] IN
              /\ IsCall(s) /\ s.ret = n
              /\ s.heap = r.heap /\ s.made = r.made /\ s.fails = r.fails /\ s.failed = r.failed
         /\ \A h : LET s == [r EXCEPT !.heap = h] IN
              /\ IsCall(s) /\ s.heap = h
              /\ s.ret = r.ret /\ s.made = r.made /\ s.fails = r.fails /\ s.failed = r.failed
BY DEF IsCall

LEMMA AllocatedAdds ==
  ASSUME NEW H, Good(H), NEW r, NEW S, NEW Z, Work(H, r, S, Z),
         NEW v, v = NULL \/ (IsVector(v) /\ v.size \in Z)
  PROVE  \E T : /\ Adds(H, r, S, Allocated(r, v), T, Z)
                /\ IF Allocated(r, v).ret = 0 THEN v = NULL \/ Allocated(r, v).failed
                   ELSE Allocated(r, v).heap[Allocated(r, v).ret] = v /\ v # NULL
<1>1. IsCall(r) /\ r.heap = [p \in Pointers |-> r.heap[p]] /\ r.failed \in BOOLEAN
  BY DEF Work, IsCall
<1>2. CASE v = NULL
  <2>1. PICK s : s = [r EXCEPT !.ret = 0]
    OBVIOUS
  <2>2. IsCall(s) /\ s.ret = 0 /\ s.heap = r.heap /\ s.failed = r.failed
    BY <1>1, <2>1, CallFields
  <2>3. Work(H, s, S, Z)
    BY <2>2 DEF Work
  <2>4. Allocated(r, v) = s
    BY <1>2, <2>1 DEF Allocated
  <2>5. Adds(H, r, S, s, S, Z)
    BY <2>2, <2>3 DEF Adds
  <2> QED BY <1>2, <2>2, <2>4, <2>5
<1>3. CASE v # NULL /\ (r.made \in r.fails \/ \A q \in Pointers : r.heap[q] # NULL)
  <2>1. PICK s : s = [r EXCEPT !.made = @ + 1, !.failed = TRUE, !.ret = 0]
    OBVIOUS
  <2>2. IsCall(s) /\ s.ret = 0 /\ s.heap = r.heap /\ s.failed = TRUE
    BY <1>1, <2>1 DEF IsCall
  <2>3. Work(H, s, S, Z)
    BY <2>2 DEF Work
  <2>4. Allocated(r, v) = s
    BY <1>3, <2>1 DEF Allocated
  <2>5. Adds(H, r, S, s, S, Z)
    BY <2>2, <2>3 DEF Adds
  <2> QED BY <2>2, <2>4, <2>5
<1>4. CASE v # NULL /\ ~(r.made \in r.fails \/ \A q \in Pointers : r.heap[q] # NULL)
  <2>1. PICK p : p = CHOOSE q \in Pointers : r.heap[q] = NULL
    OBVIOUS
  <2>2. p \in Pointers /\ r.heap[p] = NULL
    BY <1>4, <2>1
  <2>3. PICK s : s = [r EXCEPT !.made = @ + 1, !.ret = p, !.heap[p] = v]
    OBVIOUS
  <2>4. IsCall(s) /\ s.ret = p /\ s.heap = [r.heap EXCEPT ![p] = v] /\ s.failed = r.failed
    BY <1>1, <2>3 DEF IsCall
  <2>5. p \notin S
    BY <2>2, VectorIsNotNull DEF Work
  <2>6. s.heap = [q \in Pointers |-> s.heap[q]] /\ s.heap[p] = v
        /\ \A q \in Pointers : q # p => s.heap[q] = r.heap[q]
    BY <1>1, <2>2, <2>4
  <2>7. H[p] = NULL
    BY <2>2, <2>5 DEF Work
  <2>8. Work(H, s, S \cup { p }, Z)
    BY <1>4, <2>2, <2>4, <2>5, <2>6, <2>7 DEF Work
  <2>9. Allocated(r, v) = s
    BY <1>4, <2>1, <2>3 DEF Allocated
  <2>10. Adds(H, r, S, s, S \cup { p }, Z)
    BY <2>4, <2>5, <2>8 DEF Adds
  <2>11. s.ret # 0
    BY <2>2, <2>4, PointersAreNotZero
  <2> QED BY <1>4, <2>4, <2>6, <2>9, <2>10, <2>11
<1> QED BY <1>2, <1>3, <1>4

LEMMA ChangedWorks ==
  ASSUME NEW H, NEW r, NEW S, NEW Z, Work(H, r, S, Z),
         NEW v, v = NULL \/ (r.ret \in S /\ IsVector(v) /\ v.size \in Z)
  PROVE  /\ Work(H, Changed(r, v), S, Z)
         /\ Changed(r, v).ret = (IF v = NULL THEN 0 ELSE r.ret) /\ Changed(r, v).failed = r.failed
<1>1. IsCall(r) /\ r.heap = [p \in Pointers |-> r.heap[p]]
  BY DEF Work
<1>2. CASE v = NULL
  <2>1. PICK s : s = [r EXCEPT !.ret = 0]
    OBVIOUS
  <2>2. IsCall(s) /\ s.ret = 0 /\ s.heap = r.heap /\ s.failed = r.failed
    BY <1>1, <2>1, CallFields
  <2>3. Work(H, s, S, Z)
    BY <2>2 DEF Work
  <2> QED BY <1>2, <2>1, <2>2, <2>3 DEF Changed
<1>3. CASE v # NULL
  <2>1. PICK s : s = [r EXCEPT !.heap[r.ret] = v]
    OBVIOUS
  <2>2. IsCall(s) /\ s.ret = r.ret /\ s.heap = [r.heap EXCEPT ![r.ret] = v] /\ s.failed = r.failed
    BY <1>1, <2>1 DEF IsCall
  <2>3. r.ret \in S /\ r.ret \in Pointers /\ IsVector(v) /\ v.size \in Z
    BY <1>3 DEF Work
  <2>4. s.heap = [q \in Pointers |-> s.heap[q]] /\ s.heap[r.ret] = v
        /\ \A q \in Pointers : q # r.ret => s.heap[q] = r.heap[q]
    BY <1>1, <2>2, <2>3
  <2>5. Work(H, s, S, Z)
    BY <2>2, <2>3, <2>4 DEF Work
  <2> QED BY <1>3, <2>1, <2>2, <2>5 DEF Changed
<1> QED BY <1>2, <1>3

LEMMA NullWorks ==
  ASSUME NEW H, NEW r, NEW S, NEW Z, Work(H, r, S, Z)
  PROVE  Work(H, Changed(r, NULL), S, Z) /\ Changed(r, NULL).ret = 0 /\ Changed(r, NULL).failed = r.failed
<1>1. PICK v : v = NULL
  OBVIOUS
<1>2. Work(H, Changed(r, v), S, Z) /\ Changed(r, v).ret = 0 /\ Changed(r, v).failed = r.failed
  BY <1>1, ChangedWorks
<1> QED BY <1>1, <1>2

LEMMA FreedWorks ==
  ASSUME NEW H, NEW r, NEW S, NEW Z, Work(H, r, S, Z), NEW Q, Q \subseteq S \cup { 0 }
  PROVE  /\ Work(H, bit_vector_free(r, Q), S \ Q, Z)
         /\ bit_vector_free(r, Q).ret = r.ret /\ bit_vector_free(r, Q).failed = r.failed
<1>1. IsCall(r) /\ r.heap = [p \in Pointers |-> r.heap[p]]
  BY DEF Work
<1>2. PICK h : h = [p \in Pointers |-> IF p \in Q THEN NULL ELSE r.heap[p]]
  OBVIOUS
<1>3. PICK s : s = [r EXCEPT !.heap = h]
  OBVIOUS
<1>4. IsCall(s) /\ s.heap = h /\ s.ret = r.ret /\ s.failed = r.failed
  BY <1>1, <1>3, CallFields
<1>5. bit_vector_free(r, Q) = s
  BY <1>1, <1>2, <1>3 DEF bit_vector_free, IsCall
<1>6. h = [p \in Pointers |-> h[p]]
  BY <1>2
<1>7. \A p \in Pointers : h[p] = IF p \in Q THEN NULL ELSE r.heap[p]
  BY <1>2
<1>8. Work(H, s, S \ Q, Z)
  BY <1>4, <1>6, <1>7, PointersAreNotZero DEF Work
<1> QED BY <1>4, <1>5, <1>8

LEMMA WhatIsThere ==
  ASSUME NEW H, Good(H), NEW r, NEW S, NEW Z, Work(H, r, S, Z), NEW p \in 0 .. MaxVectors
  PROVE  /\ At(r, p) = NULL \/ IsVector(At(r, p))
         /\ p \in S => p # 0 /\ At(r, p) = r.heap[p] /\ IsVector(At(r, p)) /\ At(r, p).size \in Z
         /\ p \in Pointers /\ H[p] # NULL => At(r, p) = H[p]
         /\ p = 0 => At(r, p) = NULL
<1>1. p = 0 \/ p \in Pointers
  BY SizesAssumption DEF Pointers
<1> QED BY <1>1, PointersAreNotZero DEF Good, Work, At

(* The copies are changed in place                                          *)
Fit(v, w) == v # NULL /\ w # NULL /\ v.size = w.size

LEMMA CombinedWorks ==
  ASSUME NEW H, Good(H), NEW r, NEW S, NEW Z, Work(H, r, S, Z), r.ret \in S \cup { 0 },
         NEW p \in 0 .. MaxVectors
  PROVE  /\ Work(H, Not(r), S, Z) /\ Work(H, And(r, p), S, Z) /\ Work(H, Or(r, p), S, Z)
         /\ Not(r).failed = r.failed /\ And(r, p).failed = r.failed /\ Or(r, p).failed = r.failed
         /\ Not(r).ret = r.ret
         /\ And(r, p).ret = IF Fit(At(r, r.ret), At(r, p)) THEN r.ret ELSE 0
         /\ Or(r, p).ret  = IF Fit(At(r, r.ret), At(r, p)) THEN r.ret ELSE 0
<1>1. r.ret \in 0 .. MaxVectors
  <2>1. S \subseteq Pointers
    BY DEF Work
  <2> QED BY <2>1, PointersAreNotZero
<1>2. At(r, p) = NULL \/ IsVector(At(r, p))
  BY WhatIsThere
<1>3. CASE r.ret = 0
  <2>1. At(r, r.ret) = NULL
    BY <1>3 DEF At
  <2>2. /\ bit_vector_not(At(r, r.ret)) = NULL /\ bit_vector_and(At(r, r.ret), At(r, p)) = NULL
        /\ bit_vector_or(At(r, r.ret), At(r, p)) = NULL
    BY <2>1, NothingFromNull
  <2>3. /\ Work(H, Changed(r, NULL), S, Z)
        /\ Changed(r, NULL).ret = 0 /\ Changed(r, NULL).failed = r.failed
    BY NullWorks
  <2>4. Not(r) = Changed(r, NULL) /\ And(r, p) = Changed(r, NULL) /\ Or(r, p) = Changed(r, NULL)
    BY <2>2, Zenon DEF Not, And, Or
  <2>5. ~Fit(At(r, r.ret), At(r, p))
    BY <2>1 DEF Fit
  <2> QED BY <1>3, <2>3, <2>4, <2>5
<1>4. CASE r.ret \in S
  <2>1. PICK v : v = At(r, r.ret)
    OBVIOUS
  <2>2. IsVector(v) /\ v.size \in Z /\ v # NULL
    BY <1>1, <1>4, <2>1, WhatIsThere, VectorIsNotNull
  <2>3. OfSize(bit_vector_not(v), v.size)
    BY <2>2, SizeOfVector, TurnedVector
  <2>4. Work(H, Not(r), S, Z) /\ Not(r).failed = r.failed /\ Not(r).ret = r.ret
    BY <1>4, <2>1, <2>2, <2>3, ChangedWorks, VectorIsNotNull DEF Not, OfSize
  <2>5. CASE Fit(v, At(r, p))
    <3>1. /\ OfSize(bit_vector_and(v, At(r, p)), v.size)
          /\ OfSize(bit_vector_or(v, At(r, p)), v.size)
      BY <1>2, <2>2, <2>5, CombinedVector, SizeOfVector DEF Fit
    <3> QED BY <1>4, <2>1, <2>2, <2>4, <2>5, <3>1, ChangedWorks, VectorIsNotNull DEF And, Or, OfSize
  <2>6. CASE ~Fit(v, At(r, p))
    <3>1. bit_vector_and(v, At(r, p)) = NULL /\ bit_vector_or(v, At(r, p)) = NULL
      BY <2>6, NothingFromNull DEF Fit
    <3>2. And(r, p) = Changed(r, NULL) /\ Or(r, p) = Changed(r, NULL)
      BY <2>1, <3>1, Zenon DEF And, Or
    <3>3. /\ Work(H, Changed(r, NULL), S, Z)
          /\ Changed(r, NULL).ret = 0 /\ Changed(r, NULL).failed = r.failed
      BY NullWorks
    <3> QED BY <2>1, <2>4, <2>6, <3>2, <3>3
  <2> QED BY <2>5, <2>6
<1> QED BY <1>3, <1>4

LEMMA CombinedAdds ==
  ASSUME NEW H, Good(H), NEW r, NEW S, NEW s, NEW T, NEW Z, Adds(H, r, S, s, T, Z),
         NEW p \in 0 .. MaxVectors
  PROVE  /\ Adds(H, r, S, Not(s), T, Z) /\ Adds(H, r, S, And(s, p), T, Z) /\ Adds(H, r, S, Or(s, p), T, Z)
         /\ Not(s).failed = s.failed /\ And(s, p).failed = s.failed /\ Or(s, p).failed = s.failed
         /\ Not(s).ret = s.ret
         /\ And(s, p).ret = IF Fit(At(s, s.ret), At(s, p)) THEN s.ret ELSE 0
         /\ Or(s, p).ret  = IF Fit(At(s, s.ret), At(s, p)) THEN s.ret ELSE 0
<1>1. Work(H, s, T, Z) /\ s.ret \in T \cup { 0 }
  BY DEF Adds
<1>2. /\ Work(H, Not(s), T, Z) /\ Work(H, And(s, p), T, Z) /\ Work(H, Or(s, p), T, Z)
      /\ Not(s).failed = s.failed /\ And(s, p).failed = s.failed /\ Or(s, p).failed = s.failed
      /\ Not(s).ret = s.ret
      /\ And(s, p).ret = IF Fit(At(s, s.ret), At(s, p)) THEN s.ret ELSE 0
      /\ Or(s, p).ret  = IF Fit(At(s, s.ret), At(s, p)) THEN s.ret ELSE 0
  BY <1>1, CombinedWorks
<1> QED BY <1>2 DEF Adds

(* A part of the output takes what is computed on it                        *)
LEMMA OnWorks ==
  ASSUME NEW H, Good(H), NEW r, NEW S, NEW Z, Work(H, r, S, Z), NEW q \in S \cup { 0 },
         NEW p \in 0 .. MaxVectors
  PROVE  /\ Work(H, Or(On(r, q), p), S, Z) /\ Or(On(r, q), p).failed = r.failed
         /\ Or(On(r, q), p).ret = IF Fit(At(r, q), At(r, p)) THEN q ELSE 0
<1>1. PICK s : s = On(r, q)
  OBVIOUS
<1>2. IsCall(s) /\ s.ret = q /\ s.heap = r.heap /\ s.failed = r.failed
  BY <1>1, CallFields DEF On, Work
<1>3. Work(H, s, S, Z)
  BY <1>2 DEF Work
<1>4. At(s, q) = At(r, q) /\ At(s, p) = At(r, p)
  BY <1>2 DEF At
<1> QED BY <1>1, <1>2, <1>3, <1>4, CombinedWorks

-----------------------------------------------------------------------------
(* A line whose vectors a call has made: apart from each other and from all *)
(* it had made before                                                       *)
Part == { "msb", "lsb", "opacity" }

Fresh(l, S, T) ==
  /\ l \in ImageLine /\ S \subseteq T
  /\ \A i \in Part : l[i] # 0 => l[i] \in T /\ l[i] \notin S
  /\ \A i, j \in Part : i # j /\ l[i] # 0 => l[i] # l[j]

Makes(H, r, S, o, T, Z) ==
  /\ o = Done(o.r, o.line, o.code)
  /\ Work(H, o.r, T, Z) /\ Fresh(o.line, S, T) /\ (r.failed => o.r.failed)
  /\ o.code \in { "ERR_NONE", "ERR_MEM" } /\ (o.code # "ERR_NONE" => o.line = NoLine)

(* When no allocation fails, the line is whole and nothing else is made     *)
Exact(S, o, T) ==
  ~o.r.failed => o.code = "ERR_NONE" /\ NON_NULL(o.line) /\ T = S \cup PartsOf(o.line)

LEMMA PartsOfLine ==
  ASSUME NEW l \in ImageLine
  PROVE  /\ l["msb"] = l.msb /\ l["lsb"] = l.lsb /\ l["opacity"] = l.opacity
         /\ l.msb \in 0 .. MaxVectors /\ l.lsb \in 0 .. MaxVectors /\ l.opacity \in 0 .. MaxVectors
         /\ l = [msb |-> l.msb, lsb |-> l.lsb, opacity |-> l.opacity]
         /\ PartsOf(l) = { l[i] : i \in Part }
         /\ NON_NULL(l) <=> \A i \in Part : l[i] # 0
BY DEF ImageLine, PartsOf, NON_NULL, Part

LEMMA NoLineIsFresh ==
  ASSUME NEW S, NEW T, S \subseteq T
  PROVE  Fresh(NoLine, S, T) /\ \A i \in Part : NoLine[i] = 0
BY PointersAreNotZero DEF Fresh, NoLine, ImageLine, Part

LEMMA ThreeAreFresh ==
  ASSUME NEW H, NEW r, NEW S, NEW Z,
         NEW a, NEW T1, Adds(H, r, S, a, T1, Z), NEW b, NEW T2, Adds(H, a, T1, b, T2, Z),
         NEW c, NEW T3, Adds(H, b, T2, c, T3, Z),
         NEW l, l = [lsb |-> a.ret, msb |-> b.ret, opacity |-> c.ret]
  PROVE  /\ Fresh(l, S, T3)
         /\ NON_NULL(l) => T3 = S \cup PartsOf(l)
<1>1. T1 \subseteq Pointers /\ T2 \subseteq Pointers /\ T3 \subseteq Pointers
  BY DEF Adds, Work
<1>2. /\ \/ a.ret = 0
         \/ a.ret \notin S /\ a.ret \in T1 /\ T1 = S \cup { a.ret }
      /\ \/ b.ret = 0
         \/ b.ret \notin T1 /\ b.ret \in T2 /\ T2 = T1 \cup { b.ret }
      /\ \/ c.ret = 0
         \/ c.ret \notin T2 /\ c.ret \in T3 /\ T3 = T2 \cup { c.ret }
      /\ S \subseteq T1 /\ T1 \subseteq T2 /\ T2 \subseteq T3
  BY DEF Adds
<1>3. l \in ImageLine
  BY <1>1, <1>2, PointersAreNotZero DEF ImageLine
<1>4. l["lsb"] = a.ret /\ l["msb"] = b.ret /\ l["opacity"] = c.ret
      /\ l.lsb = a.ret /\ l.msb = b.ret /\ l.opacity = c.ret
  OBVIOUS
<1>5. \A i \in Part : l[i] # 0 => l[i] \in T3 /\ l[i] \notin S
  BY <1>2, <1>4 DEF Part
<1>6. \A i, j \in Part : i # j /\ l[i] # 0 => l[i] # l[j]
  BY <1>2, <1>4 DEF Part
<1>7. ASSUME NON_NULL(l)
      PROVE  T3 = S \cup PartsOf(l)
  BY <1>2, <1>4, <1>7 DEF NON_NULL, PartsOf
<1> QED BY <1>2, <1>3, <1>5, <1>6, <1>7 DEF Fresh

LEMMA ValidMakes ==
  ASSUME NEW H, NEW r, NEW S, NEW Z, NEW s, NEW T, Work(H, s, T, Z), r.failed => s.failed,
         NEW l, Fresh(l, S, T), NON_NULL(l) => T = S \cup PartsOf(l), NON_NULL(l) \/ s.failed,
         NEW o, o = valid([r |-> s, line |-> l])
  PROVE  \E U : Makes(H, r, S, o, U, Z) /\ Exact(S, o, U)
<1>1. CASE NON_NULL(l)
  <2>1. o = Done(s, l, "ERR_NONE")
    BY <1>1 DEF valid
  <2>2. Makes(H, r, S, o, T, Z)
    BY <2>1 DEF Makes, Done
  <2>3. Exact(S, o, T)
    BY <1>1, <2>1 DEF Exact, Done
  <2> QED BY <2>2, <2>3
<1>2. CASE ~NON_NULL(l)
  <2>1. PICK t : t = bit_vector_free(s, PartsOf(l))
    OBVIOUS
  <2>2. o = Done(t, NoLine, "ERR_MEM")
    BY <1>2, <2>1 DEF valid, image_line_free
  <2>3. PartsOf(l) \subseteq T \cup { 0 } /\ S \cap PartsOf(l) \subseteq { 0 }
    BY PartsOfLine DEF Fresh
  <2>4. Work(H, t, T \ PartsOf(l), Z) /\ t.failed = s.failed
    BY <2>1, <2>3, FreedWorks
  <2>5. 0 \notin S
    BY PointersAreNotZero DEF Work, Fresh
  <2>6. S \subseteq T \ PartsOf(l)
    BY <2>3, <2>5 DEF Fresh
  <2>7. Makes(H, r, S, o, T \ PartsOf(l), Z)
    BY <2>2, <2>4, <2>6, NoLineIsFresh DEF Makes, Done
  <2>8. Exact(S, o, T \ PartsOf(l))
    BY <1>2, <2>2, <2>4 DEF Exact, Done
  <2> QED BY <2>7, <2>8
<1> QED BY <1>1, <1>2

-----------------------------------------------------------------------------
(* The functions that make a line                                           *)
LineIn(H, l, w) ==
  /\ l \in ImageLine /\ NON_NULL(l)
  /\ \A i \in Part : IsVector(H[l[i]]) /\ H[l[i]].size = w

LEMMA PartsAreThere ==
  ASSUME NEW H, Good(H), NEW r, NEW S, NEW Z, Work(H, r, S, Z), NEW l, NEW w, LineIn(H, l, w)
  PROVE  /\ OfSize(At(r, l.msb), w) /\ OfSize(At(r, l.lsb), w) /\ OfSize(At(r, l.opacity), w)
         /\ l.msb \in Pointers /\ l.lsb \in Pointers /\ l.opacity \in Pointers
         /\ At(r, l.msb) = r.heap[l.msb] /\ At(r, l.lsb) = r.heap[l.lsb]
         /\ At(r, l.opacity) = r.heap[l.opacity]
         /\ w \in Nat \ {0}
<1>1. ASSUME NEW i \in Part
      PROVE  OfSize(At(r, l[i]), w) /\ l[i] \in Pointers /\ At(r, l[i]) = r.heap[l[i]] /\ w \in Nat \ {0}
  <2>1. l[i] # 0 /\ l[i] \in 0 .. MaxVectors /\ IsVector(H[l[i]]) /\ H[l[i]].size = w
    BY <1>1, PartsOfLine DEF LineIn, Part
  <2>2. l[i] \in Pointers /\ H[l[i]] # NULL
    BY <2>1, PointersAreNotZero, VectorIsNotNull
  <2> QED BY <2>1, <2>2, WhatIsThere, SizeOfVector DEF OfSize, At
<1>2. l \in ImageLine
  BY DEF LineIn
<1> QED BY <1>1, <1>2, PartsOfLine DEF Part

LEMMA CopiedAdds ==
  ASSUME NEW H, Good(H), NEW r, NEW S, NEW Z, Work(H, r, S, Z), NEW p \in 0 .. MaxVectors,
         At(r, p) # NULL => At(r, p).size \in Z
  PROVE  \E T : /\ Adds(H, r, S, Copied(r, p), T, Z)
                /\ IF Copied(r, p).ret = 0 THEN At(r, p) = NULL \/ Copied(r, p).failed
                   ELSE At(Copied(r, p), Copied(r, p).ret) = At(r, p) /\ At(r, p) # NULL
<1>1. At(r, p) = NULL \/ (IsVector(At(r, p)) /\ At(r, p).size \in Z)
  BY WhatIsThere
<1>2. Copied(r, p) = Allocated(r, At(r, p))
  BY DEF Copied, bit_vector_cpy
<1> QED BY <1>1, <1>2, AllocatedAdds DEF At

(* One of the three vectors                                                  *)
LEMMA PartAdds ==
  ASSUME NEW H, Good(H), NEW r, NEW S, NEW w, Work(H, r, S, { w }), NEW v, OfSize(v, w)
  PROVE  \E T : Adds(H, r, S, Allocated(r, v), T, { w })
                /\ (Allocated(r, v).ret # 0 \/ Allocated(r, v).failed)
BY AllocatedAdds, VectorIsNotNull DEF OfSize

LEMMA ThreeMake ==
  ASSUME NEW H, NEW r, NEW S, NEW Z,
         NEW a, NEW T1, Adds(H, r, S, a, T1, Z), a.ret # 0 \/ a.failed,
         NEW b, NEW T2, Adds(H, a, T1, b, T2, Z), b.ret # 0 \/ b.failed,
         NEW c, NEW T3, Adds(H, b, T2, c, T3, Z), c.ret # 0 \/ c.failed,
         NEW l, l = [lsb |-> a.ret, msb |-> b.ret, opacity |-> c.ret]
  PROVE  \E U : /\ Makes(H, r, S, valid([r |-> c, line |-> l]), U, Z)
                /\ Exact(S, valid([r |-> c, line |-> l]), U)
<1>1. Fresh(l, S, T3) /\ (NON_NULL(l) => T3 = S \cup PartsOf(l))
  BY ThreeAreFresh
<1>2. NON_NULL(l) \/ c.failed
  BY DEF NON_NULL, PartsOf, Adds
<1>3. Work(H, c, T3, Z) /\ (r.failed => c.failed)
  BY DEF Adds
<1> QED BY <1>1, <1>2, <1>3, ValidMakes

LEMMA CreateMakes ==
  ASSUME NEW H, Good(H), NEW r, NEW S, NEW size \in Nat \ {0}, Work(H, r, S, { size })
  PROVE  \E U : /\ Makes(H, r, S, image_line_create(r, size), U, { size })
                /\ Exact(S, image_line_create(r, size), U)
<1>1. PICK a : a = Created(r, size)
  OBVIOUS
<1>2. PICK b : b = Created(a, size)
  OBVIOUS
<1>3. PICK c : c = Created(b, size)
  OBVIOUS
<1>4. OfSize(bit_vector_create(size, 0), size)
  BY BlankVector
<1>5. PICK T1 : Adds(H, r, S, a, T1, { size }) /\ (a.ret # 0 \/ a.failed)
  BY <1>1, <1>4, PartAdds DEF Created
<1>6. PICK T2 : Adds(H, a, T1, b, T2, { size }) /\ (b.ret # 0 \/ b.failed)
  <2>1. Work(H, a, T1, { size })
    BY <1>5 DEF Adds
  <2> QED BY <1>2, <1>4, <2>1, PartAdds DEF Created
<1>7. PICK T3 : Adds(H, b, T2, c, T3, { size }) /\ (c.ret # 0 \/ c.failed)
  <2>1. Work(H, b, T2, { size })
    BY <1>6 DEF Adds
  <2> QED BY <1>3, <1>4, <2>1, PartAdds DEF Created
<1>8. image_line_create(r, size) =
        valid([r |-> c, line |-> [lsb |-> a.ret, msb |-> b.ret, opacity |-> c.ret]])
  BY <1>1, <1>2, <1>3 DEF image_line_create, do_image_line
<1> QED BY <1>5, <1>6, <1>7, <1>8, ThreeMake

LEMMA ShiftMakes ==
  ASSUME NEW H, Good(H), NEW r, NEW S, NEW l, NEW w, LineIn(H, l, w), Work(H, r, S, { w }), NEW shift
  PROVE  \E U : /\ Makes(H, r, S, image_line_shift(r, l, shift), U, { w })
                /\ Exact(S, image_line_shift(r, l, shift), U)
<1>1. PICK a : a = Allocated(r, bit_vector_shift(At(r, l.lsb), shift))
  OBVIOUS
<1>2. PICK b : b = Allocated(a, bit_vector_shift(At(a, l.msb), shift))
  OBVIOUS
<1>3. PICK c : c = Allocated(b, bit_vector_shift(At(b, l.opacity), shift))
  OBVIOUS
<1>4. PICK T1 : Adds(H, r, S, a, T1, { w }) /\ (a.ret # 0 \/ a.failed)
  BY <1>1, PartsAreThere, ShiftedVector, PartAdds
<1>5. PICK T2 : Adds(H, a, T1, b, T2, { w }) /\ (b.ret # 0 \/ b.failed)
  <2>1. Work(H, a, T1, { w })
    BY <1>4 DEF Adds
  <2> QED BY <1>2, <2>1, PartsAreThere, ShiftedVector, PartAdds
<1>6. PICK T3 : Adds(H, b, T2, c, T3, { w }) /\ (c.ret # 0 \/ c.failed)
  <2>1. Work(H, b, T2, { w })
    BY <1>5 DEF Adds
  <2> QED BY <1>3, <2>1, PartsAreThere, ShiftedVector, PartAdds
<1>7. image_line_shift(r, l, shift) =
        valid([r |-> c, line |-> [lsb |-> a.ret, msb |-> b.ret, opacity |-> c.ret]])
  BY <1>1, <1>2, <1>3 DEF image_line_shift, do_image_line
<1> QED BY <1>4, <1>5, <1>6, <1>7, ThreeMake

LEMMA ExtractMakes ==
  ASSUME NEW H, Good(H), NEW r, NEW S, NEW l, NEW w, LineIn(H, l, w), NEW index,
         NEW size \in Nat \ {0}, Work(H, r, S, { size })
  PROVE  \E U : /\ Makes(H, r, S, image_line_extract_wrap_ext(r, l, index, size), U, { size })
                /\ Exact(S, image_line_extract_wrap_ext(r, l, index, size), U)
<1>1. PICK a : a = Allocated(r, bit_vector_extract_wrap_ext(At(r, l.lsb), index, size))
  OBVIOUS
<1>2. PICK b : b = Allocated(a, bit_vector_extract_wrap_ext(At(a, l.msb), index, size))
  OBVIOUS
<1>3. PICK c : c = Allocated(b, bit_vector_extract_wrap_ext(At(b, l.opacity), index, size))
  OBVIOUS
<1>4. PICK T1 : Adds(H, r, S, a, T1, { size }) /\ (a.ret # 0 \/ a.failed)
  BY <1>1, PartsAreThere, WrappedVector, PartAdds
<1>5. PICK T2 : Adds(H, a, T1, b, T2, { size }) /\ (b.ret # 0 \/ b.failed)
  <2>1. Work(H, a, T1, { size })
    BY <1>4 DEF Adds
  <2> QED BY <1>2, <2>1, PartsAreThere, WrappedVector, PartAdds
<1>6. PICK T3 : Adds(H, b, T2, c, T3, { size }) /\ (c.ret # 0 \/ c.failed)
  <2>1. Work(H, b, T2, { size })
    BY <1>5 DEF Adds
  <2> QED BY <1>3, <2>1, PartsAreThere, WrappedVector, PartAdds
<1>7. image_line_extract_wrap_ext(r, l, index, size) =
        valid([r |-> c, line |-> [lsb |-> a.ret, msb |-> b.ret, opacity |-> c.ret]])
  BY <1>1, <1>2, <1>3 DEF image_line_extract_wrap_ext, do_image_line
<1> QED BY <1>4, <1>5, <1>6, <1>7, ThreeMake

(* The copy of a line: three vectors, or less when memory runs out          *)
ThreeCopied(H, r, S, a, b, c, w) ==
  \E T1, T2, T3 :
    /\ Adds(H, r, S, a, T1, { w }) /\ (a.ret # 0 \/ a.failed)
    /\ Adds(H, a, T1, b, T2, { w }) /\ (b.ret # 0 \/ b.failed)
    /\ Adds(H, b, T2, c, T3, { w }) /\ (c.ret # 0 \/ c.failed)

LEMMA CopyAdds ==
  ASSUME NEW H, Good(H), NEW r, NEW S, NEW l, NEW w, LineIn(H, l, w), Work(H, r, S, { w }),
         NEW a, a = Copied(r, l.lsb), NEW b, b = Copied(a, l.msb), NEW c, c = Copied(b, l.opacity)
  PROVE  ThreeCopied(H, r, S, a, b, c, w)
<1>1. PICK T1 : Adds(H, r, S, a, T1, { w }) /\ (a.ret # 0 \/ a.failed)
  BY PartsAreThere, PartAdds DEF Copied, bit_vector_cpy
<1>2. PICK T2 : Adds(H, a, T1, b, T2, { w }) /\ (b.ret # 0 \/ b.failed)
  <2>1. Work(H, a, T1, { w })
    BY <1>1 DEF Adds
  <2> QED BY <2>1, PartsAreThere, PartAdds DEF Copied, bit_vector_cpy
<1>3. PICK T3 : Adds(H, b, T2, c, T3, { w }) /\ (c.ret # 0 \/ c.failed)
  <2>1. Work(H, b, T2, { w })
    BY <1>2 DEF Adds
  <2> QED BY <2>1, PartsAreThere, PartAdds DEF Copied, bit_vector_cpy
<1> QED BY <1>1, <1>2, <1>3 DEF ThreeCopied

LEMMA JoinMakes ==
  ASSUME NEW H, Good(H), NEW r, NEW S, NEW l1, NEW l2, NEW w, LineIn(H, l1, w), LineIn(H, l2, w),
         Work(H, r, S, { w }), NEW start \in 0 .. w - 1
  PROVE  \E U : /\ Makes(H, r, S, image_line_join(r, l1, l2, start), U, { w })
                /\ Exact(S, image_line_join(r, l1, l2, start), U)
<1>1. r.heap[l1.lsb].size = w /\ w \in Nat \ {0}
  BY PartsAreThere DEF OfSize
<1>2. start \in 0 .. w
  BY <1>1
<1>3. CASE start % w = 0
  <2>1. PICK a : a = Copied(r, l2.lsb)
    OBVIOUS
  <2>2. PICK b : b = Copied(a, l2.msb)
    OBVIOUS
  <2>3. PICK c : c = Copied(b, l2.opacity)
    OBVIOUS
  <2>4. ThreeCopied(H, r, S, a, b, c, w)
    BY <2>1, <2>2, <2>3, CopyAdds
  <2>5. PICK T1, T2, T3 :
           /\ Adds(H, r, S, a, T1, { w }) /\ (a.ret # 0 \/ a.failed)
           /\ Adds(H, a, T1, b, T2, { w }) /\ (b.ret # 0 \/ b.failed)
           /\ Adds(H, b, T2, c, T3, { w }) /\ (c.ret # 0 \/ c.failed)
    BY <2>4 DEF ThreeCopied
  <2>6. image_line_join(r, l1, l2, start) =
          valid([r |-> c, line |-> [lsb |-> a.ret, msb |-> b.ret, opacity |-> c.ret]])
    BY <1>1, <1>3, <2>1, <2>2, <2>3 DEF image_line_join, do_image_line
  <2> QED BY <2>5, <2>6, ThreeMake
<1>4. CASE start % w # 0
  <2>1. PICK a : a = Allocated(r, bit_vector_join(At(r, l1.lsb), At(r, l2.lsb), start))
    OBVIOUS
  <2>2. PICK b : b = Allocated(a, bit_vector_join(At(r, l1.msb), At(r, l2.msb), start))
    OBVIOUS
  <2>3. PICK c : c = Allocated(b, bit_vector_join(At(r, l1.opacity), At(r, l2.opacity), start))
    OBVIOUS
  <2>4. /\ OfSize(bit_vector_join(At(r, l1.lsb), At(r, l2.lsb), start), w)
        /\ OfSize(bit_vector_join(At(r, l1.msb), At(r, l2.msb), start), w)
        /\ OfSize(bit_vector_join(At(r, l1.opacity), At(r, l2.opacity), start), w)
    BY <1>2, PartsAreThere, JoinedVector
  <2>5. PICK T1 : Adds(H, r, S, a, T1, { w }) /\ (a.ret # 0 \/ a.failed)
    BY <2>1, <2>4, PartAdds
  <2>6. PICK T2 : Adds(H, a, T1, b, T2, { w }) /\ (b.ret # 0 \/ b.failed)
    <3>1. Work(H, a, T1, { w })
      BY <2>5 DEF Adds
    <3> QED BY <2>2, <2>4, <3>1, PartAdds
  <2>7. PICK T3 : Adds(H, b, T2, c, T3, { w }) /\ (c.ret # 0 \/ c.failed)
    <3>1. Work(H, b, T2, { w })
      BY <2>6 DEF Adds
    <3> QED BY <2>3, <2>4, <3>1, PartAdds
  <2>8. image_line_join(r, l1, l2, start) =
          valid([r |-> c, line |-> [lsb |-> a.ret, msb |-> b.ret, opacity |-> c.ret]])
    BY <1>1, <1>4, <2>1, <2>2, <2>3 DEF image_line_join
  <2> QED BY <2>5, <2>6, <2>7, <2>8, ThreeMake
<1> QED BY <1>3, <1>4

-----------------------------------------------------------------------------
(* image_line_map_colors.  A mask is an intermediate vector m: the output is *)
(* fresh of S and m until the mask is freed.                                *)
LEMMA FittingAdds ==
  ASSUME NEW H, Good(H), NEW r, NEW S, NEW s, NEW T, NEW w, Adds(H, r, S, s, T, { w }),
         s.ret # 0 \/ s.failed, NEW p \in 0 .. MaxVectors, OfSize(At(s, p), w)
  PROVE  /\ Adds(H, r, S, And(s, p), T, { w }) /\ Adds(H, r, S, Or(s, p), T, { w })
         /\ And(s, p).ret = s.ret /\ Or(s, p).ret = s.ret
         /\ And(s, p).ret # 0 \/ And(s, p).failed
         /\ Or(s, p).ret # 0 \/ Or(s, p).failed
<1>1. s.ret \in 0 .. MaxVectors /\ Work(H, s, T, { w }) /\ (s.ret # 0 => s.ret \in T)
  BY PointersAreNotZero DEF Adds, Work
<1>2. s.ret # 0 => Fit(At(s, s.ret), At(s, p))
  BY <1>1, WhatIsThere, VectorIsNotNull DEF Fit, OfSize
<1>3. /\ Adds(H, r, S, And(s, p), T, { w }) /\ Adds(H, r, S, Or(s, p), T, { w })
      /\ And(s, p).failed = s.failed /\ Or(s, p).failed = s.failed
      /\ And(s, p).ret = (IF Fit(At(s, s.ret), At(s, p)) THEN s.ret ELSE 0)
      /\ Or(s, p).ret  = (IF Fit(At(s, s.ret), At(s, p)) THEN s.ret ELSE 0)
  BY CombinedAdds
<1> QED BY <1>2, <1>3

LEMMA TurnedAdds ==
  ASSUME NEW H, Good(H), NEW r, NEW S, NEW s, NEW T, NEW w, Adds(H, r, S, s, T, { w }),
         s.ret # 0 \/ s.failed
  PROVE  Adds(H, r, S, Not(s), T, { w }) /\ (Not(s).ret # 0 \/ Not(s).failed)
BY CombinedAdds, PointersAreNotZero

LEMMA CopyOfPartAdds ==
  ASSUME NEW H, Good(H), NEW r, NEW S, NEW w, Work(H, r, S, { w }), NEW p, OfSize(At(r, p), w)
  PROVE  \E T : Adds(H, r, S, Copied(r, p), T, { w })
                /\ (Copied(r, p).ret # 0 \/ Copied(r, p).failed)
BY PartAdds DEF Copied, bit_vector_cpy

LEMMA MaskAdds ==
  ASSUME NEW H, Good(H), NEW r, NEW S, NEW l, NEW w, LineIn(H, l, w), Work(H, r, S, { w }),
         NEW i \in 0 .. 3
  PROVE  \E T : Adds(H, r, S, Mask(r, l, i), T, { w })
                /\ (Mask(r, l, i).ret # 0 \/ Mask(r, l, i).failed)
<1>1. /\ OfSize(At(r, l.msb), w) /\ OfSize(At(r, l.lsb), w)
      /\ l.msb \in 0 .. MaxVectors /\ l.lsb \in 0 .. MaxVectors
  BY PartsAreThere, PointersAreNotZero
<1>2. ASSUME NEW s, NEW T, Adds(H, r, S, s, T, { w })
      PROVE  OfSize(At(s, l.msb), w) /\ OfSize(At(s, l.lsb), w)
  BY <1>2, PartsAreThere DEF Adds
<1>3. CASE i = 0
  <2>1. PICK t : t = Copied(r, l.lsb)
    OBVIOUS
  <2>2. PICK tmp : tmp = Not(t)
    OBVIOUS
  <2>3. PICK T1 : Adds(H, r, S, t, T1, { w }) /\ (t.ret # 0 \/ t.failed)
    BY <1>1, <2>1, CopyOfPartAdds
  <2>4. Adds(H, r, S, tmp, T1, { w }) /\ (tmp.ret # 0 \/ tmp.failed)
    BY <2>2, <2>3, TurnedAdds
  <2>5. CASE tmp.ret = 0
    <3>1. Mask(r, l, i) = tmp
      BY <1>3, <2>1, <2>2, <2>5 DEF Mask
    <3> QED BY <2>4, <3>1
  <2>6. CASE tmp.ret # 0
    <3>1. PICK u : u = Copied(tmp, l.msb)
      OBVIOUS
    <3>2. PICK v : v = Not(u)
      OBVIOUS
    <3>3. PICK mask : mask = And(v, tmp.ret)
      OBVIOUS
    <3>4. PICK T2 : Adds(H, tmp, T1, u, T2, { w }) /\ (u.ret # 0 \/ u.failed)
      <4>1. Work(H, tmp, T1, { w })
        BY <2>4 DEF Adds
      <4> QED BY <1>2, <2>4, <3>1, <4>1, CopyOfPartAdds
    <3>5. Adds(H, tmp, T1, v, T2, { w }) /\ (v.ret # 0 \/ v.failed)
      BY <3>2, <3>4, TurnedAdds
    <3>6. tmp.ret \in T1 /\ T1 = S \cup { tmp.ret } /\ tmp.ret \notin S /\ T1 \subseteq T2
          /\ T2 \subseteq Pointers /\ Work(H, v, T2, { w })
      BY <2>4, <2>6, <3>5 DEF Adds, Work
    <3>7. OfSize(At(v, tmp.ret), w) /\ tmp.ret \in 0 .. MaxVectors
      BY <3>6, WhatIsThere, PointersAreNotZero DEF OfSize
    <3>8. Adds(H, tmp, T1, mask, T2, { w }) /\ (mask.ret # 0 \/ mask.failed)
      BY <3>3, <3>5, <3>7, FittingAdds
    <3>9. PICK f : f = bit_vector_free(mask, { tmp.ret })
      OBVIOUS
    <3>10. Work(H, f, T2 \ { tmp.ret }, { w }) /\ f.ret = mask.ret /\ f.failed = mask.failed
      BY <3>6, <3>8, <3>9, FreedWorks DEF Adds
    <3>11. Adds(H, r, S, f, T2 \ { tmp.ret }, { w })
      BY <2>4, <3>6, <3>8, <3>10 DEF Adds
    <3>12. Mask(r, l, i) = f
      BY <1>3, <2>1, <2>2, <2>6, <3>1, <3>2, <3>3, <3>9 DEF Mask
    <3> QED BY <3>8, <3>10, <3>11, <3>12
  <2> QED BY <2>5, <2>6
<1>4. CASE i = 1
  <2>1. PICK t : t = Copied(r, l.msb)
    OBVIOUS
  <2>2. PICK T : Adds(H, r, S, t, T, { w }) /\ (t.ret # 0 \/ t.failed)
    BY <1>1, <2>1, CopyOfPartAdds
  <2>3. Adds(H, r, S, Not(t), T, { w }) /\ (Not(t).ret # 0 \/ Not(t).failed)
    BY <2>2, TurnedAdds
  <2>4. Mask(r, l, i) = And(Not(t), l.lsb)
    BY <1>4, <2>1 DEF Mask
  <2>5. OfSize(At(Not(t), l.lsb), w)
    BY <1>2, <2>3
  <2>6. /\ Adds(H, r, S, And(Not(t), l.lsb), T, { w })
        /\ And(Not(t), l.lsb).ret # 0 \/ And(Not(t), l.lsb).failed
    BY <1>1, <2>3, <2>5, FittingAdds
  <2> QED BY <2>4, <2>6
<1>5. CASE i = 2
  <2>1. PICK t : t = Copied(r, l.lsb)
    OBVIOUS
  <2>2. PICK T : Adds(H, r, S, t, T, { w }) /\ (t.ret # 0 \/ t.failed)
    BY <1>1, <2>1, CopyOfPartAdds
  <2>3. Adds(H, r, S, Not(t), T, { w }) /\ (Not(t).ret # 0 \/ Not(t).failed)
    BY <2>2, TurnedAdds
  <2>4. Mask(r, l, i) = And(Not(t), l.msb)
    BY <1>5, <2>1 DEF Mask
  <2>5. OfSize(At(Not(t), l.msb), w)
    BY <1>2, <2>3
  <2>6. /\ Adds(H, r, S, And(Not(t), l.msb), T, { w })
        /\ And(Not(t), l.msb).ret # 0 \/ And(Not(t), l.msb).failed
    BY <1>1, <2>3, <2>5, FittingAdds
  <2> QED BY <2>4, <2>6
<1>6. CASE i = 3
  <2>1. PICK t : t = Copied(r, l.lsb)
    OBVIOUS
  <2>2. PICK T : Adds(H, r, S, t, T, { w }) /\ (t.ret # 0 \/ t.failed)
    BY <1>1, <2>1, CopyOfPartAdds
  <2>3. Mask(r, l, i) = And(t, l.msb)
    BY <1>6, <2>1 DEF Mask
  <2>4. OfSize(At(t, l.msb), w)
    BY <1>2, <2>2
  <2>5. /\ Adds(H, r, S, And(t, l.msb), T, { w })
        /\ And(t, l.msb).ret # 0 \/ And(t, l.msb).failed
    BY <1>1, <2>2, <2>4, FittingAdds
  <2> QED BY <2>3, <2>5
<1> QED BY <1>3, <1>4, <1>5, <1>6

LEMMA MergedMakes ==
  ASSUME NEW H, Good(H), NEW r, NEW S, NEW w, NEW m \in S,
         NEW o, NEW T, Makes(H, r, S, o, T, { w }), Exact(S, o, T), NEW part \in { "lsb", "msb" }
  PROVE  \E U : Makes(H, r, S, Merged(o, part, m), U, { w }) /\ Exact(S, Merged(o, part, m), U)
<1>1. CASE o.code # "ERR_NONE"
  BY <1>1 DEF Merged
<1>2. CASE o.code = "ERR_NONE"
  <2>1. PICK q : q = o.line[part]
    OBVIOUS
  <2>2. PICK or : or = Or(On(o.r, q), m)
    OBVIOUS
  <2>3. Work(H, o.r, T, { w }) /\ Fresh(o.line, S, T) /\ (r.failed => o.r.failed) /\ o.line \in ImageLine
    BY DEF Makes, Fresh
  <2>4. part \in Part /\ q \in T \cup { 0 } /\ m \in T /\ T \subseteq Pointers
    BY <2>1, <2>3 DEF Fresh, Part, Work
  <2>5. m \in 0 .. MaxVectors /\ q \in 0 .. MaxVectors
    BY <2>4, PointersAreNotZero
  <2>6. /\ Work(H, or, T, { w }) /\ or.failed = o.r.failed
        /\ or.ret = IF Fit(At(o.r, q), At(o.r, m)) THEN q ELSE 0
    BY <2>2, <2>3, <2>4, <2>5, OnWorks
  <2>7. q # 0 => Fit(At(o.r, q), At(o.r, m))
    BY <2>3, <2>4, <2>5, WhatIsThere, VectorIsNotNull DEF Fit
  <2>8. or.ret = q
    BY <2>6, <2>7
  <2>9. [o.line EXCEPT ![part] = or.ret] = o.line
    BY <2>1, <2>3, <2>8 DEF ImageLine
  <2>10. CASE q # 0
    <3>1. Merged(o, part, m) = Done(or, o.line, "ERR_NONE")
      BY <1>2, <2>1, <2>2, <2>8, <2>9, <2>10 DEF Merged
    <3>2. Makes(H, r, S, Done(or, o.line, "ERR_NONE"), T, { w })
      BY <2>3, <2>6 DEF Makes, Done
    <3>3. Exact(S, Done(or, o.line, "ERR_NONE"), T)
      BY <2>6 DEF Exact, Done
    <3> QED BY <3>1, <3>2, <3>3
  <2>11. CASE q = 0
    <3>1. PICK f : f = image_line_free(or, o.line)
      OBVIOUS
    <3>2. Merged(o, part, m) = Done(f, NoLine, "ERR_MEM")
      BY <1>2, <2>1, <2>2, <2>8, <2>9, <2>11, <3>1 DEF Merged
    <3>3. o.r.failed
      BY <2>1, <2>3, <2>4, <2>11, PartsOfLine DEF Exact
    <3>4. PartsOf(o.line) \subseteq T \cup { 0 } /\ S \cap PartsOf(o.line) \subseteq { 0 }
      BY <2>3, PartsOfLine DEF Fresh
    <3>5. Work(H, f, T \ PartsOf(o.line), { w }) /\ f.failed
      BY <2>6, <3>1, <3>3, <3>4, FreedWorks DEF image_line_free
    <3>6. S \subseteq T \ PartsOf(o.line)
      BY <2>3, <2>4, <3>4, PointersAreNotZero DEF Fresh
    <3>7. Makes(H, r, S, Done(f, NoLine, "ERR_MEM"), T \ PartsOf(o.line), { w })
      BY <3>5, <3>6, NoLineIsFresh DEF Makes, Done
    <3>8. Exact(S, Done(f, NoLine, "ERR_MEM"), T \ PartsOf(o.line))
      BY <3>5 DEF Exact, Done
    <3> QED BY <3>2, <3>7, <3>8
  <2> QED BY <2>10, <2>11
<1>3. o.code \in { "ERR_NONE", "ERR_MEM" }
  BY DEF Makes
<1> QED BY <1>1, <1>2

(* The mask is there, and later freed                                       *)
LEMMA WithMask ==
  ASSUME NEW H, NEW r, NEW S, NEW w, NEW o, NEW T, Makes(H, r, S, o, T, { w }), Exact(S, o, T),
         NEW mask, NEW U, Adds(H, o.r, T, mask, U, { w }), mask.ret # 0,
         o.code = "ERR_NONE"
  PROVE  /\ Makes(H, r, S \cup { mask.ret }, [o EXCEPT !.r = mask], U, { w })
         /\ Exact(S \cup { mask.ret }, [o EXCEPT !.r = mask], U)
         /\ mask.ret \notin S
<1>1. [o EXCEPT !.r = mask] = Done(mask, o.line, o.code)
  BY DEF Makes, Done
<1>2. /\ U = T \cup { mask.ret } /\ mask.ret \notin T /\ Work(H, mask, U, { w })
      /\ (o.r.failed => mask.failed) /\ (r.failed => o.r.failed) /\ S \subseteq T
      /\ Fresh(o.line, S, T)
  BY DEF Adds, Makes, Fresh
<1>3. Fresh(o.line, S \cup { mask.ret }, U)
  BY <1>2 DEF Fresh
<1>4. Makes(H, r, S \cup { mask.ret }, Done(mask, o.line, o.code), U, { w })
  BY <1>2, <1>3 DEF Makes, Done
<1>5. Exact(S \cup { mask.ret }, Done(mask, o.line, o.code), U)
  BY <1>2 DEF Exact, Done
<1> QED BY <1>1, <1>2, <1>4, <1>5

LEMMA WithoutMask ==
  ASSUME NEW H, NEW r, NEW S, NEW w, NEW m, m \notin S, m # 0, NEW o, NEW T,
         Makes(H, r, S \cup { m }, o, T, { w }), Exact(S \cup { m }, o, T)
  PROVE  /\ o.code # "ERR_NONE" => Makes(H, r, S, o, T, { w }) /\ Exact(S, o, T)
         /\ o.code = "ERR_NONE" =>
              /\ Makes(H, r, S, [o EXCEPT !.r = bit_vector_free(o.r, { m })], T \ { m }, { w })
              /\ Exact(S, [o EXCEPT !.r = bit_vector_free(o.r, { m })], T \ { m })
<1>1. /\ Work(H, o.r, T, { w }) /\ Fresh(o.line, S \cup { m }, T) /\ (r.failed => o.r.failed)
      /\ m \in T
  BY DEF Makes, Fresh
<1>2. ASSUME o.code # "ERR_NONE"
      PROVE  Makes(H, r, S, o, T, { w }) /\ Exact(S, o, T)
  <2>1. Fresh(o.line, S, T)
    BY <1>1 DEF Fresh
  <2> QED BY <1>2, <2>1 DEF Makes, Exact
<1>3. ASSUME o.code = "ERR_NONE"
      PROVE  /\ Makes(H, r, S, [o EXCEPT !.r = bit_vector_free(o.r, { m })], T \ { m }, { w })
             /\ Exact(S, [o EXCEPT !.r = bit_vector_free(o.r, { m })], T \ { m })
  <2>1. PICK f : f = bit_vector_free(o.r, { m })
    OBVIOUS
  <2>2. Work(H, f, T \ { m }, { w }) /\ f.failed = o.r.failed
    <3>1. { m } \subseteq T \cup { 0 }
      BY <1>1
    <3> QED BY <1>1, <2>1, <3>1, FreedWorks
  <2>3. [o EXCEPT !.r = f] = Done(f, o.line, o.code)
    BY DEF Makes, Done
  <2>4. Fresh(o.line, S, T \ { m })
    BY <1>1 DEF Fresh
  <2>5. m \notin PartsOf(o.line)
    BY <1>1, PartsOfLine DEF Fresh
  <2>6. Makes(H, r, S, Done(f, o.line, o.code), T \ { m }, { w })
    BY <1>1, <1>3, <2>2, <2>4 DEF Makes, Done
  <2>7. Exact(S, Done(f, o.line, o.code), T \ { m })
    BY <2>2, <2>5 DEF Exact, Done
  <2> QED BY <2>1, <2>3, <2>6, <2>7
<1> QED BY <1>2, <1>3

LEMMA MaskedMakes ==
  ASSUME NEW H, Good(H), NEW r, NEW S, NEW w, NEW o, NEW T, Makes(H, r, S, o, T, { w }), Exact(S, o, T),
         NEW mask, NEW T1, Adds(H, o.r, T, mask, T1, { w }), mask.ret # 0, o.code = "ERR_NONE",
         NEW bit0, NEW bit1
  PROVE  \E U : /\ Makes(H, r, S, Unmasked(Masked(o, mask, bit0, bit1), mask.ret), U, { w })
                /\ Exact(S, Unmasked(Masked(o, mask, bit0, bit1), mask.ret), U)
<1>1. PICK m : m = mask.ret
  OBVIOUS
<1>2. PICK M : M = S \cup { m }
  OBVIOUS
<1>3. PICK both : both = [o EXCEPT !.r = mask]
  OBVIOUS
<1>4. PICK lsb : lsb = IF bit0 THEN Merged(both, "lsb", m) ELSE both
  OBVIOUS
<1>5. PICK msb : msb = IF bit1 THEN Merged(lsb, "msb", m) ELSE lsb
  OBVIOUS
<1>6. Masked(o, mask, bit0, bit1) = msb
  BY <1>1, <1>3, <1>4, <1>5 DEF Masked
<1>7. Makes(H, r, M, both, T1, { w }) /\ Exact(M, both, T1) /\ m \notin S /\ m # 0 /\ m \in M
  BY <1>1, <1>2, <1>3, WithMask
<1>8. PICK T2 : Makes(H, r, M, lsb, T2, { w }) /\ Exact(M, lsb, T2)
  <2>1. CASE bit0
    BY <1>4, <1>7, <2>1, MergedMakes
  <2>2. CASE ~bit0
    BY <1>4, <1>7, <2>2
  <2> QED BY <2>1, <2>2
<1>9. PICK T3 : Makes(H, r, M, msb, T3, { w }) /\ Exact(M, msb, T3)
  <2>1. CASE bit1
    BY <1>5, <1>7, <1>8, <2>1, MergedMakes
  <2>2. CASE ~bit1
    BY <1>5, <1>8, <2>2
  <2> QED BY <2>1, <2>2
<1>10. CASE msb.code # "ERR_NONE"
  <2>1. Makes(H, r, S, msb, T3, { w }) /\ Exact(S, msb, T3)
    BY <1>2, <1>7, <1>9, <1>10, WithoutMask
  <2>2. Unmasked(msb, m) = msb
    BY <1>10 DEF Unmasked
  <2> QED BY <1>1, <1>6, <2>1, <2>2
<1>11. CASE msb.code = "ERR_NONE"
  <2>1. PICK f : f = [msb EXCEPT !.r = bit_vector_free(msb.r, { m })]
    OBVIOUS
  <2>2. Makes(H, r, S, f, T3 \ { m }, { w }) /\ Exact(S, f, T3 \ { m })
    BY <1>2, <1>7, <1>9, <1>11, <2>1, WithoutMask
  <2>3. Unmasked(msb, m) = f
    BY <1>11, <2>1 DEF Unmasked
  <2> QED BY <1>1, <1>6, <2>2, <2>3
<1> QED BY <1>10, <1>11

Whole(H, r, S, o, w) == \E T : Makes(H, r, S, o, T, { w }) /\ Exact(S, o, T)

LEMMA RecolouredIsWhole ==
  ASSUME NEW H, Good(H), NEW r, NEW S, NEW l, NEW w, LineIn(H, l, w), NEW i \in 0 .. 3, NEW map,
         NEW o, Whole(H, r, S, o, w)
  PROVE  Whole(H, r, S, Recoloured(o, l, i, map), w)
<1> SUFFICES ASSUME NEW T, Makes(H, r, S, o, T, { w }), Exact(S, o, T)
             PROVE  \E U : /\ Makes(H, r, S, Recoloured(o, l, i, map), U, { w })
                           /\ Exact(S, Recoloured(o, l, i, map), U)
  BY DEF Whole
<1>1. PICK mask : mask = Mask(o.r, l, i)
  OBVIOUS
<1>2. CASE Recoloured(o, l, i, map) = o
  BY <1>2
<1>3. CASE Recoloured(o, l, i, map) # o
  <2>1. Work(H, o.r, T, { w }) /\ Fresh(o.line, S, T) /\ (r.failed => o.r.failed)
    BY DEF Makes
  <2>2. PICK T1 : Adds(H, o.r, T, mask, T1, { w }) /\ (mask.ret # 0 \/ mask.failed)
    BY <1>1, <2>1, MaskAdds
  <2>3. o.code = "ERR_NONE"
    BY <1>3 DEF Recoloured
  <2>4. CASE mask.ret = 0
    <3>1. PICK f : f = image_line_free(mask, o.line)
      OBVIOUS
    <3>2. Recoloured(o, l, i, map) = Done(f, NoLine, "ERR_MEM")
      BY <1>1, <1>3, <2>4, <3>1 DEF Recoloured
    <3>3. /\ Work(H, mask, T1, { w }) /\ T \subseteq T1 /\ mask.failed
          /\ PartsOf(o.line) \subseteq T1 \cup { 0 } /\ S \cap PartsOf(o.line) \subseteq { 0 }
      BY <2>1, <2>2, <2>4, PartsOfLine DEF Fresh, Adds
    <3>4. Work(H, f, T1 \ PartsOf(o.line), { w }) /\ f.failed
      BY <3>1, <3>3, FreedWorks DEF image_line_free
    <3>5. S \subseteq T1 \ PartsOf(o.line)
      <4>1. 0 \notin S /\ S \subseteq T
        BY <2>1, PointersAreNotZero DEF Fresh, Work
      <4> QED BY <3>3, <4>1
    <3>6. Makes(H, r, S, Done(f, NoLine, "ERR_MEM"), T1 \ PartsOf(o.line), { w })
      BY <3>4, <3>5, <2>1, <2>2, NoLineIsFresh DEF Makes, Done
    <3>7. Exact(S, Done(f, NoLine, "ERR_MEM"), T1 \ PartsOf(o.line))
      BY <3>4 DEF Exact, Done
    <3> QED BY <3>2, <3>6, <3>7
  <2>5. CASE mask.ret # 0
    <3>1. PICK bit0, bit1 : Recoloured(o, l, i, map) = Unmasked(Masked(o, mask, bit0, bit1), mask.ret)
      BY <1>1, <1>3, <2>5, Zenon DEF Recoloured
    <3>2. \E U : /\ Makes(H, r, S, Unmasked(Masked(o, mask, bit0, bit1), mask.ret), U, { w })
                 /\ Exact(S, Unmasked(Masked(o, mask, bit0, bit1), mask.ret), U)
      BY <2>2, <2>3, <2>5, MaskedMakes
    <3> QED BY <3>1, <3>2
  <2> QED BY <2>4, <2>5
<1> QED BY <1>2, <1>3

(* Three copies, unlooked at                                                *)
LEMMA BlankMakes ==
  ASSUME NEW H, NEW r, NEW S, NEW Z,
         NEW a, NEW T1, Adds(H, r, S, a, T1, Z), a.ret # 0 \/ a.failed,
         NEW b, NEW T2, Adds(H, a, T1, b, T2, Z), b.ret # 0 \/ b.failed,
         NEW c, NEW T3, Adds(H, b, T2, c, T3, Z), c.ret # 0 \/ c.failed,
         NEW l, l = [lsb |-> a.ret, msb |-> b.ret, opacity |-> c.ret]
  PROVE  Makes(H, r, S, Done(c, l, "ERR_NONE"), T3, Z) /\ Exact(S, Done(c, l, "ERR_NONE"), T3)
<1>1. Fresh(l, S, T3) /\ (NON_NULL(l) => T3 = S \cup PartsOf(l))
  BY ThreeAreFresh
<1>2. NON_NULL(l) \/ c.failed
  BY DEF NON_NULL, PartsOf, Adds
<1>3. Work(H, c, T3, Z) /\ (r.failed => c.failed)
  BY DEF Adds
<1>4. Makes(H, r, S, Done(c, l, "ERR_NONE"), T3, Z)
  BY <1>1, <1>3 DEF Makes, Done
<1>5. Exact(S, Done(c, l, "ERR_NONE"), T3)
  BY <1>1, <1>2 DEF Exact, Done
<1> QED BY <1>4, <1>5

LEMMA MapColorsMakes ==
  ASSUME NEW H, Good(H), NEW r, NEW S, NEW l, NEW w, LineIn(H, l, w), Work(H, r, S, { w }), NEW map
  PROVE  \E U : /\ Makes(H, r, S, image_line_map_colors(r, l, map), U, { w })
                /\ Exact(S, image_line_map_colors(r, l, map), U)
<1>1. CASE map = DEFAULT_PALETTE
  <2>1. PICK a : a = Copied(r, l.lsb)
    OBVIOUS
  <2>2. PICK b : b = Copied(a, l.msb)
    OBVIOUS
  <2>3. PICK c : c = Copied(b, l.opacity)
    OBVIOUS
  <2>4. ThreeCopied(H, r, S, a, b, c, w)
    BY <2>1, <2>2, <2>3, CopyAdds
  <2>5. PICK T1, T2, T3 :
           /\ Adds(H, r, S, a, T1, { w }) /\ (a.ret # 0 \/ a.failed)
           /\ Adds(H, a, T1, b, T2, { w }) /\ (b.ret # 0 \/ b.failed)
           /\ Adds(H, b, T2, c, T3, { w }) /\ (c.ret # 0 \/ c.failed)
    BY <2>4 DEF ThreeCopied
  <2>6. PICK out : out = [lsb |-> a.ret, msb |-> b.ret, opacity |-> c.ret]
    OBVIOUS
  <2>7. image_line_map_colors(r, l, map) = Done(c, out, "ERR_NONE")
    BY <1>1, <2>1, <2>2, <2>3, <2>6 DEF image_line_map_colors, do_image_line
  <2>8. Makes(H, r, S, Done(c, out, "ERR_NONE"), T3, { w }) /\ Exact(S, Done(c, out, "ERR_NONE"), T3)
    BY <2>5, <2>6, BlankMakes
  <2> QED BY <2>7, <2>8
<1>2. CASE map # DEFAULT_PALETTE
  <2>1. PICK a : a = Created(r, w)
    OBVIOUS
  <2>2. PICK b : b = Created(a, w)
    OBVIOUS
  <2>3. PICK c : c = Copied(b, l.opacity)
    OBVIOUS
  <2>4. OfSize(bit_vector_create(w, 0), w) /\ r.heap[l.lsb].size = w
    BY BlankVector, PartsAreThere DEF OfSize
  <2>5. PICK T1 : Adds(H, r, S, a, T1, { w }) /\ (a.ret # 0 \/ a.failed)
    BY <2>1, <2>4, PartAdds DEF Created
  <2>6. r.heap[l.msb].size = w
    BY PartsAreThere DEF OfSize
  <2>7. PICK T2 : Adds(H, a, T1, b, T2, { w }) /\ (b.ret # 0 \/ b.failed)
    <3>1. Work(H, a, T1, { w })
      BY <2>5 DEF Adds
    <3> QED BY <2>2, <2>4, <3>1, PartAdds DEF Created
  <2>8. PICK T3 : Adds(H, b, T2, c, T3, { w }) /\ (c.ret # 0 \/ c.failed)
    <3>1. Work(H, b, T2, { w })
      BY <2>7 DEF Adds
    <3> QED BY <2>3, <3>1, PartsAreThere, CopyOfPartAdds
  <2>9. PICK out : out = [lsb |-> a.ret, msb |-> b.ret, opacity |-> c.ret]
    OBVIOUS
  <2>10. PICK blank : blank = Done(c, out, "ERR_NONE")
    OBVIOUS
  <2>11. Whole(H, r, S, blank, w)
    <3>1. Makes(H, r, S, blank, T3, { w }) /\ Exact(S, blank, T3)
      BY <2>5, <2>7, <2>8, <2>9, <2>10, BlankMakes
    <3> QED BY <3>1 DEF Whole
  <2>12. PICK o0 : o0 = Recoloured(blank, l, 0, map)
    OBVIOUS
  <2>13. PICK o1 : o1 = Recoloured(o0, l, 1, map)
    OBVIOUS
  <2>14. PICK o2 : o2 = Recoloured(o1, l, 2, map)
    OBVIOUS
  <2>15. Whole(H, r, S, Recoloured(blank, l, 0, map), w)
    BY <2>11, RecolouredIsWhole
  <2>16. Whole(H, r, S, Recoloured(o0, l, 1, map), w)
    BY <2>12, <2>15, RecolouredIsWhole
  <2>17. Whole(H, r, S, Recoloured(o1, l, 2, map), w)
    BY <2>13, <2>16, RecolouredIsWhole
  <2>18. Whole(H, r, S, Recoloured(o2, l, 3, map), w)
    BY <2>14, <2>17, RecolouredIsWhole
  <2>19. image_line_map_colors(r, l, map) = Recoloured(o2, l, 3, map)
    BY <1>2, <2>1, <2>2, <2>3, <2>4, <2>6, <2>9, <2>10, <2>12, <2>13, <2>14
       DEF image_line_map_colors
  <2> QED BY <2>18, <2>19 DEF Whole
<1> QED BY <1>1, <1>2

-----------------------------------------------------------------------------
(* image_line_below_with_opacity, with an opacity of another width, or none, *)
(* and with one that fits                                                   *)
LEMMA CopyThenAnd ==
  ASSUME NEW H, Good(H), NEW r, NEW S, NEW Z, Work(H, r, S, Z), NEW q \in 0 .. MaxVectors,
         At(r, q) # NULL => At(r, q).size \in Z, NEW p \in 0 .. MaxVectors
  PROVE  \E T : /\ Adds(H, r, S, Copied(r, q), T, Z)
                /\ Adds(H, r, S, And(Copied(r, q), p), T, Z)
                /\ Adds(H, r, S, Not(Copied(r, q)), T, Z)
                /\ At(r, q) = NULL => Not(Copied(r, q)).ret = 0
                /\ ~Fit(At(r, q), At(Copied(r, q), p)) => And(Copied(r, q), p).ret = 0
<1>1. PICK c : c = Copied(r, q)
  OBVIOUS
<1>2. PICK T : /\ Adds(H, r, S, c, T, Z)
               /\ IF c.ret = 0 THEN At(r, q) = NULL \/ c.failed
                  ELSE At(c, c.ret) = At(r, q) /\ At(r, q) # NULL
  BY <1>1, CopiedAdds
<1>3. /\ Adds(H, r, S, Not(c), T, Z) /\ Adds(H, r, S, And(c, p), T, Z)
      /\ Not(c).ret = c.ret
      /\ And(c, p).ret = (IF Fit(At(c, c.ret), At(c, p)) THEN c.ret ELSE 0)
  BY <1>2, CombinedAdds
<1>4. At(r, q) = NULL => Not(c).ret = 0
  BY <1>2, <1>3
<1>5. ~Fit(At(r, q), At(c, p)) => And(c, p).ret = 0
  BY <1>2, <1>3
<1> QED BY <1>1, <1>2, <1>3, <1>4, <1>5

(* The five intermediate vectors are freed together                         *)
LEMMA GivenUp ==
  ASSUME NEW H, NEW r, NEW S, NEW Z, NEW n, NEW T1, Adds(H, r, S, n, T1, Z),
         NEW ma, NEW T2, Adds(H, n, T1, ma, T2, Z), NEW la, NEW T3, Adds(H, ma, T2, la, T3, Z),
         NEW mb, NEW T4, Adds(H, la, T3, mb, T4, Z), NEW lb, NEW T5, Adds(H, mb, T4, lb, T5, Z),
         NEW made, made = { n.ret, ma.ret, mb.ret, la.ret, lb.ret },
         NEW f, f = bit_vector_free(lb, made)
  PROVE  Makes(H, r, S, Done(f, NoLine, "ERR_MEM"), T5 \ made, Z) /\ f.failed = lb.failed
<1>1. /\ S \subseteq T1 /\ T1 \subseteq T2 /\ T2 \subseteq T3 /\ T3 \subseteq T4 /\ T4 \subseteq T5
      /\ n.ret = 0 \/ (n.ret \in T1 /\ n.ret \notin S)
      /\ ma.ret = 0 \/ (ma.ret \in T2 /\ ma.ret \notin T1)
      /\ la.ret = 0 \/ (la.ret \in T3 /\ la.ret \notin T2)
      /\ mb.ret = 0 \/ (mb.ret \in T4 /\ mb.ret \notin T3)
      /\ lb.ret = 0 \/ (lb.ret \in T5 /\ lb.ret \notin T4)
  BY DEF Adds
<1>2. Work(H, lb, T5, Z) /\ (r.failed => lb.failed)
  BY DEF Adds
<1>3. made \subseteq T5 \cup { 0 } /\ S \cap made \subseteq { 0 } /\ S \subseteq T5
  BY <1>1
<1>4. Work(H, f, T5 \ made, Z) /\ f.failed = lb.failed
  BY <1>2, <1>3, FreedWorks
<1>5. S \subseteq T5 \ made
  BY <1>2, <1>3, PointersAreNotZero DEF Work
<1>6. Makes(H, r, S, Done(f, NoLine, "ERR_MEM"), T5 \ made, Z)
  BY <1>2, <1>4, <1>5, NoLineIsFresh DEF Makes, Done
<1> QED BY <1>4, <1>6

(* An opacity of another width: nothing is drawn                            *)
LEMMA BelowIsRefused ==
  ASSUME NEW H, Good(H), NEW r, NEW S, NEW l1, NEW l2, NEW w, LineIn(H, l1, w), LineIn(H, l2, w),
         Work(H, r, S, Nat),
         NEW p \in 0 .. MaxVectors, p = 0 \/ (H[p] # NULL /\ H[p].size # w)
  PROVE  \E U : /\ Makes(H, r, S, image_line_below_with_opacity(r, l1, l2, p), U, Nat)
                /\ image_line_below_with_opacity(r, l1, l2, p).code = "ERR_MEM"
<1>1. PICK n : n = Not(Copied(r, p))
  OBVIOUS
<1>2. PICK c : c = Copied(n, l2.msb)
  OBVIOUS
<1>3. PICK ma : ma = And(c, p)
  OBVIOUS
<1>4. PICK la : la = And(Copied(ma, l2.lsb), p)
  OBVIOUS
<1>5. PICK mb : mb = And(Copied(la, l1.msb), n.ret)
  OBVIOUS
<1>6. PICK lb : lb = And(Copied(mb, l1.lsb), n.ret)
  OBVIOUS
<1>7. /\ l1.msb \in 0 .. MaxVectors /\ l1.lsb \in 0 .. MaxVectors
      /\ l2.msb \in 0 .. MaxVectors /\ l2.lsb \in 0 .. MaxVectors
  BY PartsOfLine DEF LineIn
<1>8. ASSUME NEW s, NEW T, Work(H, s, T, Nat), NEW q \in 0 .. MaxVectors
       PROVE  At(s, q) # NULL => At(s, q).size \in Nat
  BY <1>8, WhatIsThere, SizeOfVector
<1>9. PICK T1 : Adds(H, r, S, n, T1, Nat) /\ (At(r, p) = NULL => n.ret = 0)
  BY <1>1, <1>8, CopyThenAnd
<1>10. Work(H, n, T1, Nat) /\ n.ret \in 0 .. MaxVectors
  BY <1>9, PointersAreNotZero DEF Adds, Work
<1>11. PICK T2 : /\ Adds(H, n, T1, c, T2, Nat) /\ Adds(H, n, T1, ma, T2, Nat)
                 /\ ~Fit(At(n, l2.msb), At(c, p)) => ma.ret = 0
  BY <1>2, <1>3, <1>7, <1>10, <1>8, CopyThenAnd
<1>12. PICK T3 : Adds(H, ma, T2, la, T3, Nat)
  <2>1. Work(H, ma, T2, Nat)
    BY <1>11 DEF Adds
  <2> QED BY <1>4, <1>7, <1>8, <2>1, CopyThenAnd
<1>13. PICK T4 : Adds(H, la, T3, mb, T4, Nat)
  <2>1. Work(H, la, T3, Nat)
    BY <1>12 DEF Adds
  <2> QED BY <1>5, <1>7, <1>10, <1>8, <2>1, CopyThenAnd
<1>14. PICK T5 : Adds(H, mb, T4, lb, T5, Nat)
  <2>1. Work(H, mb, T4, Nat)
    BY <1>13 DEF Adds
  <2> QED BY <1>6, <1>7, <1>10, <1>8, <2>1, CopyThenAnd
<1>15. PICK made : made = { n.ret, ma.ret, mb.ret, la.ret, lb.ret }
  OBVIOUS
<1>16. 0 \in made
  <2>1. CASE p = 0
    BY <1>9, <1>15, <2>1 DEF At
  <2>2. CASE p # 0
    <3>1. At(c, p) = H[p]
      BY <1>11, <2>2, WhatIsThere, PointersAreNotZero DEF Adds
    <3>2. At(n, l2.msb).size = w
      BY <1>10, PartsAreThere DEF OfSize
    <3>3. ~Fit(At(n, l2.msb), At(c, p))
      BY <2>2, <3>1, <3>2 DEF Fit
    <3> QED BY <1>11, <1>15, <3>3
  <2> QED BY <2>1, <2>2
<1>17. PICK f : f = bit_vector_free(lb, made)
  OBVIOUS
<1>18. image_line_below_with_opacity(r, l1, l2, p) = Done(f, NoLine, "ERR_MEM")
  BY <1>1, <1>2, <1>3, <1>4, <1>5, <1>6, <1>15, <1>16, <1>17 DEF image_line_below_with_opacity
<1>19. Makes(H, r, S, Done(f, NoLine, "ERR_MEM"), T5 \ made, Nat)
  BY <1>9, <1>11, <1>12, <1>13, <1>14, <1>15, <1>17, GivenUp
<1> QED BY <1>18, <1>19 DEF Done

(* A part of the lines drawn, or a copy made by now                          *)
Lasting(H, S, p, w) == p \in Pointers /\ (p \in S \/ OfSize(H[p], w))

LEMMA StillThere ==
  ASSUME NEW H, Good(H), NEW S, NEW p, NEW w, Lasting(H, S, p, w),
         NEW s, NEW T, Work(H, s, T, { w }), S \subseteq T
  PROVE  OfSize(At(s, p), w) /\ p \in 0 .. MaxVectors
<1>1. p \in 0 .. MaxVectors
  BY PointersAreNotZero DEF Lasting
<1>2. CASE p \in S
  BY <1>1, <1>2, WhatIsThere DEF OfSize
<1>3. CASE OfSize(H[p], w)
  BY <1>1, <1>3, WhatIsThere, VectorIsNotNull DEF OfSize, Lasting
<1> QED BY <1>1, <1>2, <1>3 DEF Lasting

Gives(H, r, S, s, T, w) == Adds(H, r, S, s, T, { w }) /\ (s.ret # 0 \/ s.failed)

LEMMA CopyThenFit ==
  ASSUME NEW H, Good(H), NEW r, NEW S, NEW w, Work(H, r, S, { w }),
         NEW q, Lasting(H, S, q, w), NEW p, Lasting(H, S, p, w)
  PROVE  /\ \E T : Gives(H, r, S, And(Copied(r, q), p), T, w)
         /\ \E T : Gives(H, r, S, Or(Copied(r, q), p), T, w)
<1>1. OfSize(At(r, q), w)
  BY StillThere
<1>2. PICK T : Adds(H, r, S, Copied(r, q), T, { w }) /\ (Copied(r, q).ret # 0 \/ Copied(r, q).failed)
  BY <1>1, CopyOfPartAdds
<1>3. Work(H, Copied(r, q), T, { w }) /\ S \subseteq T
  BY <1>2 DEF Adds
<1>4. OfSize(At(Copied(r, q), p), w) /\ p \in 0 .. MaxVectors
  BY <1>3, StillThere
<1>5. /\ Adds(H, r, S, And(Copied(r, q), p), T, { w }) /\ Adds(H, r, S, Or(Copied(r, q), p), T, { w })
      /\ And(Copied(r, q), p).ret # 0 \/ And(Copied(r, q), p).failed
      /\ Or(Copied(r, q), p).ret # 0 \/ Or(Copied(r, q), p).failed
  BY <1>2, <1>4, FittingAdds
<1> QED BY <1>5 DEF Gives

(* The copy of the opacity may be missing                                    *)
LEMMA CopyThenMaybe ==
  ASSUME NEW H, Good(H), NEW r, NEW S, NEW w, Work(H, r, S, { w }),
         NEW q, Lasting(H, S, q, w), NEW p, (p \in S) \/ (p = 0 /\ r.failed)
  PROVE  \E T : Gives(H, r, S, And(Copied(r, q), p), T, w)
<1>1. CASE p \in S
  <2>1. Lasting(H, S, p, w)
    BY <1>1 DEF Lasting, Work
  <2> QED BY <2>1, CopyThenFit
<1>2. CASE p = 0 /\ r.failed
  <2>1. At(r, q).size \in { w } /\ q \in 0 .. MaxVectors
    BY StillThere DEF OfSize
  <2>2. p \in 0 .. MaxVectors
    BY <1>2, PointersAreNotZero
  <2>3. PICK T : Adds(H, r, S, And(Copied(r, q), p), T, { w })
    BY <2>1, <2>2, CopyThenAnd
  <2> QED BY <1>2, <2>3 DEF Adds, Gives
<1> QED BY <1>1, <1>2

Changes(H, r, S, s, w, q) == Work(H, s, S, { w }) /\ s.failed = r.failed /\ s.ret = q

LEMMA MergedInPlace ==
  ASSUME NEW H, Good(H), NEW r, NEW S, NEW w, Work(H, r, S, { w }),
         NEW q, q \in S, NEW p, p \in S, NEW s, s = Or(On(r, q), p)
  PROVE  Changes(H, r, S, s, w, q)
<1>1. p \in 0 .. MaxVectors /\ q \in 0 .. MaxVectors
  BY PointersAreNotZero DEF Work
<1>2. Fit(At(r, q), At(r, p))
  BY <1>1, WhatIsThere, VectorIsNotNull DEF Fit
<1> QED BY <1>1, <1>2, OnWorks DEF Changes

LEMMA LastingParts ==
  ASSUME NEW H, NEW l, NEW w, LineIn(H, l, w)
  PROVE  \A q \in PartsOf(l) : q \in Pointers /\ OfSize(H[q], w)
<1>1. l \in ImageLine /\ NON_NULL(l) /\ \A i \in Part : OfSize(H[l[i]], w)
  BY DEF LineIn, OfSize
<1>2. \A i \in Part : l[i] \in Pointers
  BY <1>1, PartsOfLine, PointersAreNotZero DEF Part
<1> QED BY <1>1, <1>2, PartsOfLine

LEMMA BelowMakes ==
  ASSUME NEW H, Good(H), NEW r, NEW S, NEW l1, NEW l2, NEW w, LineIn(H, l1, w), LineIn(H, l2, w),
         Work(H, r, S, { w }), NEW p \in Pointers, OfSize(H[p], w)
  PROVE  \E U : /\ Makes(H, r, S, image_line_below_with_opacity(r, l1, l2, p), U, { w })
                /\ Exact(S, image_line_below_with_opacity(r, l1, l2, p), U)
<1>1. PICK n : n = Not(Copied(r, p))
  OBVIOUS
<1>2. PICK ma : ma = And(Copied(n, l2.msb), p)
  OBVIOUS
<1>3. PICK la : la = And(Copied(ma, l2.lsb), p)
  OBVIOUS
<1>4. PICK mb : mb = And(Copied(la, l1.msb), n.ret)
  OBVIOUS
<1>5. PICK lb : lb = And(Copied(mb, l1.lsb), n.ret)
  OBVIOUS
<1>6. PICK made : made = { n.ret, ma.ret, mb.ret, la.ret, lb.ret }
  OBVIOUS
<1>7. ASSUME NEW T
      PROVE  /\ Lasting(H, T, p, w) /\ Lasting(H, T, l1.msb, w) /\ Lasting(H, T, l1.lsb, w)
             /\ Lasting(H, T, l1.opacity, w) /\ Lasting(H, T, l2.msb, w) /\ Lasting(H, T, l2.lsb, w)
  BY LastingParts DEF Lasting, PartsOf
<1>8. PICK T1 : Adds(H, r, S, n, T1, { w }) /\ (n.ret # 0 \/ n.failed)
  <2>1. OfSize(At(r, p), w)
    BY <1>7, StillThere
  <2>2. PICK T : Adds(H, r, S, Copied(r, p), T, { w }) /\ (Copied(r, p).ret # 0 \/ Copied(r, p).failed)
    BY <2>1, CopyOfPartAdds
  <2> QED BY <1>1, <2>2, TurnedAdds
<1>9. Work(H, n, T1, { w })
  BY <1>8 DEF Adds
<1>10. PICK T2 : Adds(H, n, T1, ma, T2, { w }) /\ (ma.ret # 0 \/ ma.failed)
  <2>1. \E T : Gives(H, n, T1, And(Copied(n, l2.msb), p), T, w)
    BY <1>7, <1>9, CopyThenFit
  <2> QED BY <1>2, <2>1 DEF Gives
<1>11. Work(H, ma, T2, { w })
  BY <1>10 DEF Adds
<1>12. PICK T3 : Adds(H, ma, T2, la, T3, { w }) /\ (la.ret # 0 \/ la.failed)
  <2>1. \E T : Gives(H, ma, T2, And(Copied(ma, l2.lsb), p), T, w)
    BY <1>7, <1>11, CopyThenFit
  <2> QED BY <1>3, <2>1 DEF Gives
<1>13. Work(H, la, T3, { w }) /\ (n.ret \in T3 \/ (n.ret = 0 /\ la.failed))
  BY <1>8, <1>10, <1>12 DEF Adds
<1>14. PICK T4 : Adds(H, la, T3, mb, T4, { w }) /\ (mb.ret # 0 \/ mb.failed)
  <2>1. \E T : Gives(H, la, T3, And(Copied(la, l1.msb), n.ret), T, w)
    BY <1>7, <1>13, CopyThenMaybe
  <2> QED BY <1>4, <2>1 DEF Gives
<1>15. Work(H, mb, T4, { w }) /\ (n.ret \in T4 \/ (n.ret = 0 /\ mb.failed))
  BY <1>13, <1>14 DEF Adds
<1>16. PICK T5 : Adds(H, mb, T4, lb, T5, { w }) /\ (lb.ret # 0 \/ lb.failed)
  <2>1. \E T : Gives(H, mb, T4, And(Copied(mb, l1.lsb), n.ret), T, w)
    BY <1>7, <1>15, CopyThenMaybe
  <2> QED BY <1>5, <2>1 DEF Gives
<1>17. PICK f : f = bit_vector_free(lb, made)
  OBVIOUS
<1>18. CASE 0 \in made
  <2>1. image_line_below_with_opacity(r, l1, l2, p) = Done(f, NoLine, "ERR_MEM")
    BY <1>1, <1>2, <1>3, <1>4, <1>5, <1>6, <1>17, <1>18 DEF image_line_below_with_opacity
  <2>2. Makes(H, r, S, Done(f, NoLine, "ERR_MEM"), T5 \ made, { w }) /\ f.failed = lb.failed
    BY <1>6, <1>8, <1>10, <1>12, <1>14, <1>16, <1>17, GivenUp
  <2>3. lb.failed
    BY <1>6, <1>8, <1>10, <1>12, <1>14, <1>16, <1>18 DEF Adds
  <2>4. Exact(S, Done(f, NoLine, "ERR_MEM"), T5 \ made)
    BY <2>2, <2>3 DEF Exact, Done
  <2> QED BY <2>1, <2>2, <2>4
<1>19. CASE 0 \notin made
  <2>1. /\ n.ret # 0 /\ ma.ret # 0 /\ la.ret # 0 /\ mb.ret # 0 /\ lb.ret # 0
        /\ S \subseteq T5 /\ T5 = S \cup made /\ S \cap made = {}
        /\ mb.ret \notin { n.ret, ma.ret, la.ret } /\ lb.ret \notin { n.ret, ma.ret, la.ret, mb.ret }
    BY <1>6, <1>8, <1>10, <1>12, <1>14, <1>16, <1>19 DEF Adds
  <2>2. Work(H, lb, T5, { w }) /\ (r.failed => lb.failed) /\ T5 \subseteq Pointers
    BY <1>8, <1>10, <1>12, <1>14, <1>16 DEF Adds, Work
  <2>3. PICK msb : msb = Or(On(lb, mb.ret), ma.ret)
    OBVIOUS
  <2>4. PICK lsb : lsb = Or(On(msb, lb.ret), la.ret)
    OBVIOUS
  <2>5. /\ ma.ret \in T5 /\ mb.ret \in T5 /\ la.ret \in T5 /\ lb.ret \in T5
    BY <1>6, <2>1
  <2>6. Work(H, msb, T5, { w }) /\ msb.ret = mb.ret /\ msb.failed = lb.failed
    <3>1. PICK x, y : x = mb.ret /\ y = ma.ret
      OBVIOUS
    <3>2. x \in T5 /\ y \in T5 /\ msb = Or(On(lb, x), y)
      BY <2>3, <2>5, <3>1
    <3>3. Work(H, lb, T5, { w })
      BY <2>2
    <3>4. Changes(H, lb, T5, msb, w, x)
      BY <3>2, <3>3, MergedInPlace
    <3> QED BY <3>1, <3>4 DEF Changes
  <2>7. Work(H, lsb, T5, { w }) /\ lsb.ret = lb.ret /\ lsb.failed = lb.failed
    <3>1. PICK x, y : x = lb.ret /\ y = la.ret
      OBVIOUS
    <3>2. x \in T5 /\ y \in T5 /\ lsb = Or(On(msb, x), y)
      BY <2>4, <2>5, <3>1
    <3>3. Work(H, msb, T5, { w })
      BY <2>6
    <3>4. Changes(H, msb, T5, lsb, w, x)
      BY <3>2, <3>3, MergedInPlace
    <3> QED BY <2>6, <3>1, <3>4 DEF Changes
  <2>8. PICK op : op = Or(Copied(lsb, l1.opacity), p)
    OBVIOUS
  <2>9. PICK T6 : Adds(H, lsb, T5, op, T6, { w }) /\ (op.ret # 0 \/ op.failed)
    <3>1. \E T : Gives(H, lsb, T5, Or(Copied(lsb, l1.opacity), p), T, w)
      BY <1>7, <2>7, CopyThenFit
    <3> QED BY <2>8, <3>1 DEF Gives
  <2>10. PICK spent : spent = { n.ret, ma.ret, la.ret }
    OBVIOUS
  <2>11. PICK g : g = bit_vector_free(op, spent)
    OBVIOUS
  <2>12. PICK out : out = [msb |-> mb.ret, lsb |-> lb.ret, opacity |-> op.ret]
    OBVIOUS
  <2>13. image_line_below_with_opacity(r, l1, l2, p) = Done(g, out, "ERR_NONE")
    <3>1. Spent(n, ma, la) = spent
      BY <2>10 DEF Spent
    <3> QED BY <1>1, <1>2, <1>3, <1>4, <1>5, <1>6, <1>19, <2>3, <2>4, <2>6, <2>7, <2>8, <2>11, <2>12, <3>1
        DEF image_line_below_with_opacity
  <2>14. /\ Work(H, op, T6, { w }) /\ T5 \subseteq T6 /\ T6 \subseteq Pointers
         /\ (lsb.failed => op.failed)
         /\ \/ op.ret = 0
            \/ op.ret \notin T5 /\ T6 = T5 \cup { op.ret }
    BY <2>9 DEF Adds, Work
  <2>15. Work(H, g, T6 \ spent, { w }) /\ g.failed = op.failed
    <3>1. spent \subseteq T6 \cup { 0 }
      BY <1>6, <2>1, <2>10, <2>14
    <3> QED BY <2>11, <2>14, <3>1, FreedWorks
  <2>16. Fresh(out, S, T6 \ spent)
    <3>1. out \in ImageLine
      BY <2>2, <2>5, <2>12, <2>14, PointersAreNotZero DEF ImageLine
    <3>2. out["msb"] = mb.ret /\ out["lsb"] = lb.ret /\ out["opacity"] = op.ret
      BY <2>12
    <3>3. S \subseteq T6 \ spent
      BY <1>6, <2>1, <2>10, <2>14
    <3>4. \A i \in Part : out[i] # 0 => out[i] \in T6 \ spent /\ out[i] \notin S
      BY <1>6, <2>1, <2>5, <2>10, <2>14, <3>2 DEF Part
    <3>5. \A i, j \in Part : i # j /\ out[i] # 0 => out[i] # out[j]
      BY <2>1, <2>5, <2>14, <3>2 DEF Part
    <3> QED BY <3>1, <3>3, <3>4, <3>5 DEF Fresh
  <2>17. Makes(H, r, S, Done(g, out, "ERR_NONE"), T6 \ spent, { w })
    BY <2>2, <2>7, <2>14, <2>15, <2>16 DEF Makes, Done
  <2>18. Exact(S, Done(g, out, "ERR_NONE"), T6 \ spent)
    <3>1. ASSUME ~op.failed
          PROVE  0 \notin { out.msb, out.lsb, out.opacity }
                 /\ T6 \ spent = S \cup { out.msb, out.lsb, out.opacity }
      BY <1>6, <2>1, <2>9, <2>10, <2>12, <2>14, <3>1
    <3> QED BY <2>15, <3>1 DEF Exact, Done, NON_NULL, PartsOf
  <2> QED BY <2>13, <2>17, <2>18
<1> QED BY <1>18, <1>19

-----------------------------------------------------------------------------
(* Induction over Nat, for a set: the library's takes an operator           *)
Less == { ss \in Nat \X Nat : ss[1] < ss[2] }

LEMMA LessWF == IsWellFoundedOn(Less, Nat)
BY NatLessThanWellFounded DEF OpToRel, Less

LEMMA Least ==
  ASSUME NEW T, T \subseteq Nat, T # {}
  PROVE  \E n \in T : \A m \in T : n <= m
<1>1. PICK n \in T : \A m \in T : ~(<< m, n >> \in Less)
  BY LessWF, WFMin
<1>2. \A m \in T : n <= m
  <2>1. TAKE m \in T
  <2>2. m \in Nat /\ n \in Nat /\ << m, n >> \notin Less
    BY <1>1
  <2>3. ~(m < n)
    BY <2>2 DEF Less
  <2> QED BY <2>2, <2>3
<1> QED BY <1>2

LEMMA ByInduction ==
  ASSUME NEW T, T \subseteq Nat, 0 \in T, \A n \in Nat : n \in T => n + 1 \in T
  PROVE  T = Nat
<1> SUFFICES ASSUME Nat \ T # {} PROVE FALSE
  OBVIOUS
<1>1. PICK n \in Nat \ T : \A m \in Nat \ T : n <= m
  BY Least
<1>2. n # 0 /\ n - 1 \in Nat
  BY <1>1
<1>3. n - 1 \in T
  BY <1>1, <1>2
<1> QED BY <1>1, <1>2, <1>3

(* image_create goes from row to row                                        *)
RowAt(g, o, y, width) == IF y = 0 THEN o ELSE Row(g[y - 1], y - 1, width)
RowsTo(g, o, n, width) == g = [y \in 0 .. n |-> RowAt(g, o, y, width)]

LEMMA RowsExist ==
  ASSUME NEW o, NEW width, NEW n \in Nat
  PROVE  \E g : RowsTo(g, o, n, width)
<1>1. PICK T : T = { k \in Nat : \E g : RowsTo(g, o, k, width) }
  OBVIOUS
<1>2. 0 \in T
  <2>1. PICK g : g = [y \in 0 .. 0 |-> o]
    OBVIOUS
  <2>2. g = [y \in 0 .. 0 |-> RowAt(g, o, y, width)]
    BY <2>1 DEF RowAt
  <2> QED BY <1>1, <2>2 DEF RowsTo
<1>3. ASSUME NEW k \in Nat, k \in T
      PROVE  k + 1 \in T
  <2>1. PICK g : RowsTo(g, o, k, width)
    BY <1>1, <1>3
  <2>2. PICK f : f = [y \in 0 .. k + 1 |-> IF y = k + 1 THEN Row(g[k], k, width) ELSE g[y]]
    OBVIOUS
  <2>3. ASSUME NEW y \in 0 .. k + 1
        PROVE  f[y] = RowAt(f, o, y, width)
    <3>1. CASE y = k + 1
      <4>1. f[y] = Row(g[k], k, width) /\ f[k] = g[k] /\ y # 0 /\ y - 1 = k
        BY <2>2, <3>1
      <4> QED BY <4>1 DEF RowAt
    <3>2. CASE y # k + 1
      <4>1. y \in 0 .. k /\ f[y] = g[y] /\ (y # 0 => y - 1 \in 0 .. k + 1 /\ y - 1 # k + 1)
        BY <2>2, <3>2
      <4>2. y # 0 => f[y - 1] = g[y - 1]
        BY <2>2, <4>1
      <4>3. g[y] = RowAt(g, o, y, width)
        BY <2>1, <4>1 DEF RowsTo
      <4> QED BY <4>1, <4>2, <4>3 DEF RowAt
    <3> QED BY <3>1, <3>2
  <2>4. f = [y \in 0 .. k + 1 |-> f[y]]
    BY <2>2
  <2>5. RowsTo(f, o, k + 1, width)
    BY <2>3, <2>4 DEF RowsTo
  <2> QED BY <1>1, <2>5
<1>4. T = Nat
  BY <1>1, <1>2, <1>3, ByInduction
<1> QED BY <1>1, <1>4

LEMMA RowsInTurn ==
  ASSUME NEW o, NEW width, NEW height \in Nat
  PROVE  \E g : /\ g[0] = o /\ Rows(o, width, height) = g[height]
                /\ \A y \in 0 .. height - 1 : g[y + 1] = Row(g[y], y, width)
<1>1. PICK g : g = CHOOSE f : f = [y \in 0 .. height |-> IF y = 0 THEN o ELSE Row(f[y - 1], y - 1, width)]
  OBVIOUS
<1>2. Rows(o, width, height) = g[height]
  BY <1>1 DEF Rows
<1>3. PICK f : RowsTo(f, o, height, width)
  BY RowsExist
<1>4. f = [y \in 0 .. height |-> IF y = 0 THEN o ELSE Row(f[y - 1], y - 1, width)]
  BY <1>3 DEF RowsTo, RowAt
<1>5. g = [y \in 0 .. height |-> IF y = 0 THEN o ELSE Row(g[y - 1], y - 1, width)]
  BY <1>1, <1>4
<1>6. g[0] = o
  BY <1>5
<1>7. ASSUME NEW y \in 0 .. height - 1
      PROVE  g[y + 1] = Row(g[y], y, width)
  <2>1. y + 1 \in 0 .. height /\ y + 1 # 0 /\ (y + 1) - 1 = y
    OBVIOUS
  <2> QED BY <1>5, <2>1
<1> QED BY <1>2, <1>6, <1>7

(* The rows made so far: as many lines, none sharing a vector               *)
Disjoint(l, m) == \A i, j \in Part : l[i] # 0 => l[i] # m[j]

Made(H, o, T, width, height) ==
  /\ Work(H, o.r, T, { width }) /\ o.content \in [0 .. height - 1 -> ImageLine]
  /\ \A y \in 0 .. height - 1 : Fresh(o.content[y], {}, T)
  /\ \A y, z \in 0 .. height - 1 : y # z => Disjoint(o.content[y], o.content[z])
  /\ o.code \in { "ERR_NONE", "ERR_MEM" } /\ (o.code # "ERR_NONE" => o.r.failed)
  /\ ~o.r.failed => \A p \in T : \E y \in 0 .. height - 1 : p \in PartsOf(o.content[y])

Blank(o, n, height) == \A y \in 0 .. height - 1 : y >= n => o.content[y] = NoLine

LEMMA DisjointLines ==
  ASSUME NEW l \in ImageLine, NEW m \in ImageLine
  PROVE  /\ Disjoint(l, m) => Disjoint(m, l)
         /\ Disjoint(NoLine, l) /\ Disjoint(l, NoLine)
         /\ \A S, T, U : Fresh(l, {}, S) /\ Fresh(m, S, T) => Disjoint(l, m)
<1>1. \A i \in Part : NoLine[i] = 0
  BY NoLineIsFresh
<1>2. Disjoint(l, m) => Disjoint(m, l)
  BY DEF Disjoint
<1>3. Disjoint(NoLine, l) /\ Disjoint(l, NoLine)
  BY <1>1 DEF Disjoint
<1>4. ASSUME NEW S, NEW T, Fresh(l, {}, S), Fresh(m, S, T)
      PROVE  Disjoint(l, m)
  BY <1>4 DEF Fresh, Disjoint
<1> QED BY <1>2, <1>3, <1>4

LEMMA FreshGrows ==
  ASSUME NEW l, NEW S, NEW T, Fresh(l, {}, S), S \subseteq T
  PROVE  Fresh(l, {}, T)
BY DEF Fresh

LEMMA PartOfFresh ==
  ASSUME NEW l, NEW S, NEW T, Fresh(l, S, T)
  PROVE  l \in ImageLine /\ PartsOf(l) \subseteq T \cup { 0 } /\ Fresh(l, {}, T)
<1>1. l \in ImageLine
  BY DEF Fresh
<1>2. PartsOf(l) \subseteq T \cup { 0 }
  BY <1>1, PartsOfLine DEF Fresh
<1>3. Fresh(l, {}, T)
  BY DEF Fresh
<1> QED BY <1>1, <1>2, <1>3

LEMMA RowIsMade ==
  ASSUME NEW H, Good(H), NEW width \in Nat \ {0}, NEW height \in Nat,
         NEW o, NEW T, Made(H, o, T, width, height),
         NEW n \in 0 .. height - 1, o.code = "ERR_NONE" => Blank(o, n, height)
  PROVE  \E U : /\ Made(H, Row(o, n, width), U, width, height)
                /\ Row(o, n, width).code = "ERR_NONE" => Blank(Row(o, n, width), n + 1, height)
<1>1. CASE o.code # "ERR_NONE"
  <2>1. Row(o, n, width) = o
    BY <1>1 DEF Row
  <2> QED BY <1>1, <2>1
<1>2. CASE o.code = "ERR_NONE"
  <2>1. PICK l : l = image_line_create(o.r, width)
    OBVIOUS
  <2>2. Work(H, o.r, T, { width })
    BY DEF Made
  <2>3. PICK U : Makes(H, o.r, T, l, U, { width }) /\ Exact(T, l, U)
    BY <2>1, <2>2, CreateMakes
  <2>4. PICK q : q = [r |-> l.r, content |-> [o.content EXCEPT ![n] = l.line], code |-> l.code]
    OBVIOUS
  <2>5. Row(o, n, width) = q
    BY <1>2, <2>1, <2>4 DEF Row
  <2>6. /\ Work(H, l.r, U, { width }) /\ Fresh(l.line, T, U) /\ T \subseteq U
        /\ (o.r.failed => l.r.failed) /\ l.code \in { "ERR_NONE", "ERR_MEM" }
    BY <2>3 DEF Makes, Fresh
  <2>7. /\ q.r = l.r /\ q.code = l.code /\ q.content = [o.content EXCEPT ![n] = l.line]
    BY <2>4
  <2>8. o.content \in [0 .. height - 1 -> ImageLine]
    BY DEF Made
  <2>9. l.line \in ImageLine /\ Fresh(l.line, {}, U)
    BY <2>6, PartOfFresh
  <2>10. /\ q.content \in [0 .. height - 1 -> ImageLine] /\ q.content[n] = l.line
         /\ \A y \in 0 .. height - 1 : y # n => q.content[y] = o.content[y]
    BY <2>7, <2>8, <2>9
  <2>11. ASSUME NEW y \in 0 .. height - 1
         PROVE  /\ Fresh(q.content[y], {}, U)
                /\ y # n => Disjoint(l.line, q.content[y]) /\ Disjoint(q.content[y], l.line)
    <3>1. Fresh(o.content[y], {}, T) /\ o.content[y] \in ImageLine
      BY <2>8 DEF Made
    <3>2. Fresh(o.content[y], {}, U)
      BY <2>6, <3>1, FreshGrows
    <3>3. Disjoint(o.content[y], l.line) /\ Disjoint(l.line, o.content[y])
      BY <2>6, <2>9, <3>1, DisjointLines
    <3> QED BY <2>9, <2>10, <3>2, <3>3
  <2>12. ASSUME NEW y \in 0 .. height - 1, NEW z \in 0 .. height - 1, y # z
         PROVE  Disjoint(q.content[y], q.content[z])
    <3>1. Disjoint(o.content[y], o.content[z])
      BY <2>12 DEF Made
    <3> QED BY <2>10, <2>11, <2>12, <3>1
  <2>13. q.code # "ERR_NONE" => q.r.failed
    BY <2>3, <2>7 DEF Exact
  <2>14. ASSUME ~q.r.failed, NEW p \in U
         PROVE  \E y \in 0 .. height - 1 : p \in PartsOf(q.content[y])
    <3>1. U = T \cup PartsOf(l.line) /\ ~o.r.failed
      BY <2>3, <2>6, <2>7, <2>14 DEF Exact
    <3>2. CASE p \in PartsOf(l.line)
      BY <2>10, <3>2
    <3>3. CASE p \in T
      <4>1. PICK y \in 0 .. height - 1 : p \in PartsOf(o.content[y])
        BY <3>1, <3>3 DEF Made
      <4>2. y # n
        <5>1. o.content[n] = NoLine
          BY <1>2 DEF Blank
        <5>2. p # 0
          BY <2>2, <3>3, PointersAreNotZero DEF Work
        <5> QED BY <4>1, <5>1, <5>2 DEF PartsOf, NoLine
      <4> QED BY <2>10, <4>1, <4>2
    <3> QED BY <3>1, <3>2, <3>3
  <2>15. Made(H, q, U, width, height)
    BY <2>6, <2>7, <2>10, <2>11, <2>12, <2>13, <2>14 DEF Made
  <2>16. Blank(q, n + 1, height)
    <3>1. Blank(o, n, height)
      BY <1>2
    <3> QED BY <2>10, <3>1 DEF Blank
  <2> QED BY <2>5, <2>15, <2>16
<1> QED BY <1>1, <1>2

LEMMA RowsAreMade ==
  ASSUME NEW H, Good(H), NEW width \in Nat \ {0}, NEW height \in Nat,
         NEW o, NEW S, Made(H, o, S, width, height), Blank(o, 0, height)
  PROVE  \E T : Made(H, Rows(o, width, height), T, width, height)
<1>1. PICK g : /\ g[0] = o /\ Rows(o, width, height) = g[height]
               /\ \A y \in 0 .. height - 1 : g[y + 1] = Row(g[y], y, width)
  BY RowsInTurn
<1>2. PICK G : G = { n \in Nat : n <= height =>
                       /\ \E T : Made(H, g[n], T, width, height)
                       /\ g[n].code = "ERR_NONE" => Blank(g[n], n, height) }
  OBVIOUS
<1>3. 0 \in G
  BY <1>1, <1>2
<1>4. ASSUME NEW n \in Nat, n \in G
      PROVE  n + 1 \in G
  <2>1. SUFFICES ASSUME n + 1 <= height
                 PROVE  /\ \E T : Made(H, g[n + 1], T, width, height)
                        /\ g[n + 1].code = "ERR_NONE" => Blank(g[n + 1], n + 1, height)
    BY <1>2
  <2>2. n \in 0 .. height - 1 /\ n <= height
    BY <2>1
  <2>3. PICK T : Made(H, g[n], T, width, height)
    BY <1>2, <1>4, <2>2
  <2>4. g[n].code = "ERR_NONE" => Blank(g[n], n, height)
    BY <1>2, <1>4, <2>2
  <2>5. g[n + 1] = Row(g[n], n, width)
    BY <1>1, <2>2
  <2>6. \E U : /\ Made(H, Row(g[n], n, width), U, width, height)
               /\ Row(g[n], n, width).code = "ERR_NONE" => Blank(Row(g[n], n, width), n + 1, height)
    BY <2>2, <2>3, <2>4, RowIsMade
  <2> QED BY <2>5, <2>6
<1>5. G = Nat
  BY <1>2, <1>3, <1>4, ByInduction
<1>6. \E T : Made(H, g[height], T, width, height)
  BY <1>2, <1>5
<1> QED BY <1>1, <1>6

ImageMade(H, o, T, width) ==
  LET C == o.image.content
      D == 0 .. o.image.height - 1
  IN  /\ Work(H, o.r, T, { width }) /\ o.code \in { "ERR_NONE", "ERR_MEM" }
      /\ o.image = [height |-> o.image.height, content |-> C]
      /\ o.image.height \in Nat /\ C \in [D -> ImageLine]
      /\ \A y \in D : Fresh(C[y], {}, T)
      /\ \A y, z \in D : y # z => Disjoint(C[y], C[z])
      /\ o.code # "ERR_NONE" => o.image = NoImage
      /\ ~o.r.failed => o.code = "ERR_NONE" /\ \A p \in T : \E y \in D : p \in PartsOf(C[y])

LEMMA NoImageIsAnImage ==
  /\ NoImage = [height |-> NoImage.height, content |-> NoImage.content]
  /\ NoImage.height = 0 /\ 0 .. NoImage.height - 1 = {}
  /\ NoImage.content \in [0 .. NoImage.height - 1 -> ImageLine] /\ DOMAIN NoImage.content = {}
<1>1. PICK c : c = [y \in {} |-> NoLine]
  OBVIOUS
<1>2. NoImage = [height |-> 0, content |-> c]
  BY <1>1 DEF NoImage
<1>3. 0 .. 0 - 1 = {}
  OBVIOUS
<1>4. c \in [{} -> ImageLine] /\ DOMAIN c = {}
  BY <1>1
<1> QED BY <1>2, <1>3, <1>4

LEMMA NothingMade ==
  ASSUME NEW H, NEW r, NEW T, NEW width, Work(H, r, T, { width }), r.failed,
         NEW o, o = [r |-> r, image |-> NoImage, code |-> "ERR_MEM"]
  PROVE  ImageMade(H, o, T, width)
<1>1. o.r = r /\ o.image = NoImage /\ o.code = "ERR_MEM"
  OBVIOUS
<1> QED BY <1>1, NoImageIsAnImage DEF ImageMade

LEMMA CreateImageMakes ==
  ASSUME NEW H, Good(H), NEW r, Work(H, r, {}, {}), NEW width \in Nat \ {0}, NEW height \in Nat
  PROVE  \E T : ImageMade(H, image_create(r, width, height), T, width)
<1>1. PICK calloc : calloc = [r EXCEPT !.made = @ + 1]
  OBVIOUS
<1>2. IsCall(calloc) /\ calloc.heap = r.heap /\ calloc.failed = r.failed
  BY <1>1 DEF Work, IsCall
<1>3. Work(H, calloc, {}, { width })
  BY <1>2 DEF Work
<1>4. PICK c : c = [y \in 0 .. height - 1 |-> NoLine]
  OBVIOUS
<1>5. PICK empty : empty = [r |-> calloc, content |-> c, code |-> "ERR_NONE"]
  OBVIOUS
<1>6. empty.r = calloc /\ empty.content = c /\ empty.code = "ERR_NONE"
  BY <1>5
<1>7. Fresh(NoLine, {}, {}) /\ NoLine \in ImageLine
  BY NoLineIsFresh DEF Fresh
<1>8. Disjoint(NoLine, NoLine)
  BY <1>7, DisjointLines
<1>9. c \in [0 .. height - 1 -> ImageLine] /\ \A y \in 0 .. height - 1 : c[y] = NoLine
  BY <1>4, <1>7
<1>10. Made(H, empty, {}, width, height)
  BY <1>3, <1>6, <1>7, <1>8, <1>9 DEF Made
<1>11. Blank(empty, 0, height)
  BY <1>6, <1>9 DEF Blank
<1>12. PICK o : o = Rows(empty, width, height)
  OBVIOUS
<1>13. PICK T : Made(H, o, T, width, height)
  BY <1>10, <1>11, <1>12, RowsAreMade
<1>14. PICK im : im = [height |-> height, content |-> o.content]
  OBVIOUS
<1>15. CASE 0 \in r.fails
  <2>1. PICK s : s = [calloc EXCEPT !.failed = TRUE]
    OBVIOUS
  <2>2. IsCall(s) /\ s.heap = calloc.heap /\ s.failed
    BY <1>2, <2>1 DEF IsCall
  <2>3. Work(H, s, {}, { width })
    BY <1>3, <2>2 DEF Work
  <2>4. image_create(r, width, height) = [r |-> s, image |-> NoImage, code |-> "ERR_MEM"]
    BY <1>1, <1>15, <2>1 DEF image_create
  <2>5. ImageMade(H, image_create(r, width, height), {}, width)
    BY <2>2, <2>3, <2>4, NothingMade
  <2> QED BY <2>5
<1>16. CASE 0 \notin r.fails /\ o.code = "ERR_NONE"
  <2>1. PICK q : q = [r |-> o.r, image |-> im, code |-> o.code]
    OBVIOUS
  <2>2. image_create(r, width, height) = q
    BY <1>1, <1>4, <1>5, <1>12, <1>14, <1>16, <2>1 DEF image_create
  <2>3. q.r = o.r /\ q.code = "ERR_NONE" /\ q.image = im
    BY <1>16, <2>1
  <2>4. im = [height |-> im.height, content |-> im.content] /\ im.height = height /\ im.content = o.content
    BY <1>14
  <2>5. ImageMade(H, q, T, width)
    BY <1>13, <2>3, <2>4 DEF ImageMade, Made
  <2> QED BY <2>2, <2>5
<1>17. CASE 0 \notin r.fails /\ o.code # "ERR_NONE"
  <2>1. PICK Q : Q = PartsOfImage(im.content)
    OBVIOUS
  <2>2. PICK f : f = bit_vector_free(o.r, Q)
    OBVIOUS
  <2>3. Work(H, o.r, T, { width }) /\ o.r.failed /\ o.code = "ERR_MEM"
    BY <1>13, <1>17 DEF Made
  <2>4. Q \subseteq T \cup { 0 }
    <3>1. im.content = o.content /\ DOMAIN o.content = 0 .. height - 1
      BY <1>13, <1>14 DEF Made
    <3>2. \A y \in 0 .. height - 1 : PartsOf(o.content[y]) \subseteq T \cup { 0 }
      BY <1>13, PartOfFresh DEF Made
    <3> QED BY <2>1, <3>1, <3>2 DEF PartsOfImage
  <2>5. Work(H, f, T \ Q, { width }) /\ f.failed = o.r.failed
    BY <2>2, <2>3, <2>4, FreedWorks
  <2>6. image_free(o.r, im).r = f /\ image_free(o.r, im).image = NoImage
    BY <2>1, <2>2 DEF image_free
  <2>7. image_create(r, width, height) = [r |-> f, image |-> NoImage, code |-> "ERR_MEM"]
    BY <1>1, <1>4, <1>5, <1>12, <1>14, <1>17, <2>3, <2>6 DEF image_create
  <2>8. ImageMade(H, image_create(r, width, height), T \ Q, width)
    BY <2>3, <2>5, <2>7, NothingMade
  <2> QED BY <2>8
<1> QED BY <1>15, <1>16, <1>17

-----------------------------------------------------------------------------
(* What lines and images hold of the heap h.  Only whole lines have a width: *)
(* the caller of image_line_map_colors may be given a line with parts       *)
(* missing.                                                                 *)
Owned(h, l) ==
  /\ l \in ImageLine
  /\ \A i \in Part : l[i] # 0 => h[l[i]] # NULL
  /\ \A i, j \in Part : i # j /\ l[i] # 0 => l[i] # l[j]
  /\ NON_NULL(l) => \A i, j \in Part : h[l[i]].size = h[l[j]].size

Owners(h, L, C) ==
  /\ \A l \in Lines : Owned(h, L[l])
  /\ \A y \in DOMAIN C : Owned(h, C[y])
  /\ \A l, m \in Lines : l # m => Disjoint(L[l], L[m])
  /\ \A y, z \in DOMAIN C : y # z => Disjoint(C[y], C[z])
  /\ \A l \in Lines, y \in DOMAIN C : Disjoint(L[l], C[y])

Holds(L, C, p) ==
  \/ \E l \in Lines : p \in PartsOf(L[l])
  \/ \E y \in DOMAIN C : p \in PartsOf(C[y])
Tight(h, L, C) == \A p \in Pointers : h[p] # NULL => Holds(L, C, p)

IsImage(im) ==
  /\ im = [height |-> im.height, content |-> im.content]
  /\ im.height \in Nat /\ im.content \in [0 .. im.height - 1 -> ImageLine]

(* The inductive invariant of heap h, lines L and image im                  *)
Sound(h, L, im, lost) ==
  /\ Good(h) /\ L \in [Lines -> ImageLine] /\ IsImage(im)
  /\ Owners(h, L, im.content) /\ (~lost => Tight(h, L, im.content))

(* Nothing in use has changed                                               *)
Same(H, h) == \A p \in Pointers : H[p] # NULL => h[p] = H[p]

Keeps(H, h, l) == \A i \in Part : l[i] # 0 => h[l[i]] # NULL /\ h[l[i]].size = H[l[i]].size

LEMMA PartsInUse ==
  ASSUME NEW H, NEW l, Owned(H, l), NEW p, p \in PartsOf(l), p # 0
  PROVE  p \in Pointers /\ H[p] # NULL
<1>1. l \in ImageLine
  BY DEF Owned
<1>2. PICK i \in Part : l[i] = p
  BY <1>1, PartsOfLine
<1>3. l[i] \in 0 .. MaxVectors
  BY <1>1, PartsOfLine DEF Part
<1> QED BY <1>2, <1>3, PointersAreNotZero DEF Owned

LEMMA NoLineIsOwned == \A h : Owned(h, NoLine)
<1>1. NoLine \in ImageLine /\ \A i \in Part : NoLine[i] = 0
  BY NoLineIsFresh DEF Fresh
<1>2. ~NON_NULL(NoLine)
  BY DEF NON_NULL, NoLine, PartsOf
<1> QED BY <1>1, <1>2 DEF Owned

LEMMA OwnedLasts ==
  ASSUME NEW H, NEW h, NEW l, Owned(H, l), Keeps(H, h, l)
  PROVE  Owned(h, l)
<1>1. l \in ImageLine
  BY DEF Owned
<1>2. NON_NULL(l) => \A i, j \in Part : h[l[i]].size = h[l[j]].size
  BY <1>1, PartsOfLine DEF Owned, Keeps
<1> QED BY <1>1, <1>2 DEF Owned, Keeps

LEMMA SameKeeps ==
  ASSUME NEW H, NEW h, Same(H, h), NEW l, Owned(H, l)
  PROVE  Keeps(H, h, l)
<1>1. l \in ImageLine
  BY DEF Owned
<1>2. \A i \in Part : l[i] # 0 => l[i] \in Pointers
  BY <1>1, PartsOfLine, PointersAreNotZero DEF Part
<1> QED BY <1>2 DEF Keeps, Same, Owned

LEMMA WorkIsGood ==
  ASSUME NEW H, Good(H), NEW r, NEW S, NEW Z, Work(H, r, S, Z)
  PROVE  Good(r.heap) /\ Same(H, r.heap)
BY DEF Good, Work, Same

LEMMA FreshIsOwned ==
  ASSUME NEW H, Good(H), NEW r, NEW T, NEW w, Work(H, r, T, { w }), NEW l, Fresh(l, {}, T)
  PROVE  /\ Owned(r.heap, l)
         /\ \A m : Owned(H, m) => Disjoint(l, m) /\ Disjoint(m, l)
<1>1. l \in ImageLine /\ T \subseteq Pointers
  BY DEF Fresh, Work
<1>2. \A i \in Part : l[i] # 0 => IsVector(r.heap[l[i]]) /\ r.heap[l[i]].size = w /\ H[l[i]] = NULL
  BY DEF Fresh, Work
<1>3. \A i \in Part : l[i] # 0 => r.heap[l[i]] # NULL
  BY <1>2, VectorIsNotNull
<1>4. NON_NULL(l) => \A i, j \in Part : r.heap[l[i]].size = r.heap[l[j]].size
  BY <1>1, <1>2, PartsOfLine
<1>5. Owned(r.heap, l)
  BY <1>1, <1>3, <1>4 DEF Owned, Fresh
<1>6. ASSUME NEW m, Owned(H, m)
      PROVE  Disjoint(l, m) /\ Disjoint(m, l)
  <2>1. Disjoint(l, m)
    BY <1>2, <1>6 DEF Disjoint, Owned
  <2> QED BY <1>1, <1>6, <2>1, DisjointLines DEF Owned
<1> QED BY <1>5, <1>6

(* A function has made a line for the caller, all of one width              *)
OneWidth(Z, o) == o.code # "ERR_NONE" \/ \E w : Z = { w }

LEMMA LineIsMade ==
  ASSUME NEW H, NEW L, NEW im, Sound(H, L, im, TRUE), NEW out \in Lines, L[out] = NoLine,
         NEW r, NEW o, NEW T, NEW Z, Makes(H, r, {}, o, T, Z), OneWidth(Z, o)
  PROVE  /\ Sound(o.r.heap, [L EXCEPT ![out] = o.line], im, TRUE)
         /\ Sound(H, L, im, FALSE) /\ ~o.r.failed /\ Exact({}, o, T)
              => Sound(o.r.heap, [L EXCEPT ![out] = o.line], im, FALSE)
         /\ o.code # "ERR_NONE" => [L EXCEPT ![out] = o.line] = L /\ Same(H, o.r.heap)
<1>1. PICK h, N, C : h = o.r.heap /\ N = [L EXCEPT ![out] = o.line] /\ C = im.content
  OBVIOUS
<1>2. Good(H) /\ L \in [Lines -> ImageLine] /\ IsImage(im) /\ Owners(H, L, C)
  BY <1>1 DEF Sound
<1>3. Work(H, o.r, T, Z) /\ Fresh(o.line, {}, T) /\ (o.code # "ERR_NONE" => o.line = NoLine)
  BY DEF Makes
<1>4. Good(h) /\ Same(H, h)
  BY <1>1, <1>2, <1>3, WorkIsGood
<1>5. o.line \in ImageLine
  BY <1>3 DEF Fresh
<1>6. N \in [Lines -> ImageLine] /\ N[out] = o.line /\ \A l \in Lines : l # out => N[l] = L[l]
  BY <1>1, <1>2, <1>5
<1>7. o.code # "ERR_NONE" => N = L
  BY <1>1, <1>2, <1>3
<1>8. /\ \A l \in Lines : Owned(h, L[l])
      /\ \A y \in DOMAIN C : Owned(h, C[y])
  BY <1>2, <1>4, SameKeeps, OwnedLasts DEF Owners
<1>9. Owners(h, N, C)
  <2>1. CASE o.code # "ERR_NONE"
    BY <1>2, <1>7, <1>8, <2>1 DEF Owners
  <2>2. CASE o.code = "ERR_NONE"
    <3>1. PICK w : Work(H, o.r, T, { w })
      BY <1>3, <2>2 DEF OneWidth
    <3>2. /\ Owned(h, o.line)
          /\ \A m : Owned(H, m) => Disjoint(o.line, m) /\ Disjoint(m, o.line)
      BY <1>1, <1>2, <1>3, <3>1, FreshIsOwned
    <3>3. /\ \A l \in Lines : Disjoint(o.line, L[l]) /\ Disjoint(L[l], o.line)
          /\ \A y \in DOMAIN C : Disjoint(o.line, C[y])
      BY <1>2, <3>2 DEF Owners
    <3>4. \A l \in Lines : Owned(h, N[l])
      BY <1>6, <1>8, <3>2
    <3>5. \A l, m \in Lines : l # m => Disjoint(N[l], N[m])
      BY <1>2, <1>6, <3>3 DEF Owners
    <3>6. \A l \in Lines, y \in DOMAIN C : Disjoint(N[l], C[y])
      BY <1>2, <1>6, <3>3 DEF Owners
    <3> QED BY <1>2, <1>8, <3>4, <3>5, <3>6 DEF Owners
  <2> QED BY <2>1, <2>2
<1>10. ASSUME Sound(H, L, im, FALSE), ~o.r.failed, Exact({}, o, T)
       PROVE  Tight(h, N, C)
  <2>1. Tight(H, L, C) /\ T = PartsOf(o.line)
    BY <1>1, <1>10 DEF Sound, Exact
  <2>2. ASSUME NEW p \in Pointers, h[p] # NULL
        PROVE  Holds(N, C, p)
    <3>1. CASE p \in T
      BY <1>6, <2>1, <3>1 DEF Holds
    <3>2. CASE p \notin T
      <4>1. H[p] # NULL
        BY <1>1, <1>3, <2>2, <3>2 DEF Work
      <4>2. Holds(L, C, p)
        BY <2>1, <4>1 DEF Tight
      <4>3. p \notin PartsOf(L[out])
        BY PointersAreNotZero DEF PartsOf, NoLine
      <4> QED BY <1>6, <4>2, <4>3 DEF Holds
    <3> QED BY <3>1, <3>2
  <2> QED BY <2>2 DEF Tight
<1> QED BY <1>1, <1>2, <1>4, <1>6, <1>7, <1>9, <1>10 DEF Sound

(* Vectors are freed                                                        *)
Without(H, Q) == [p \in Pointers |-> IF p \in Q THEN NULL ELSE H[p]]

LEMMA FreedHeap ==
  ASSUME NEW H, NEW r, NEW Q,
         r = [heap |-> H, made |-> r.made, fails |-> r.fails, failed |-> r.failed, ret |-> r.ret]
  PROVE  bit_vector_free(r, Q).heap = Without(H, Q) /\ bit_vector_free(r, Q).failed = r.failed
<1>1. PICK h : h = Without(H, Q)
  OBVIOUS
<1>2. r.heap = H
  OBVIOUS
<1>3. bit_vector_free(r, Q) = [r EXCEPT !.heap = h]
  BY <1>1, <1>2 DEF bit_vector_free, Without
<1> QED BY <1>1, <1>3

LEMMA WithoutKeeps ==
  ASSUME NEW H, Good(H), NEW Q
  PROVE  /\ Good(Without(H, Q))
         /\ \A l : Owned(H, l) /\ PartsOf(l) \cap Q \subseteq { 0 } => Owned(Without(H, Q), l)
         /\ \A p \in Pointers : Without(H, Q)[p] # NULL => p \notin Q /\ H[p] # NULL
<1>1. PICK h : h = Without(H, Q)
  OBVIOUS
<1>2. h = [p \in Pointers |-> h[p]] /\ \A p \in Pointers : h[p] = IF p \in Q THEN NULL ELSE H[p]
  BY <1>1 DEF Without
<1>3. Good(h)
  BY <1>2 DEF Good
<1>4. ASSUME NEW l, Owned(H, l), PartsOf(l) \cap Q \subseteq { 0 }
      PROVE  Owned(h, l)
  <2>1. l \in ImageLine
    BY <1>4 DEF Owned
  <2>2. \A i \in Part : l[i] # 0 => l[i] \in Pointers /\ l[i] \notin Q
    BY <1>4, <2>1, PartsOfLine, PointersAreNotZero DEF Part
  <2>3. Keeps(H, h, l)
    BY <1>2, <1>4, <2>2 DEF Keeps, Owned
  <2> QED BY <1>4, <2>3, OwnedLasts
<1>5. \A p \in Pointers : h[p] # NULL => p \notin Q /\ H[p] # NULL
  BY <1>2
<1> QED BY <1>1, <1>3, <1>4, <1>5

LEMMA DisjointParts ==
  ASSUME NEW l \in ImageLine, NEW m \in ImageLine
  PROVE  Disjoint(l, m) <=> PartsOf(l) \cap PartsOf(m) \subseteq { 0 }
BY PartsOfLine DEF Disjoint

LEMMA LineIsFreed ==
  ASSUME NEW H, NEW L, NEW im, NEW lost, Sound(H, L, im, lost), NEW out \in Lines
  PROVE  Sound(Without(H, PartsOf(L[out])), [L EXCEPT ![out] = NoLine], im, lost)
<1>1. PICK h, N, C, Q :
         /\ Q = PartsOf(L[out]) /\ h = Without(H, Q)
         /\ N = [L EXCEPT ![out] = NoLine] /\ C = im.content
  OBVIOUS
<1>2. Good(H) /\ L \in [Lines -> ImageLine] /\ IsImage(im) /\ Owners(H, L, C)
  BY <1>1 DEF Sound
<1>3. C \in [DOMAIN C -> ImageLine]
  BY <1>1, <1>2 DEF IsImage
<1>4. /\ \A l \in Lines : l # out => PartsOf(L[l]) \cap Q \subseteq { 0 }
      /\ \A y \in DOMAIN C : PartsOf(C[y]) \cap Q \subseteq { 0 }
  BY <1>1, <1>2, <1>3, DisjointParts DEF Owners
<1>5. /\ Good(h)
      /\ \A l \in Lines : l # out => Owned(h, L[l])
      /\ \A y \in DOMAIN C : Owned(h, C[y])
      /\ \A p \in Pointers : h[p] # NULL => p \notin Q /\ H[p] # NULL
  BY <1>1, <1>2, <1>4, WithoutKeeps DEF Owners
<1>6. NoLine \in ImageLine
  BY NoLineIsFresh DEF Fresh
<1>7. N \in [Lines -> ImageLine] /\ N[out] = NoLine /\ \A l \in Lines : l # out => N[l] = L[l]
  BY <1>1, <1>2, <1>6
<1>8. Owners(h, N, C)
  <2>1. \A l \in Lines : Owned(h, N[l])
    BY <1>5, <1>7, NoLineIsOwned
  <2>2. \A l, m \in Lines : l # m => Disjoint(N[l], N[m])
    BY <1>2, <1>7, DisjointLines DEF Owners
  <2>3. \A l \in Lines, y \in DOMAIN C : Disjoint(N[l], C[y])
    BY <1>2, <1>3, <1>7, DisjointLines DEF Owners
  <2> QED BY <1>2, <1>5, <2>1, <2>2, <2>3 DEF Owners
<1>9. ASSUME ~lost
      PROVE  Tight(h, N, C)
  <2>1. Tight(H, L, C)
    BY <1>1, <1>9 DEF Sound
  <2>2. ASSUME NEW p \in Pointers, h[p] # NULL
        PROVE  Holds(N, C, p)
    <3>1. p \notin Q /\ Holds(L, C, p)
      BY <1>5, <2>1, <2>2 DEF Tight
    <3> QED BY <1>1, <1>7, <3>1 DEF Holds
  <2> QED BY <2>2 DEF Tight
<1> QED BY <1>1, <1>2, <1>5, <1>7, <1>8, <1>9 DEF Sound

LEMMA ImageIsFreed ==
  ASSUME NEW H, NEW L, NEW im, NEW lost, Sound(H, L, im, lost)
  PROVE  Sound(Without(H, PartsOfImage(im.content)), L, NoImage, lost)
<1>1. PICK h, C, Q, N : C = im.content /\ Q = PartsOfImage(C) /\ h = Without(H, Q) /\ N = NoImage.content
  OBVIOUS
<1>2. Good(H) /\ L \in [Lines -> ImageLine] /\ IsImage(im) /\ Owners(H, L, C)
  BY <1>1 DEF Sound
<1>3. C \in [DOMAIN C -> ImageLine]
  BY <1>1, <1>2 DEF IsImage
<1>4. ASSUME NEW l \in Lines
      PROVE  PartsOf(L[l]) \cap Q \subseteq { 0 }
  <2>1. \A y \in DOMAIN C : PartsOf(L[l]) \cap PartsOf(C[y]) \subseteq { 0 }
    BY <1>2, <1>3, DisjointParts DEF Owners
  <2> QED BY <1>1, <2>1 DEF PartsOfImage
<1>5. /\ Good(h)
      /\ \A l \in Lines : Owned(h, L[l])
      /\ \A p \in Pointers : h[p] # NULL => p \notin Q /\ H[p] # NULL
  BY <1>1, <1>2, <1>4, WithoutKeeps DEF Owners
<1>6. IsImage(NoImage) /\ DOMAIN N = {}
  BY <1>1, NoImageIsAnImage DEF IsImage
<1>7. Owners(h, L, N)
  BY <1>2, <1>5, <1>6 DEF Owners
<1>8. ASSUME ~lost
      PROVE  Tight(h, L, N)
  <2>1. Tight(H, L, C)
    BY <1>1, <1>8 DEF Sound
  <2>2. ASSUME NEW p \in Pointers, h[p] # NULL
        PROVE  Holds(L, N, p)
    <3>1. p \notin Q /\ Holds(L, C, p)
      BY <1>5, <2>1, <2>2 DEF Tight
    <3>2. \A y \in DOMAIN C : p \notin PartsOf(C[y])
      BY <1>1, <3>1 DEF PartsOfImage
    <3> QED BY <3>1, <3>2 DEF Holds
  <2> QED BY <2>2 DEF Tight
<1> QED BY <1>1, <1>2, <1>5, <1>6, <1>7, <1>8 DEF Sound

LEMMA ImageIsMade ==
  ASSUME NEW H, NEW L, NEW lossy0, Sound(H, L, NoImage, lossy0),
         NEW o, NEW T, NEW w, ImageMade(H, o, T, w)
  PROVE  /\ Sound(o.r.heap, L, o.image, lossy0 \/ o.r.failed)
         /\ o.code # "ERR_NONE" => o.image = NoImage
         /\ Same(H, o.r.heap)
<1>1. PICK h, im, C, D : h = o.r.heap /\ im = o.image /\ C = im.content /\ D = 0 .. im.height - 1
  OBVIOUS
<1>2. Good(H) /\ L \in [Lines -> ImageLine] /\ Owners(H, L, NoImage.content)
  BY DEF Sound
<1>3. /\ Work(H, o.r, T, { w }) /\ IsImage(im) /\ C \in [D -> ImageLine]
      /\ \A y \in D : Fresh(C[y], {}, T)
      /\ \A y, z \in D : y # z => Disjoint(C[y], C[z])
      /\ o.code # "ERR_NONE" => im = NoImage
      /\ ~o.r.failed => \A p \in T : \E y \in D : p \in PartsOf(C[y])
  BY <1>1 DEF ImageMade, IsImage
<1>4. Good(h) /\ Same(H, h)
  BY <1>1, <1>2, <1>3, WorkIsGood
<1>5. \A l \in Lines : Owned(h, L[l])
  BY <1>2, <1>4, SameKeeps, OwnedLasts DEF Owners
<1>6. ASSUME NEW y \in D
      PROVE  Owned(h, C[y]) /\ \A l \in Lines : Disjoint(L[l], C[y])
  <2>1. /\ Owned(h, C[y])
        /\ \A m : Owned(H, m) => Disjoint(C[y], m) /\ Disjoint(m, C[y])
    BY <1>1, <1>2, <1>3, <1>6, FreshIsOwned
  <2> QED BY <1>2, <2>1 DEF Owners
<1>7. Owners(h, L, C)
  BY <1>2, <1>3, <1>5, <1>6 DEF Owners
<1>8. ASSUME ~(lossy0 \/ o.r.failed)
      PROVE  Tight(h, L, C)
  <2>1. Tight(H, L, NoImage.content)
    BY <1>8 DEF Sound
  <2>2. ASSUME NEW p \in Pointers, h[p] # NULL
        PROVE  Holds(L, C, p)
    <3>1. CASE p \in T
      BY <1>3, <1>8, <3>1 DEF Holds
    <3>2. CASE p \notin T
      <4>1. H[p] # NULL
        BY <1>1, <1>3, <2>2, <3>2 DEF Work
      <4>2. Holds(L, NoImage.content, p)
        BY <2>1, <4>1 DEF Tight
      <4> QED BY <4>2, NoImageIsAnImage DEF Holds
    <3> QED BY <3>1, <3>2
  <2> QED BY <2>2 DEF Tight
<1> QED BY <1>1, <1>2, <1>3, <1>4, <1>7, <1>8 DEF Sound

(* image_own_line_content: the row is freed and the line moves into it       *)
LEMMA LineIsTaken ==
  ASSUME NEW H, NEW L, NEW im, NEW lost, Sound(H, L, im, lost), NEW a \in Lines,
         NEW y \in DOMAIN im.content
  PROVE  Sound(Without(H, PartsOf(im.content[y])), [L EXCEPT ![a] = NoLine],
               [im EXCEPT !.content[y] = L[a]], lost)
<1>1. PICK h, N, C, Q, jm, D :
         /\ C = im.content /\ Q = PartsOf(C[y]) /\ h = Without(H, Q)
         /\ N = [L EXCEPT ![a] = NoLine] /\ jm = [im EXCEPT !.content[y] = L[a]] /\ D = jm.content
  OBVIOUS
<1>2. Good(H) /\ L \in [Lines -> ImageLine] /\ IsImage(im) /\ Owners(H, L, C)
  BY <1>1 DEF Sound
<1>3. C \in [DOMAIN C -> ImageLine] /\ y \in DOMAIN C
  BY <1>1, <1>2 DEF IsImage
<1>4. NoLine \in ImageLine
  BY NoLineIsFresh DEF Fresh
<1>5. /\ IsImage(jm) /\ D \in [DOMAIN C -> ImageLine] /\ D[y] = L[a]
      /\ \A z \in DOMAIN C : z # y => D[z] = C[z]
  <2>1. L[a] \in ImageLine
    BY <1>2
  <2>2. jm = [height |-> im.height, content |-> D] /\ D = [C EXCEPT ![y] = L[a]]
    BY <1>1, <1>2 DEF IsImage
  <2> QED BY <1>1, <1>2, <1>3, <2>1, <2>2 DEF IsImage
<1>6. N \in [Lines -> ImageLine] /\ N[a] = NoLine /\ \A l \in Lines : l # a => N[l] = L[l]
  BY <1>1, <1>2, <1>4
<1>7. /\ \A l \in Lines : PartsOf(L[l]) \cap Q \subseteq { 0 }
      /\ \A z \in DOMAIN C : z # y => PartsOf(C[z]) \cap Q \subseteq { 0 }
  BY <1>1, <1>2, <1>3, DisjointParts DEF Owners
<1>8. /\ Good(h)
      /\ \A l \in Lines : Owned(h, L[l])
      /\ \A z \in DOMAIN C : z # y => Owned(h, C[z])
      /\ \A p \in Pointers : h[p] # NULL => p \notin Q /\ H[p] # NULL
  BY <1>1, <1>2, <1>3, <1>7, WithoutKeeps DEF Owners
<1>9. Owners(h, N, D)
  <2>1. \A l \in Lines : Owned(h, N[l])
    BY <1>6, <1>8, NoLineIsOwned
  <2>2. DOMAIN D = DOMAIN C /\ \A z \in DOMAIN D : Owned(h, D[z])
    BY <1>5, <1>8
  <2>3. \A l, m \in Lines : l # m => Disjoint(N[l], N[m])
    BY <1>2, <1>6, DisjointLines DEF Owners
  <2>4. \A z, x \in DOMAIN D : z # x => Disjoint(D[z], D[x])
    <3>1. \A z \in DOMAIN C : Disjoint(L[a], C[z]) /\ Disjoint(C[z], L[a])
      BY <1>2, <1>3, DisjointLines DEF Owners
    <3> QED BY <1>2, <1>5, <2>2, <3>1 DEF Owners
  <2>5. \A l \in Lines, z \in DOMAIN D : Disjoint(N[l], D[z])
    <3>1. ASSUME NEW l \in Lines, NEW z \in DOMAIN D
          PROVE  Disjoint(N[l], D[z])
      <4>1. CASE l = a
        BY <1>5, <1>6, <2>2, <4>1, DisjointLines
      <4>2. CASE l # a
        BY <1>2, <1>5, <1>6, <2>2, <4>2 DEF Owners
      <4> QED BY <4>1, <4>2
    <3> QED BY <3>1
  <2> QED BY <2>1, <2>2, <2>3, <2>4, <2>5 DEF Owners
<1>10. ASSUME ~lost
       PROVE  Tight(h, N, D)
  <2>1. Tight(H, L, C)
    BY <1>1, <1>10 DEF Sound
  <2>2. ASSUME NEW p \in Pointers, h[p] # NULL
        PROVE  Holds(N, D, p)
    <3>1. p \notin Q /\ Holds(L, C, p)
      BY <1>8, <2>1, <2>2 DEF Tight
    <3>2. DOMAIN D = DOMAIN C
      BY <1>5
    <3>3. CASE \E l \in Lines : p \in PartsOf(L[l])
      <4>1. PICK l \in Lines : p \in PartsOf(L[l])
        BY <3>3
      <4>2. CASE l = a
        BY <1>3, <1>5, <3>2, <4>1, <4>2 DEF Holds
      <4>3. CASE l # a
        BY <1>6, <4>1, <4>3 DEF Holds
      <4> QED BY <4>2, <4>3
    <3>4. CASE \E z \in DOMAIN C : p \in PartsOf(C[z])
      BY <1>1, <1>5, <3>1, <3>2, <3>4 DEF Holds
    <3> QED BY <3>1, <3>3, <3>4 DEF Holds
  <2> QED BY <2>2 DEF Tight
<1> QED BY <1>1, <1>5, <1>6, <1>8, <1>9, <1>10 DEF Sound

(* Bits of vectors change                                                   *)
SizesLast(H, h) ==
  \A p \in Pointers : (H[p] = NULL => h[p] = NULL) /\ (H[p] # NULL => h[p] # NULL /\ h[p].size = H[p].size)

LEMMA BitsChange ==
  ASSUME NEW H, NEW L, NEW im, NEW lost, Sound(H, L, im, lost), NEW h, Good(h), SizesLast(H, h)
  PROVE  Sound(h, L, im, lost)
<1>1. ASSUME NEW l, Owned(H, l)
      PROVE  Owned(h, l)
  <2>1. \A i \in Part : l[i] # 0 => l[i] \in Pointers
    BY <1>1, PartsOfLine, PointersAreNotZero DEF Owned, Part
  <2>2. Keeps(H, h, l)
    BY <1>1, <2>1 DEF Keeps, Owned, SizesLast
  <2> QED BY <1>1, <2>2, OwnedLasts
<1>2. Owners(h, L, im.content)
  BY <1>1 DEF Sound, Owners
<1>3. ~lost => Tight(h, L, im.content)
  BY DEF Sound, Tight, SizesLast
<1> QED BY <1>2, <1>3 DEF Sound

Filled(H, p, content) == [H EXCEPT ![p].content = content]

LEMMA ContentChanges ==
  ASSUME NEW H, Good(H), NEW p \in Pointers, H[p] # NULL,
         NEW content, content \in [Chunks(H[p].size) -> SUBSET Places],
         NEW h, h = Filled(H, p, content)
  PROVE  Good(h) /\ SizesLast(H, h)
<1>1. PICK v : v = H[p]
  OBVIOUS
<1>2. IsVector(v) /\ v = [size |-> v.size, content |-> v.content] /\ v.size \in Nat \ {0}
  BY <1>1 DEF Good, IsVector
<1>3. PICK u : u = [v EXCEPT !.content = content]
  OBVIOUS
<1>4. u = [size |-> v.size, content |-> content]
  BY <1>2, <1>3
<1>5. IsVector(u) /\ u.size = v.size /\ u # NULL
  BY <1>1, <1>2, <1>4, VectorOfChunks, VectorIsNotNull
<1>6. h = [H EXCEPT ![p] = u]
  BY <1>1, <1>3 DEF Filled
<1>7. H = [q \in Pointers |-> H[q]] /\ \A q \in Pointers : H[q] = NULL \/ IsVector(H[q])
  BY DEF Good
<1>8. h = [q \in Pointers |-> h[q]] /\ h[p] = u /\ \A q \in Pointers : q # p => h[q] = H[q]
  BY <1>6, <1>7
<1>9. Good(h)
  BY <1>5, <1>7, <1>8 DEF Good
<1>10. SizesLast(H, h)
  BY <1>1, <1>5, <1>8 DEF SizesLast
<1> QED BY <1>9, <1>10

LEMMA WordChanges ==
  ASSUME NEW H, Good(H), NEW p \in Pointers, H[p] # NULL,
         NEW index \in Chunks(H[p].size), NEW word \in SUBSET Places,
         NEW h, h = [H EXCEPT ![p].content[index] = word]
  PROVE  Good(h) /\ SizesLast(H, h)
<1>1. PICK content : content = [H[p].content EXCEPT ![index] = word]
  OBVIOUS
<1>2. H[p].content \in [Chunks(H[p].size) -> SUBSET Places]
  BY DEF Good, IsVector
<1>3. content \in [Chunks(H[p].size) -> SUBSET Places]
  BY <1>1, <1>2
<1>4. h = Filled(H, p, content)
  BY <1>1 DEF Filled
<1> QED BY <1>3, <1>4, ContentChanges

LEMMA SizesStillLast ==
  ASSUME NEW H, NEW h, NEW g, SizesLast(H, h), SizesLast(h, g)
  PROVE  SizesLast(H, g)
BY DEF SizesLast

LEMMA LineIsWorded ==
  ASSUME NEW H, Good(H), NEW l, Owned(H, l), NON_NULL(l), NEW index, index \in Chunks(H[l.msb].size),
         NEW msb \in SUBSET Places, NEW lsb \in SUBSET Places
  PROVE  Good(Worded(H, l, index, msb, lsb)) /\ SizesLast(H, Worded(H, l, index, msb, lsb))
<1>1. /\ l.msb \in Pointers /\ l.lsb \in Pointers /\ l.opacity \in Pointers
      /\ H[l.msb] # NULL /\ H[l.lsb] # NULL /\ H[l.opacity] # NULL
  BY PartsInUse DEF NON_NULL, PartsOf
<1>2. H[l.lsb].size = H[l.msb].size /\ H[l.opacity].size = H[l.msb].size
  BY PartsOfLine DEF Owned, Part
<1>3. PICK h1 : h1 = [H EXCEPT ![l.msb].content[index] = msb]
  OBVIOUS
<1>4. PICK h2 : h2 = [h1 EXCEPT ![l.lsb].content[index] = lsb]
  OBVIOUS
<1>5. PICK h3 : h3 = [h2 EXCEPT ![l.opacity].content[index] = msb \cup lsb]
  OBVIOUS
<1>6. Good(h1) /\ SizesLast(H, h1)
  BY <1>1, <1>3, WordChanges
<1>7. Good(h2) /\ SizesLast(h1, h2)
  <2>1. h1[l.lsb] # NULL /\ h1[l.lsb].size = H[l.msb].size
    BY <1>1, <1>2, <1>6 DEF SizesLast
  <2> QED BY <1>1, <1>4, <1>6, <2>1, WordChanges
<1>8. SizesLast(H, h2)
  BY <1>6, <1>7, SizesStillLast
<1>9. Good(h3) /\ SizesLast(h2, h3)
  <2>1. h2[l.opacity] # NULL /\ h2[l.opacity].size = H[l.msb].size
    BY <1>1, <1>2, <1>8 DEF SizesLast
  <2>2. msb \cup lsb \in SUBSET Places
    OBVIOUS
  <2> QED BY <1>1, <1>5, <1>7, <2>1, <2>2, WordChanges
<1>10. Worded(H, l, index, msb, lsb) = h3
  BY <1>3, <1>4, <1>5 DEF Worded
<1> QED BY <1>8, <1>9, <1>10, SizesStillLast

LEMMA LineIsCopied ==
  ASSUME NEW H, Good(H), NEW l, Owned(H, l), NON_NULL(l), NEW m, Owned(H, m), NON_NULL(m),
         H[m.lsb].size = H[l.lsb].size, H[m.msb].size = H[l.msb].size,
         H[m.opacity].size = H[l.opacity].size
  PROVE  Good(CopiedOver(H, l, m)) /\ SizesLast(H, CopiedOver(H, l, m))
<1>1. /\ l.msb \in Pointers /\ l.lsb \in Pointers /\ l.opacity \in Pointers
      /\ H[l.msb] # NULL /\ H[l.lsb] # NULL /\ H[l.opacity] # NULL
      /\ m.msb \in Pointers /\ m.lsb \in Pointers /\ m.opacity \in Pointers
      /\ H[m.msb] # NULL /\ H[m.lsb] # NULL /\ H[m.opacity] # NULL
  BY PartsInUse DEF NON_NULL, PartsOf
<1>2. PICK c1, c2, c3 : c1 = H[m.lsb].content /\ c2 = H[m.msb].content /\ c3 = H[m.opacity].content
  OBVIOUS
<1>3. /\ c1 \in [Chunks(H[l.lsb].size) -> SUBSET Places]
      /\ c2 \in [Chunks(H[l.msb].size) -> SUBSET Places]
      /\ c3 \in [Chunks(H[l.opacity].size) -> SUBSET Places]
  BY <1>1, <1>2 DEF Good, IsVector
<1>4. PICK h1 : h1 = Filled(H, l.lsb, c1)
  OBVIOUS
<1>5. PICK h2 : h2 = Filled(h1, l.msb, c2)
  OBVIOUS
<1>6. PICK h3 : h3 = Filled(h2, l.opacity, c3)
  OBVIOUS
<1>7. Good(h1) /\ SizesLast(H, h1)
  BY <1>1, <1>3, <1>4, ContentChanges
<1>8. Good(h2) /\ SizesLast(h1, h2)
  <2>1. h1[l.msb] # NULL /\ h1[l.msb].size = H[l.msb].size
    BY <1>1, <1>7 DEF SizesLast
  <2> QED BY <1>1, <1>3, <1>5, <1>7, <2>1, ContentChanges
<1>9. SizesLast(H, h2)
  BY <1>7, <1>8, SizesStillLast
<1>10. Good(h3) /\ SizesLast(h2, h3)
  <2>1. h2[l.opacity] # NULL /\ h2[l.opacity].size = H[l.opacity].size
    BY <1>1, <1>9 DEF SizesLast
  <2> QED BY <1>1, <1>3, <1>6, <1>8, <2>1, ContentChanges
<1>11. CopiedOver(H, l, m) = h3
  BY <1>2, <1>4, <1>5, <1>6 DEF CopiedOver, Filled
<1> QED BY <1>9, <1>10, <1>11, SizesStillLast

-----------------------------------------------------------------------------
(* The inductive invariant and the steps.  A call that reports an error does *)
(* no harm, and one that has the memory it needs finishes.                  *)
Codes == { "ERR_NONE", "ERR_MEM", "ERR_BAD_PARAMETER" }
IInv ==
  /\ Sound(heap, line, image, lossy)
  /\ result \in Codes /\ short \in BOOLEAN /\ lossy \in BOOLEAN /\ calls \in Nat

Harmless == result' # "ERR_NONE" => UNCHANGED << line, image >> /\ Same(heap, heap')
Finishes ==
  ~lossy' => /\ ~lossy /\ result' # "ERR_MEM"
             /\ \A l \in Lines : line'[l] \in { line[l], NoLine } \/ NON_NULL(line'[l])
Preserves == IInv' /\ Harmless /\ Finishes

LEMMA BeginWorks ==
  ASSUME Good(heap), NEW fails, NEW Z
  PROVE  Work(heap, Begin(fails), {}, Z) /\ Begin(fails).heap = heap /\ ~Begin(fails).failed
<1>1. PICK r : r = [heap |-> heap, made |-> 0, fails |-> fails, failed |-> FALSE, ret |-> 0]
  OBVIOUS
<1>2. r.heap = heap /\ r.failed = FALSE /\ IsCall(r)
  BY <1>1 DEF IsCall
<1>3. Begin(fails) = r
  BY <1>1 DEF Begin
<1>4. Work(heap, r, {}, Z)
  BY <1>2 DEF Work, Good
<1> QED BY <1>2, <1>3, <1>4

LEMMA MadeStep ==
  ASSUME IInv, NEW out \in Lines, line[out] = NoLine, NEW fails,
         NEW o, NEW T, NEW Z, Makes(heap, Begin(fails), {}, o, T, Z), OneWidth(Z, o),
         NEW lost \in BOOLEAN, lost \/ Exact({}, o, T),
         Called(o, lost), line' = [line EXCEPT ![out] = o.line], UNCHANGED image
  PROVE  Preserves
<1>1. Sound(heap, line, image, TRUE) /\ (~lossy => Sound(heap, line, image, FALSE))
  BY DEF IInv, Sound
<1>2. /\ Sound(o.r.heap, [line EXCEPT ![out] = o.line], image, TRUE)
      /\ Sound(heap, line, image, FALSE) /\ ~o.r.failed /\ Exact({}, o, T)
           => Sound(o.r.heap, [line EXCEPT ![out] = o.line], image, FALSE)
      /\ o.code # "ERR_NONE" => [line EXCEPT ![out] = o.line] = line /\ Same(heap, o.r.heap)
  BY <1>1, LineIsMade
<1>3. o.code \in Codes /\ o.r.failed \in BOOLEAN
  BY DEF Makes, Codes, Work, IsCall
<1>4. /\ calls' = calls + 1 /\ heap' = o.r.heap /\ result' = o.code /\ short' = o.r.failed
      /\ lossy' = (lossy \/ o.r.failed \/ lost) /\ image' = image
  BY DEF Called
<1>5. Sound(heap', line', image', lossy')
  <2>1. CASE lossy \/ o.r.failed \/ lost
    BY <1>2, <1>4, <2>1 DEF Sound
  <2>2. CASE ~lossy /\ ~o.r.failed /\ ~lost
    <3>1. Sound(o.r.heap, [line EXCEPT ![out] = o.line], image, FALSE)
      BY <1>1, <1>2, <2>2
    <3> QED BY <1>4, <3>1 DEF Sound
  <2> QED BY <2>1, <2>2
<1>6. IInv'
  BY <1>3, <1>4, <1>5 DEF IInv
<1>7. Harmless
  BY <1>2, <1>4 DEF Harmless
<1>8. Finishes
  <2>1. line' = [l \in Lines |-> IF l = out THEN o.line ELSE line[l]]
    BY DEF IInv, Sound
  <2>2. ASSUME ~lossy'
        PROVE  ~lossy /\ o.code = "ERR_NONE" /\ NON_NULL(o.line)
    BY <1>3, <1>4, <2>2 DEF Exact, IInv
  <2> QED BY <1>4, <2>1, <2>2 DEF Finishes
<1> QED BY <1>6, <1>7, <1>8 DEF Preserves

LEMMA RefusedStep == IInv /\ Refused => Preserves
<1> SUFFICES ASSUME IInv, Refused PROVE Preserves
  OBVIOUS
<1>1. /\ calls' = calls + 1 /\ result' = "ERR_BAD_PARAMETER" /\ short' \in BOOLEAN
      /\ heap' = heap /\ line' = line /\ image' = image /\ lossy' = lossy
  BY DEF Refused
<1>2. IInv'
  BY <1>1 DEF IInv, Codes
<1>3. Same(heap, heap')
  BY <1>1 DEF Same
<1> QED BY <1>1, <1>2, <1>3 DEF Preserves, Harmless, Finishes

LEMMA WholeLine ==
  ASSUME NEW H, Good(H), NEW l, Owned(H, l), NON_NULL(l)
  PROVE  LineIn(H, l, H[l.msb].size) /\ H[l.msb].size \in Nat \ {0}
         /\ l.msb \in Pointers /\ H[l.msb] # NULL
<1>1. l \in ImageLine
  BY DEF Owned
<1>2. \A i \in Part : l[i] \in Pointers /\ H[l[i]] # NULL
  BY <1>1, PartsOfLine, PointersAreNotZero DEF Owned, Part
<1>3. \A i \in Part : IsVector(H[l[i]]) /\ H[l[i]].size = H[l.msb].size
  BY <1>1, <1>2, PartsOfLine DEF Owned, Good, Part
<1>4. LineIn(H, l, H[l.msb].size)
  BY <1>1, <1>3 DEF LineIn
<1>5. IsVector(H[l.msb]) /\ l.msb \in Pointers /\ H[l.msb] # NULL
  BY <1>1, <1>2, <1>3, PartsOfLine DEF Part
<1> QED BY <1>4, <1>5, SizeOfVector

LEMMA CreateStep ==
  ASSUME IInv, NEW out \in Lines, line[out] = NoLine, NEW size \in Widths, CreateLine(out, size)
  PROVE  Preserves
<1>1. PICK fails, o :
         /\ o = image_line_create(Begin(fails), size) /\ Called(o, FALSE)
         /\ line' = [line EXCEPT ![out] = o.line] /\ UNCHANGED image
  BY DEF CreateLine, Writes, Outcomes
<1>2. Good(heap) /\ size \in Nat \ {0}
  BY SizesAssumption DEF IInv, Sound
<1>3. Work(heap, Begin(fails), {}, { size })
  BY <1>2, BeginWorks
<1>4. PICK T : Makes(heap, Begin(fails), {}, o, T, { size }) /\ Exact({}, o, T)
  BY <1>1, <1>2, <1>3, CreateMakes
<1> QED BY <1>1, <1>4, MadeStep DEF OneWidth

LEMMA ShiftStep ==
  ASSUME IInv, NEW out \in Lines, line[out] = NoLine, NEW a \in Lines, NEW shift \in Shifts,
         ShiftLine(out, a, shift)
  PROVE  Preserves
<1>1. CASE ~NON_NULL(line[a])
  BY <1>1, RefusedStep DEF ShiftLine
<1>2. CASE NON_NULL(line[a])
  <2>1. PICK fails, o :
          /\ o = image_line_shift(Begin(fails), line[a], shift) /\ Called(o, FALSE)
          /\ line' = [line EXCEPT ![out] = o.line] /\ UNCHANGED image
    BY <1>2 DEF ShiftLine, Writes, Outcomes
  <2>2. Good(heap) /\ Owned(heap, line[a])
    BY DEF IInv, Sound, Owners
  <2>3. PICK w : LineIn(heap, line[a], w)
    BY <1>2, <2>2, WholeLine
  <2>4. Work(heap, Begin(fails), {}, { w })
    BY <2>2, BeginWorks
  <2>5. PICK T : Makes(heap, Begin(fails), {}, o, T, { w }) /\ Exact({}, o, T)
    BY <2>1, <2>2, <2>3, <2>4, ShiftMakes
  <2> QED BY <2>1, <2>5, MadeStep DEF OneWidth
<1> QED BY <1>1, <1>2

LEMMA ExtractStep ==
  ASSUME IInv, NEW out \in Lines, line[out] = NoLine, NEW a \in Lines, NEW index \in Indexes,
         NEW size \in Widths, ExtractLine(out, a, index, size)
  PROVE  Preserves
<1>1. CASE ~NON_NULL(line[a])
  BY <1>1, RefusedStep DEF ExtractLine
<1>2. CASE NON_NULL(line[a])
  <2>1. PICK fails, o :
          /\ o = image_line_extract_wrap_ext(Begin(fails), line[a], index, size) /\ Called(o, FALSE)
          /\ line' = [line EXCEPT ![out] = o.line] /\ UNCHANGED image
    BY <1>2 DEF ExtractLine, Writes, Outcomes
  <2>2. Good(heap) /\ Owned(heap, line[a]) /\ size \in Nat \ {0}
    BY SizesAssumption DEF IInv, Sound, Owners
  <2>3. PICK w : LineIn(heap, line[a], w)
    BY <1>2, <2>2, WholeLine
  <2>4. Work(heap, Begin(fails), {}, { size })
    BY <2>2, BeginWorks
  <2>5. PICK T : Makes(heap, Begin(fails), {}, o, T, { size }) /\ Exact({}, o, T)
    BY <2>1, <2>2, <2>3, <2>4, ExtractMakes
  <2> QED BY <2>1, <2>5, MadeStep DEF OneWidth
<1> QED BY <1>1, <1>2

LEMMA MapStep ==
  ASSUME IInv, NEW out \in Lines, line[out] = NoLine, NEW a \in Lines, NEW map \in Palettes,
         MapColors(out, a, map)
  PROVE  Preserves
<1>1. CASE ~NON_NULL(line[a])
  BY <1>1, RefusedStep DEF MapColors
<1>2. CASE NON_NULL(line[a])
  <2>1. PICK fails, o :
          /\ o = image_line_map_colors(Begin(fails), line[a], map) /\ Called(o, FALSE)
          /\ line' = [line EXCEPT ![out] = o.line] /\ UNCHANGED image
    BY <1>2 DEF MapColors, Writes, Outcomes
  <2>2. Good(heap) /\ Owned(heap, line[a])
    BY DEF IInv, Sound, Owners
  <2>3. PICK w : LineIn(heap, line[a], w)
    BY <1>2, <2>2, WholeLine
  <2>4. Work(heap, Begin(fails), {}, { w })
    BY <2>2, BeginWorks
  <2>5. PICK T : Makes(heap, Begin(fails), {}, o, T, { w }) /\ Exact({}, o, T)
    BY <2>1, <2>2, <2>3, <2>4, MapColorsMakes
  <2> QED BY <2>1, <2>5, MadeStep DEF OneWidth
<1> QED BY <1>1, <1>2

LEMMA MatchingLines ==
  ASSUME Good(heap), NEW l, Owned(heap, l), NEW m, Owned(heap, m), MATCHING(l, m)
  PROVE  \E w : LineIn(heap, l, w) /\ LineIn(heap, m, w) /\ w = Width(l) /\ w \in Nat \ {0}
<1>1. NON_NULL(l) /\ NON_NULL(m) /\ heap[l.msb].size = heap[m.msb].size
  BY DEF MATCHING
<1>2. LineIn(heap, l, heap[l.msb].size) /\ heap[l.msb].size \in Nat \ {0}
  BY <1>1, WholeLine
<1>3. LineIn(heap, m, heap[m.msb].size)
  BY <1>1, WholeLine
<1> QED BY <1>1, <1>2, <1>3 DEF Width

LEMMA BelowStep ==
  ASSUME IInv, NEW out \in Lines, line[out] = NoLine, NEW a \in Lines, NEW b \in Lines,
         NEW p \in 0 .. MaxVectors, p = 0 \/ heap[p] # NULL, BelowWithOpacity(out, a, b, p)
  PROVE  Preserves
<1>1. CASE ~MATCHING(line[a], line[b])
  BY <1>1, RefusedStep DEF BelowWithOpacity
<1>2. CASE MATCHING(line[a], line[b])
  <2>1. PICK fails, o :
          /\ o = image_line_below_with_opacity(Begin(fails), line[a], line[b], p)
          /\ Called(o, p = 0 \/ heap[p].size # Width(line[a]))
          /\ line' = [line EXCEPT ![out] = o.line] /\ UNCHANGED image
    BY <1>2 DEF BelowWithOpacity, Writes, Outcomes
  <2>2. Good(heap) /\ Owned(heap, line[a]) /\ Owned(heap, line[b])
    BY DEF IInv, Sound, Owners
  <2>3. PICK w : LineIn(heap, line[a], w) /\ LineIn(heap, line[b], w) /\ w = Width(line[a])
    BY <1>2, <2>2, MatchingLines
  <2>4. CASE p # 0 /\ heap[p].size = w
    <3>1. Called(o, FALSE)
      BY <2>1, <2>3, <2>4 DEF Called
    <3>2. p \in Pointers /\ OfSize(heap[p], w)
      BY <2>2, <2>4, PointersAreNotZero DEF Good, OfSize
    <3>3. Work(heap, Begin(fails), {}, { w })
      BY <2>2, BeginWorks
    <3>4. PICK T : Makes(heap, Begin(fails), {}, o, T, { w }) /\ Exact({}, o, T)
      BY <2>1, <2>2, <2>3, <3>2, <3>3, BelowMakes
    <3> QED BY <2>1, <3>1, <3>4, MadeStep DEF OneWidth
  <2>5. CASE p = 0 \/ heap[p].size # w
    <3>1. Called(o, TRUE)
      BY <2>1, <2>3, <2>5 DEF Called
    <3>2. Work(heap, Begin(fails), {}, Nat)
      BY <2>2, BeginWorks
    <3>3. PICK T : Makes(heap, Begin(fails), {}, o, T, Nat) /\ o.code = "ERR_MEM"
      BY <2>1, <2>2, <2>3, <2>5, <3>2, BelowIsRefused
    <3> QED BY <2>1, <3>1, <3>3, MadeStep DEF OneWidth
  <2> QED BY <2>4, <2>5
<1> QED BY <1>1, <1>2

LEMMA OpacityOfLine ==
  ASSUME IInv, NEW c \in Lines
  PROVE  line[c].opacity \in 0 .. MaxVectors
         /\ (line[c].opacity = 0 \/ heap[line[c].opacity] # NULL)
<1>1. Owned(heap, line[c]) /\ line[c] \in ImageLine
  BY DEF IInv, Sound, Owners, Owned
<1> QED BY <1>1, PartsOfLine DEF Owned, Part

LEMMA JoinStep ==
  ASSUME IInv, NEW out \in Lines, line[out] = NoLine, NEW a \in Lines, NEW b \in Lines,
         NEW start \in Starts, JoinLines(out, a, b, start)
  PROVE  Preserves
<1>1. CASE ~(MATCHING(line[a], line[b]) /\ start \in 0 .. Width(line[a]) - 1)
  BY <1>1, RefusedStep DEF JoinLines
<1>2. CASE MATCHING(line[a], line[b]) /\ start \in 0 .. Width(line[a]) - 1
  <2>1. PICK fails, o :
          /\ o = image_line_join(Begin(fails), line[a], line[b], start) /\ Called(o, FALSE)
          /\ line' = [line EXCEPT ![out] = o.line] /\ UNCHANGED image
    BY <1>2 DEF JoinLines, Writes, Outcomes
  <2>2. Good(heap) /\ Owned(heap, line[a]) /\ Owned(heap, line[b])
    BY DEF IInv, Sound, Owners
  <2>3. PICK w : LineIn(heap, line[a], w) /\ LineIn(heap, line[b], w) /\ w = Width(line[a])
    BY <1>2, <2>2, MatchingLines
  <2>4. Work(heap, Begin(fails), {}, { w })
    BY <2>2, BeginWorks
  <2>5. PICK T : Makes(heap, Begin(fails), {}, o, T, { w }) /\ Exact({}, o, T)
    BY <1>2, <2>1, <2>2, <2>3, <2>4, JoinMakes
  <2> QED BY <2>1, <2>5, MadeStep DEF OneWidth
<1> QED BY <1>1, <1>2

(* The steps that make no vector                                            *)
LEMMA PlainStep ==
  ASSUME IInv, NEW r, NEW o, o = [r |-> r, code |-> "ERR_NONE"] \/ o = Done(r, NoLine, "ERR_NONE"),
         r.failed = FALSE, Called(o, FALSE), Sound(r.heap, line', image', lossy),
         \A l \in Lines : line'[l] \in { line[l], NoLine }
  PROVE  Preserves
<1>1. o.r = r /\ o.code = "ERR_NONE"
  BY DEF Done
<1>2. /\ calls' = calls + 1 /\ heap' = r.heap /\ result' = "ERR_NONE"
      /\ short' \in BOOLEAN /\ lossy' = lossy
  BY <1>1 DEF Called, IInv
<1>3. IInv'
  BY <1>2 DEF IInv, Codes
<1> QED BY <1>2, <1>3 DEF Preserves, Harmless, Finishes

LEMMA WordStep ==
  ASSUME IInv, NEW out \in Lines, NEW index \in 0 .. 2, NEW msb \in Words, NEW lsb \in Words,
         image_line_set_word(out, index, msb, lsb)
  PROVE  Preserves
<1>1. PICK l : l = line[out]
  OBVIOUS
<1>2. CASE ~(NON_NULL(l) /\ index < forced_size(Width(l)))
  BY <1>1, <1>2, RefusedStep DEF image_line_set_word
<1>3. CASE NON_NULL(l) /\ index < forced_size(Width(l))
  <2>1. Good(heap) /\ Owned(heap, l)
    BY <1>1 DEF IInv, Sound, Owners
  <2>2. index \in Chunks(heap[l.msb].size)
    <3>1. forced_size(heap[l.msb].size) \in Nat
      BY <1>3, <2>1, WholeLine, BitHasChunk
    <3> QED BY <1>3, <3>1 DEF Width, Chunks
  <2>3. msb \in SUBSET Places /\ lsb \in SUBSET Places
    BY SizesAssumption
  <2>4. PICK h : h = Worded(heap, l, index, msb, lsb)
    OBVIOUS
  <2>5. Good(h) /\ SizesLast(heap, h)
    BY <1>3, <2>1, <2>2, <2>3, <2>4, LineIsWorded
  <2>6. PICK r : r = [Begin({}) EXCEPT !.heap = Worded(@, l, index, msb, lsb)]
    OBVIOUS
  <2>7. r.heap = h /\ r.failed = FALSE
    BY <2>4, <2>6 DEF Begin
  <2>8. Called([r |-> r, code |-> "ERR_NONE"], FALSE) /\ line' = line /\ image' = image
    BY <1>1, <1>3, <2>6 DEF image_line_set_word
  <2>9. Sound(h, line, image, lossy)
    BY <2>5, BitsChange DEF IInv
  <2> QED BY <2>7, <2>8, <2>9, PlainStep
<1> QED BY <1>2, <1>3

LEMMA FreeStep ==
  ASSUME IInv, NEW out \in Lines, FreeLine(out)
  PROVE  Preserves
<1>1. PICK r : r = image_line_free(Begin({}), line[out])
  OBVIOUS
<1>2. /\ Called(Done(r, NoLine, "ERR_NONE"), FALSE)
      /\ line' = [line EXCEPT ![out] = NoLine] /\ image' = image
  <2>1. PICK o \in { Done(r, NoLine, "ERR_NONE") } :
          Called(o, FALSE) /\ line' = [line EXCEPT ![out] = o.line] /\ image' = image
    BY <1>1 DEF FreeLine, Writes
  <2>2. o = Done(r, NoLine, "ERR_NONE") /\ o.line = NoLine
    BY <2>1 DEF Done
  <2> QED BY <2>1, <2>2
<1>3. r.heap = Without(heap, PartsOf(line[out])) /\ r.failed = FALSE
  BY <1>1, FreedHeap DEF image_line_free, Begin
<1>4. Sound(r.heap, line', image', lossy)
  <2>1. Sound(Without(heap, PartsOf(line[out])), [line EXCEPT ![out] = NoLine], image, lossy)
    BY LineIsFreed DEF IInv
  <2> QED BY <1>2, <1>3, <2>1
<1>5. \A l \in Lines : line'[l] \in { line[l], NoLine }
  BY <1>2 DEF IInv, Sound
<1> QED BY <1>2, <1>3, <1>4, <1>5, PlainStep

LEMMA ImageFreedStep ==
  ASSUME IInv, FreeImage
  PROVE  Preserves
<1>1. PICK r : r = bit_vector_free(Begin({}), PartsOfImage(image.content))
  OBVIOUS
<1>2. image_free(Begin({}), image) = [r |-> r, image |-> NoImage]
  BY <1>1 DEF image_free
<1>3. Called([r |-> r, code |-> "ERR_NONE"], FALSE) /\ image' = NoImage /\ line' = line
  <2>1. image_free(Begin({}), image).r = r /\ image_free(Begin({}), image).image = NoImage
    BY <1>2
  <2>2. SetImage([r |-> image_free(Begin({}), image).r, code |-> "ERR_NONE"],
                 image_free(Begin({}), image).image)
    BY DEF FreeImage
  <2>3. SetImage([r |-> r, code |-> "ERR_NONE"], NoImage)
    BY <2>1, <2>2
  <2> QED BY <2>3 DEF SetImage
<1>4. r.heap = Without(heap, PartsOfImage(image.content)) /\ r.failed = FALSE
  BY <1>1, FreedHeap DEF Begin
<1>5. Sound(r.heap, line', image', lossy)
  <2>1. Sound(Without(heap, PartsOfImage(image.content)), line, NoImage, lossy)
    BY ImageIsFreed DEF IInv
  <2> QED BY <1>3, <1>4, <2>1
<1> QED BY <1>3, <1>4, <1>5, PlainStep

LEMMA ImageCreatedStep ==
  ASSUME IInv, image = NoImage, NEW width \in Widths, NEW height \in Heights, CreateImage(width, height)
  PROVE  Preserves
<1>1. PICK fails, o :
         o = image_create(Begin(fails), width, height) /\ SetImage(o, o.image)
  BY DEF CreateImage
<1>2. Good(heap) /\ width \in Nat \ {0} /\ height \in Nat
  BY SizesAssumption DEF IInv, Sound
<1>3. Work(heap, Begin(fails), {}, {})
  BY <1>2, BeginWorks
<1>4. PICK T : ImageMade(heap, o, T, width)
  BY <1>1, <1>2, <1>3, CreateImageMakes
<1>5. /\ Sound(o.r.heap, line, o.image, lossy \/ o.r.failed)
      /\ o.code # "ERR_NONE" => o.image = NoImage
      /\ Same(heap, o.r.heap)
  BY <1>4, ImageIsMade DEF IInv
<1>6. o.code \in Codes /\ o.r.failed \in BOOLEAN
  BY <1>4 DEF ImageMade, Codes, Work, IsCall
<1>7. /\ calls' = calls + 1 /\ heap' = o.r.heap /\ result' = o.code /\ short' = o.r.failed
      /\ lossy' = (lossy \/ o.r.failed) /\ image' = o.image /\ line' = line
  BY <1>1 DEF SetImage, Called
<1>8. IInv'
  BY <1>5, <1>6, <1>7 DEF IInv
<1>9. Finishes
  BY <1>4, <1>6, <1>7 DEF Finishes, ImageMade, IInv
<1> QED BY <1>5, <1>7, <1>8, <1>9 DEF Preserves, Harmless

LEMMA LineSetStep ==
  ASSUME IInv, NEW y \in 0 .. image.height, NEW a \in Lines, image_set_line(y, a)
  PROVE  Preserves
<1>1. CASE ~(y < image.height /\ MATCHING(image.content[y], line[a]))
  BY <1>1, RefusedStep DEF image_set_line
<1>2. CASE y < image.height /\ MATCHING(image.content[y], line[a])
  <2>1. y \in DOMAIN image.content
    BY <1>2 DEF IInv, Sound, IsImage
  <2>2. Good(heap) /\ Owned(heap, image.content[y]) /\ Owned(heap, line[a])
    BY <2>1 DEF IInv, Sound, Owners
  <2>3. PICK l, m : l = image.content[y] /\ m = line[a]
    OBVIOUS
  <2>4. /\ NON_NULL(l) /\ NON_NULL(m)
        /\ heap[m.lsb].size = heap[l.lsb].size /\ heap[m.msb].size = heap[l.msb].size
        /\ heap[m.opacity].size = heap[l.opacity].size
    BY <1>2, <2>3 DEF MATCHING
  <2>5. PICK h : h = CopiedOver(heap, l, m)
    OBVIOUS
  <2>6. Good(h) /\ SizesLast(heap, h)
    BY <2>2, <2>3, <2>4, <2>5, LineIsCopied
  <2>7. PICK r : r = [Begin({}) EXCEPT !.heap = CopiedOver(@, l, m)]
    OBVIOUS
  <2>8. r.heap = h /\ r.failed = FALSE
    BY <2>5, <2>7 DEF Begin
  <2>9. Called([r |-> r, code |-> "ERR_NONE"], FALSE) /\ line' = line /\ image' = image
    BY <1>2, <2>3, <2>7 DEF image_set_line, SetImage
  <2>10. Sound(h, line, image, lossy)
    BY <2>6, BitsChange DEF IInv
  <2> QED BY <2>8, <2>9, <2>10, PlainStep
<1> QED BY <1>1, <1>2

LEMMA LineTakenStep ==
  ASSUME IInv, NEW y \in 0 .. image.height, NEW a \in Lines, image_own_line_content(y, a)
  PROVE  Preserves
<1>1. CASE ~(y < image.height /\ MATCHING(image.content[y], line[a]))
  BY <1>1, RefusedStep DEF image_own_line_content
<1>2. CASE y < image.height /\ MATCHING(image.content[y], line[a])
  <2>1. y \in DOMAIN image.content
    BY <1>2 DEF IInv, Sound, IsImage
  <2>2. PICK r : r = bit_vector_free(Begin({}), PartsOf(image.content[y]))
    OBVIOUS
  <2>3. r.heap = Without(heap, PartsOf(image.content[y])) /\ r.failed = FALSE
    BY <2>2, FreedHeap DEF Begin
  <2>4. /\ Called([r |-> r, code |-> "ERR_NONE"], FALSE)
        /\ image' = [image EXCEPT !.content[y] = line[a]]
        /\ line' = [line EXCEPT ![a] = NoLine]
    BY <1>2, <2>2 DEF image_own_line_content, MakesRoom, image_line_free
  <2>5. Sound(r.heap, line', image', lossy)
    <3>1. Sound(Without(heap, PartsOf(image.content[y])), [line EXCEPT ![a] = NoLine],
                [image EXCEPT !.content[y] = line[a]], lossy)
      BY <2>1, LineIsTaken DEF IInv
    <3> QED BY <2>3, <2>4, <3>1
  <2>6. \A l \in Lines : line'[l] \in { line[l], NoLine }
    BY <2>4 DEF IInv, Sound
  <2> QED BY <2>3, <2>4, <2>5, <2>6, PlainStep
<1> QED BY <1>1, <1>2

LEMMA NextPreserves == IInv /\ [Next]_vars => Preserves \/ UNCHANGED vars
<1> SUFFICES ASSUME IInv, Next PROVE Preserves
  OBVIOUS
<1>1. CASE ImageCall
  <2>1. CASE image = NoImage /\ \E width \in Widths, height \in Heights : CreateImage(width, height)
    BY <2>1, ImageCreatedStep
  <2>2. CASE FreeImage
    BY <2>2, ImageFreedStep
  <2>3. CASE \E y \in 0 .. image.height, a \in Lines : image_set_line(y, a) \/ image_own_line_content(y, a)
    BY <2>3, LineSetStep, LineTakenStep
  <2> QED BY <1>1, <2>1, <2>2, <2>3 DEF ImageCall
<1>2. ASSUME NEW out \in Lines, LineCall(out)
      PROVE  Preserves
  <2>1. CASE FreeLine(out)
    BY <2>1, FreeStep
  <2>2. CASE \E index \in 0 .. 2, msb \in Words, lsb \in Words : image_line_set_word(out, index, msb, lsb)
    BY <2>2, WordStep
  <2>3. CASE line[out] = NoLine /\ \E size \in Widths : CreateLine(out, size)
    BY <2>3, CreateStep
  <2>4. ASSUME line[out] = NoLine, NEW a \in Lines
        PROVE  /\ \A shift \in Shifts : ShiftLine(out, a, shift) => Preserves
               /\ \A index \in Indexes, size \in Widths : ExtractLine(out, a, index, size) => Preserves
               /\ \A map \in Palettes : MapColors(out, a, map) => Preserves
               /\ \A b \in Lines : image_line_below(out, a, b) => Preserves
               /\ \A b \in Lines, c \in Lines :
                    BelowWithOpacity(out, a, b, line[c].opacity) => Preserves
               /\ \A b \in Lines, start \in Starts : JoinLines(out, a, b, start) => Preserves
    <3>1. \A shift \in Shifts : ShiftLine(out, a, shift) => Preserves
      BY <2>4, ShiftStep
    <3>2. \A index \in Indexes, size \in Widths : ExtractLine(out, a, index, size) => Preserves
      BY <2>4, ExtractStep
    <3>3. \A map \in Palettes : MapColors(out, a, map) => Preserves
      BY <2>4, MapStep
    <3>4. ASSUME NEW b \in Lines, NEW c \in Lines, BelowWithOpacity(out, a, b, line[c].opacity)
          PROVE  Preserves
      BY <2>4, <3>4, BelowStep, OpacityOfLine
    <3>5. ASSUME NEW b \in Lines, image_line_below(out, a, b)
          PROVE  Preserves
      <4>1. BelowWithOpacity(out, a, b, line[b].opacity) \/ Refused
        BY <3>5 DEF image_line_below
      <4> QED BY <3>4, <4>1, RefusedStep
    <3>6. \A b \in Lines, start \in Starts : JoinLines(out, a, b, start) => Preserves
      BY <2>4, JoinStep
    <3> QED BY <3>1, <3>2, <3>3, <3>4, <3>5, <3>6
  <2> QED BY <1>2, <2>1, <2>2, <2>3, <2>4, Zenon DEF LineCall
<1> QED BY <1>1, <1>2 DEF Next

LEMMA InitIsSound == Init => IInv
<1> SUFFICES ASSUME Init PROVE IInv
  OBVIOUS
<1>1. /\ heap = [p \in Pointers |-> NULL] /\ line = [l \in Lines |-> NoLine] /\ image = NoImage
      /\ result = "ERR_NONE" /\ short = FALSE /\ lossy = FALSE /\ calls = 0
  BY DEF Init
<1>2. PICK null : null = NULL
  OBVIOUS
<1>3. heap = [p \in Pointers |-> heap[p]] /\ \A p \in Pointers : heap[p] = NULL
  BY <1>1, <1>2
<1>4. Good(heap)
  BY <1>3 DEF Good
<1>5. NoLine \in ImageLine /\ Disjoint(NoLine, NoLine)
  BY NoLineIsFresh, DisjointLines DEF Fresh
<1>6. line \in [Lines -> ImageLine] /\ \A l \in Lines : line[l] = NoLine
  BY <1>1, <1>5
<1>7. IsImage(image) /\ DOMAIN image.content = {}
  BY <1>1, NoImageIsAnImage DEF IsImage
<1>8. Owners(heap, line, image.content)
  BY <1>5, <1>6, <1>7, NoLineIsOwned DEF Owners
<1>9. Tight(heap, line, image.content)
  BY <1>3 DEF Tight
<1> QED BY <1>1, <1>4, <1>6, <1>7, <1>8, <1>9 DEF IInv, Sound, Codes

LEMMA Invariance == Spec => []IInv
<1>1. IInv /\ [Next]_vars => IInv'
  <2>1. IInv /\ UNCHANGED vars => IInv'
    BY DEF vars, IInv
  <2> QED BY <2>1, NextPreserves DEF Preserves
<1> QED BY <1>1, InitIsSound, PTL DEF Spec

(* The heap holds vectors, the lines pointers, and an image the rows it says *)
THEOREM TypeCorrect == Spec => []TypeOK
<1>1. IInv => TypeOK
  BY DEF IInv, Sound, Good, IsImage, Codes, TypeOK
<1> QED BY <1>1, Invariance, PTL

LEMMA WhereKept ==
  ASSUME NEW k \in Kept
  PROVE  \/ \E l \in Lines, i \in Part : k = << "line", l, i >> /\ Pointer(k) = line[l][i]
         \/ \E y \in DOMAIN image.content, i \in Part :
              k = << "image", y, i >> /\ Pointer(k) = image.content[y][i]
<1>1. CASE \E l \in Lines, i \in Part : k = << "line", l, i >>
  <2>1. PICK l \in Lines, i \in Part : k = << "line", l, i >>
    BY <1>1
  <2>2. k[1] = "line" /\ k[2] = l /\ k[3] = i
    BY <2>1
  <2> QED BY <2>1, <2>2 DEF Pointer
<1>2. CASE \E y \in DOMAIN image.content, i \in Part : k = << "image", y, i >>
  <2>1. PICK y \in DOMAIN image.content, i \in Part : k = << "image", y, i >>
    BY <1>2
  <2>2. k[1] = "image" /\ k[2] = y /\ k[3] = i
    BY <2>1
  <2> QED BY <2>1, <2>2 DEF Pointer
<1> QED BY <1>1, <1>2 DEF Kept, Part

LEMMA WhatIsHeld ==
  ASSUME IInv
  PROVE  Held \subseteq InUse
<1>1. SUFFICES ASSUME NEW k \in Kept, Pointer(k) # 0 PROVE Pointer(k) \in InUse
  BY DEF Held
<1>2. PICK l : Owned(heap, l) /\ \E i \in Part : Pointer(k) = l[i]
  <2>1. CASE \E l \in Lines, i \in Part : k = << "line", l, i >> /\ Pointer(k) = line[l][i]
    <3>1. PICK l \in Lines : \E i \in Part : Pointer(k) = line[l][i]
      BY <2>1
    <3> QED BY <3>1 DEF IInv, Sound, Owners
  <2>2. CASE \E y \in DOMAIN image.content, i \in Part :
               k = << "image", y, i >> /\ Pointer(k) = image.content[y][i]
    <3>1. PICK y \in DOMAIN image.content : \E i \in Part : Pointer(k) = image.content[y][i]
      BY <2>2
    <3> QED BY <3>1 DEF IInv, Sound, Owners
  <2> QED BY <1>1, <2>1, <2>2, WhereKept
<1>3. l \in ImageLine
  BY <1>2 DEF Owned
<1>4. Pointer(k) \in PartsOf(l)
  BY <1>2, <1>3, PartsOfLine
<1> QED BY <1>1, <1>2, <1>4, PartsInUse DEF InUse

(* No two lines or rows share a vector, and each one they point to exists    *)
THEOREM OneOwner == Spec => []PartsHaveOneOwner
<1>1. ASSUME IInv
      PROVE  PartsHaveOneOwner
  <2>1. ASSUME NEW k1 \in Kept, NEW k2 \in Kept, k1 # k2, Pointer(k1) # 0
        PROVE  Pointer(k1) # Pointer(k2)
    <3>1. Owners(heap, line, image.content)
      BY <1>1 DEF IInv, Sound
    <3>2. \A l, y : l \in Lines /\ y \in DOMAIN image.content => Disjoint(image.content[y], line[l])
      <4>1. \A l \in Lines : line[l] \in ImageLine
        BY <3>1 DEF Owners, Owned
      <4>2. \A y \in DOMAIN image.content : image.content[y] \in ImageLine
        BY <3>1 DEF Owners, Owned
      <4> QED BY <3>1, <4>1, <4>2, DisjointLines DEF Owners
    <3>3. CASE \E l \in Lines, i \in Part : k1 = << "line", l, i >> /\ Pointer(k1) = line[l][i]
      <4>1. PICK l \in Lines, i \in Part : k1 = << "line", l, i >> /\ Pointer(k1) = line[l][i]
        BY <3>3
      <4>2. ASSUME NEW m \in Lines, NEW j \in Part, k2 = << "line", m, j >>, Pointer(k2) = line[m][j]
            PROVE  Pointer(k1) # Pointer(k2)
        <5>1. l # m \/ i # j
          BY <2>1, <4>1, <4>2
        <5> QED BY <2>1, <3>1, <4>1, <4>2, <5>1 DEF Owners, Owned, Disjoint
      <4>3. ASSUME NEW y \in DOMAIN image.content, NEW j \in Part, Pointer(k2) = image.content[y][j]
            PROVE  Pointer(k1) # Pointer(k2)
        BY <2>1, <3>1, <4>1, <4>3 DEF Owners, Disjoint
      <4> QED BY <4>2, <4>3, WhereKept
    <3>4. CASE \E y \in DOMAIN image.content, i \in Part :
                 k1 = << "image", y, i >> /\ Pointer(k1) = image.content[y][i]
      <4>1. PICK y \in DOMAIN image.content, i \in Part :
                   k1 = << "image", y, i >> /\ Pointer(k1) = image.content[y][i]
        BY <3>4
      <4>2. ASSUME NEW z \in DOMAIN image.content, NEW j \in Part,
                   k2 = << "image", z, j >>, Pointer(k2) = image.content[z][j]
            PROVE  Pointer(k1) # Pointer(k2)
        <5>1. y # z \/ i # j
          BY <2>1, <4>1, <4>2
        <5> QED BY <2>1, <3>1, <4>1, <4>2, <5>1 DEF Owners, Owned, Disjoint
      <4>3. ASSUME NEW l \in Lines, NEW j \in Part, Pointer(k2) = line[l][j]
            PROVE  Pointer(k1) # Pointer(k2)
        BY <2>1, <3>2, <4>1, <4>3 DEF Disjoint
      <4> QED BY <4>2, <4>3, WhereKept
    <3> QED BY <3>3, <3>4, WhereKept
  <2> QED BY <1>1, <2>1, WhatIsHeld DEF PartsHaveOneOwner
<1> QED BY <1>1, Invariance, PTL

(* A line with all its parts has one width: the sizes image_line_set_word    *)
(* and image_line_join check never differ                                   *)
LinesHaveOneWidth ==
  /\ \A l \in Lines : NON_NULL(line[l]) =>
       heap[line[l].msb].size = heap[line[l].lsb].size /\ heap[line[l].lsb].size = heap[line[l].opacity].size
  /\ \A y \in DOMAIN image.content : NON_NULL(image.content[y]) =>
       /\ heap[image.content[y].msb].size = heap[image.content[y].lsb].size
       /\ heap[image.content[y].lsb].size = heap[image.content[y].opacity].size

THEOREM OneWidthEach == Spec => []LinesHaveOneWidth
<1>1. ASSUME NEW l, Owned(heap, l), NON_NULL(l)
      PROVE  heap[l.msb].size = heap[l.lsb].size /\ heap[l.lsb].size = heap[l.opacity].size
  <2>1. l \in ImageLine
    BY <1>1 DEF Owned
  <2> QED BY <1>1, <2>1, PartsOfLine DEF Owned, Part
<1>2. IInv => LinesHaveOneWidth
  BY <1>1 DEF IInv, Sound, Owners, LinesHaveOneWidth
<1> QED BY <1>2, Invariance, PTL

LEMMA HeldByALine ==
  ASSUME NEW l, NEW p, l \in ImageLine, p \in PartsOf(l)
  PROVE  \E i \in Part : l[i] = p
BY PartsOfLine

(* While memory lasts, every vector belongs to a line or to the image        *)
THEOREM NothingIsLost == Spec => []NothingLeaks
<1>1. ASSUME IInv, ~lossy, NEW p \in InUse
      PROVE  p \in Held
  <2>1. p \in Pointers /\ heap[p] # NULL /\ p # 0
    BY PointersAreNotZero DEF InUse
  <2>2. Holds(line, image.content, p) /\ Owners(heap, line, image.content)
    BY <1>1, <2>1 DEF IInv, Sound, Tight
  <2>3. CASE \E l \in Lines : p \in PartsOf(line[l])
    <3>1. PICK l \in Lines : p \in PartsOf(line[l])
      BY <2>3
    <3>2. PICK i \in Part : line[l][i] = p
      BY <2>2, <3>1, HeldByALine DEF Owners, Owned
    <3>3. PICK k : k = << "line", l, i >>
      OBVIOUS
    <3>4. k \in Kept /\ Pointer(k) = p
      BY <3>2, <3>3 DEF Kept, Pointer, Part
    <3> QED BY <2>1, <3>4 DEF Held
  <2>4. CASE \E y \in DOMAIN image.content : p \in PartsOf(image.content[y])
    <3>1. PICK y \in DOMAIN image.content : p \in PartsOf(image.content[y])
      BY <2>4
    <3>2. PICK i \in Part : image.content[y][i] = p
      BY <2>2, <3>1, HeldByALine DEF Owners, Owned
    <3>3. PICK k : k = << "image", y, i >>
      OBVIOUS
    <3>4. k \in Kept /\ Pointer(k) = p
      BY <3>2, <3>3 DEF Kept, Pointer, Part
    <3> QED BY <2>1, <3>4 DEF Held
  <2> QED BY <2>2, <2>3, <2>4 DEF Holds
<1>2. IInv => NothingLeaks
  BY <1>1, WhatIsHeld DEF NothingLeaks
<1> QED BY <1>2, Invariance, PTL

(* While memory lasts no call reports that it does not, and every line it    *)
(* makes has all its parts: image_line_map_colors and image_line_below,      *)
(* which do not look at all of theirs, too                                   *)
LinesAreWhole == ~lossy => result # "ERR_MEM" /\ \A l \in Lines : line[l] = NoLine \/ NON_NULL(line[l])

THEOREM WholeWhileMemoryLasts == Spec => []LinesAreWhole
<1>1. Init => LinesAreWhole
  BY DEF Init, LinesAreWhole
<1>2. IInv /\ LinesAreWhole /\ [Next]_vars => LinesAreWhole'
  <2> SUFFICES ASSUME IInv, LinesAreWhole, [Next]_vars PROVE LinesAreWhole'
    OBVIOUS
  <2>1. CASE UNCHANGED vars
    BY <2>1 DEF vars, LinesAreWhole, NON_NULL, PartsOf
  <2>2. CASE Finishes
    BY <2>2 DEF Finishes, LinesAreWhole, NON_NULL, PartsOf
  <2> QED BY <2>1, <2>2, NextPreserves DEF Preserves
<1> QED BY <1>1, <1>2, Invariance, PTL DEF Spec

(* A call that reports an error has changed nothing that is in use           *)
THEOREM ErrorsAreHarmless == Spec => ErrorsChangeNothing
<1>1. IInv /\ [Next]_vars =>
        [result' # "ERR_NONE" =>
           /\ UNCHANGED << line, image >>
           /\ \A p \in Held : heap'[p] = heap[p]]_vars
  <2> SUFFICES ASSUME IInv, [Next]_vars
               PROVE  [result' # "ERR_NONE" =>
                         /\ UNCHANGED << line, image >>
                         /\ \A p \in Held : heap'[p] = heap[p]]_vars
    OBVIOUS
  <2>1. CASE UNCHANGED vars
    BY <2>1
  <2>2. CASE Harmless
    <3>1. \A p \in Held : p \in Pointers /\ heap[p] # NULL
      BY WhatIsHeld DEF InUse
    <3> QED BY <2>2, <3>1 DEF Harmless, Same
  <2> QED BY <2>1, <2>2, NextPreserves DEF Preserves
<1> QED BY <1>1, Invariance, PTL DEF Spec, ErrorsChangeNothing

-----------------------------------------------------------------------------
(* What is drawn.  A call leaves the vectors of its heap H as they were, and *)
(* the one it returns is new, of size w and with the bits B.                *)
Running(r) == IsCall(r) /\ Good(r.heap)
NewAt(H, h, p, w, B) == p \in Pointers /\ H[p] = NULL /\ OfSize(h[p], w) /\ Bits(h[p]) = B
Yields(H, s, w, B) ==
  /\ Running(s) /\ Same(H, s.heap) /\ s.ret \in 0 .. MaxVectors
  /\ s.ret # 0 => NewAt(H, s.heap, s.ret, w, B)

LEMMA SameIsTransitive ==
  ASSUME NEW H, NEW h, NEW g, Same(H, h), Same(h, g)
  PROVE  Same(H, g)
BY DEF Same

LEMMA SameIsReflexive == \A H : Same(H, H)
BY DEF Same

LEMMA NewLasts ==
  ASSUME NEW H, NEW h, NEW g, NEW p, NEW w, NEW B, NewAt(H, h, p, w, B), Same(h, g)
  PROVE  NewAt(H, g, p, w, B)
<1>1. p \in Pointers /\ h[p] # NULL
  BY VectorIsNotNull DEF NewAt, OfSize
<1>2. g[p] = h[p]
  BY <1>1 DEF Same
<1> QED BY <1>2 DEF NewAt

LEMMA NewBefore ==
  ASSUME NEW H, NEW h, NEW g, NEW p, NEW w, NEW B, Same(H, h), NewAt(h, g, p, w, B)
  PROVE  NewAt(H, g, p, w, B)
BY DEF NewAt, Same

(* Two vectors made one after the other are not the same                    *)
LEMMA NewOnesDiffer ==
  ASSUME NEW H, NEW h, NEW g, NEW p, NEW q, NEW w, NEW B, NEW u, NEW C,
         NewAt(H, h, p, w, B), NewAt(h, g, q, u, C)
  PROVE  p # q /\ p # 0 /\ q # 0
BY VectorIsNotNull, PointersAreNotZero DEF NewAt, OfSize

LEMMA AllocatedYields ==
  ASSUME NEW r, Running(r), NEW w, NEW B, NEW v, v # NULL => OfSize(v, w) /\ Bits(v) = B
  PROVE  Yields(r.heap, Allocated(r, v), w, B)
<1>1. IsCall(r) /\ Good(r.heap) /\ r.heap = [p \in Pointers |-> r.heap[p]]
  BY DEF Running, Good
<1>2. 0 \in 0 .. MaxVectors
  BY PointersAreNotZero
<1>3. CASE v = NULL
  <2>1. PICK s : s = [r EXCEPT !.ret = 0]
    OBVIOUS
  <2>2. IsCall(s) /\ s.ret = 0 /\ s.heap = r.heap
    BY <1>1, <2>1, CallFields
  <2>3. Allocated(r, v) = s
    BY <1>3, <2>1 DEF Allocated
  <2> QED BY <1>1, <1>2, <2>2, <2>3, SameIsReflexive DEF Yields, Running
<1>4. CASE v # NULL /\ (r.made \in r.fails \/ \A q \in Pointers : r.heap[q] # NULL)
  <2>1. PICK s : s = [r EXCEPT !.made = @ + 1, !.failed = TRUE, !.ret = 0]
    OBVIOUS
  <2>2. IsCall(s) /\ s.ret = 0 /\ s.heap = r.heap
    BY <1>1, <2>1 DEF IsCall
  <2>3. Allocated(r, v) = s
    BY <1>4, <2>1 DEF Allocated
  <2> QED BY <1>1, <1>2, <2>2, <2>3, SameIsReflexive DEF Yields, Running
<1>5. CASE v # NULL /\ ~(r.made \in r.fails \/ \A q \in Pointers : r.heap[q] # NULL)
  <2>1. PICK p : p = CHOOSE q \in Pointers : r.heap[q] = NULL
    OBVIOUS
  <2>2. p \in Pointers /\ r.heap[p] = NULL
    BY <1>5, <2>1
  <2>3. PICK s : s = [r EXCEPT !.made = @ + 1, !.ret = p, !.heap[p] = v]
    OBVIOUS
  <2>4. IsCall(s) /\ s.ret = p /\ s.heap = [r.heap EXCEPT ![p] = v]
    BY <1>1, <2>3 DEF IsCall
  <2>5. s.heap = [q \in Pointers |-> s.heap[q]] /\ s.heap[p] = v
        /\ \A q \in Pointers : q # p => s.heap[q] = r.heap[q]
    BY <1>1, <2>2, <2>4
  <2>6. Good(s.heap)
    BY <1>1, <1>5, <2>5 DEF Good, OfSize
  <2>7. Same(r.heap, s.heap)
    BY <2>2, <2>5 DEF Same
  <2>8. Allocated(r, v) = s
    BY <1>5, <2>1, <2>3 DEF Allocated
  <2>9. s.ret \in 0 .. MaxVectors
    BY <2>2, <2>4, PointersAreNotZero
  <2>10. NewAt(r.heap, s.heap, s.ret, w, B)
    BY <1>5, <2>2, <2>4, <2>5 DEF NewAt
  <2> QED BY <2>4, <2>6, <2>7, <2>8, <2>9, <2>10 DEF Yields, Running
<1> QED BY <1>3, <1>4, <1>5

(* The vector p takes the value v and nothing else changes                   *)
LEMMA PutIn ==
  ASSUME NEW r, Running(r), r.ret \in Pointers, NEW v, IsVector(v)
  PROVE  LET s == Changed(r, v) IN
         /\ Running(s) /\ s.ret = r.ret /\ s.heap[r.ret] = v
         /\ \A q \in Pointers : q # r.ret => s.heap[q] = r.heap[q]
<1>1. IsCall(r) /\ Good(r.heap) /\ r.heap = [p \in Pointers |-> r.heap[p]]
  BY DEF Running, Good
<1>2. PICK s : s = [r EXCEPT !.heap[r.ret] = v]
  OBVIOUS
<1>3. IsCall(s) /\ s.ret = r.ret /\ s.heap = [r.heap EXCEPT ![r.ret] = v]
  BY <1>1, <1>2 DEF IsCall
<1>4. s.heap = [q \in Pointers |-> s.heap[q]] /\ s.heap[r.ret] = v
      /\ \A q \in Pointers : q # r.ret => s.heap[q] = r.heap[q]
  BY <1>1, <1>3
<1>5. Good(s.heap)
  BY <1>1, <1>4 DEF Good
<1>6. Changed(r, v) = s
  BY <1>2, VectorIsNotNull DEF Changed
<1> QED BY <1>3, <1>4, <1>5, <1>6 DEF Running

LEMMA ReturnsNothing ==
  ASSUME NEW r, Running(r)
  PROVE  Running(Changed(r, NULL)) /\ Changed(r, NULL).ret = 0 /\ Changed(r, NULL).heap = r.heap
<1>1. PICK s : s = [r EXCEPT !.ret = 0]
  OBVIOUS
<1>2. IsCall(s) /\ s.ret = 0 /\ s.heap = r.heap
  BY <1>1, CallFields DEF Running
<1> QED BY <1>1, <1>2 DEF Changed, Running

LEMMA ChangedYields ==
  ASSUME NEW H, NEW s, NEW w, NEW C, Yields(H, s, w, C),
         NEW B, NEW v, v # NULL => s.ret # 0 /\ OfSize(v, w) /\ Bits(v) = B
  PROVE  Yields(H, Changed(s, v), w, B)
<1>1. CASE v = NULL
  BY <1>1, ReturnsNothing, PointersAreNotZero DEF Yields
<1>2. CASE v # NULL
  <2>1. Running(s) /\ Same(H, s.heap) /\ s.ret \in Pointers /\ H[s.ret] = NULL
    BY <1>2 DEF Yields, NewAt
  <2>2. PICK t : t = Changed(s, v)
    OBVIOUS
  <2>3. /\ Running(t) /\ t.ret = s.ret /\ t.heap[s.ret] = v
        /\ \A q \in Pointers : q # s.ret => t.heap[q] = s.heap[q]
    BY <1>2, <2>1, <2>2, PutIn DEF OfSize
  <2>4. Same(H, t.heap)
    BY <2>1, <2>3 DEF Same
  <2>5. NewAt(H, t.heap, t.ret, w, B)
    BY <1>2, <2>1, <2>3 DEF NewAt
  <2> QED BY <2>2, <2>3, <2>4, <2>5 DEF Yields
<1> QED BY <1>1, <1>2

LEMMA AtIsThere ==
  ASSUME NEW r, Running(r), NEW p \in 0 .. MaxVectors
  PROVE  /\ At(r, p) # NULL => p \in Pointers /\ At(r, p) = r.heap[p] /\ IsVector(At(r, p))
         /\ p = 0 => At(r, p) = NULL
         /\ p # 0 => p \in Pointers /\ At(r, p) = r.heap[p]
BY PointersAreNotZero DEF At, Running, Good

LEMMA CopiedYields ==
  ASSUME NEW r, Running(r), NEW p \in Pointers, NEW w, OfSize(r.heap[p], w)
  PROVE  Yields(r.heap, Copied(r, p), w, Bits(r.heap[p]))
<1>1. At(r, p) = r.heap[p]
  BY PointersAreNotZero DEF At
<1> QED BY <1>1, AllocatedYields DEF Copied, bit_vector_cpy

LEMMA NotYields ==
  ASSUME NEW H, NEW s, NEW w, NEW B, Yields(H, s, w, B)
  PROVE  Yields(H, Not(s), w, (0 .. w - 1) \ B)
<1>1. PICK v : v = bit_vector_not(At(s, s.ret))
  OBVIOUS
<1>2. CASE s.ret = 0
  <2>1. At(s, s.ret) = NULL
    BY <1>2 DEF At
  <2>2. v = NULL
    BY <1>1, <2>1 DEF bit_vector_not
  <2> QED BY <1>1, <2>2, ChangedYields DEF Not
<1>3. CASE s.ret # 0
  <2>1. At(s, s.ret) = s.heap[s.ret] /\ OfSize(s.heap[s.ret], w) /\ Bits(s.heap[s.ret]) = B
    BY <1>3 DEF At, Yields, NewAt
  <2>2. OfSize(v, w) /\ Bits(v) = (0 .. w - 1) \ B
    BY <1>1, <2>1, NotIsExact DEF OfSize, NotComplements
  <2> QED BY <1>1, <1>3, <2>2, ChangedYields DEF Not
<1> QED BY <1>2, <1>3

LEMMA CombinedBits ==
  ASSUME NEW v, NEW w, NEW size, v # NULL => OfSize(v, size), w # NULL => IsVector(w)
  PROVE  /\ bit_vector_and(v, w) # NULL =>
              /\ v # NULL /\ w # NULL /\ OfSize(bit_vector_and(v, w), size)
              /\ Bits(bit_vector_and(v, w)) = Bits(v) \cap Bits(w)
         /\ bit_vector_or(v, w) # NULL =>
              /\ v # NULL /\ w # NULL /\ OfSize(bit_vector_or(v, w), size)
              /\ Bits(bit_vector_or(v, w)) = Bits(v) \cup Bits(w)
<1>1. CASE v = NULL \/ w = NULL \/ v.size # w.size
  BY <1>1, NothingFromNull
<1>2. CASE v # NULL /\ w # NULL /\ v.size = w.size
  <2>1. OfSize(v, size) /\ OfSize(w, size)
    BY <1>2 DEF OfSize
  <2>2. BitByBit(v, w)
    BY <2>1, OperatorsAreBitByBit DEF OfSize
  <2> QED BY <1>2, <2>1, <2>2, CombinedVector DEF BitByBit
<1> QED BY <1>1, <1>2

LEMMA AndYields ==
  ASSUME NEW H, NEW s, NEW w, NEW B, Yields(H, s, w, B),
         NEW p \in 0 .. MaxVectors, NEW C, p # 0 => Bits(s.heap[p]) = C
  PROVE  Yields(H, And(s, p), w, B \cap C)
<1>1. PICK v, u : v = At(s, s.ret) /\ u = At(s, p)
  OBVIOUS
<1>2. v # NULL => s.ret # 0 /\ OfSize(v, w) /\ Bits(v) = B
  BY <1>1 DEF At, Yields, NewAt
<1>3. u # NULL => IsVector(u) /\ Bits(u) = C
  <2>1. Running(s)
    BY DEF Yields
  <2> QED BY <1>1, <2>1, AtIsThere
<1>4. bit_vector_and(v, u) # NULL =>
        s.ret # 0 /\ OfSize(bit_vector_and(v, u), w) /\ Bits(bit_vector_and(v, u)) = B \cap C
  BY <1>2, <1>3, CombinedBits
<1> QED BY <1>1, <1>4, ChangedYields DEF And

LEMMA OrYields ==
  ASSUME NEW H, NEW s, NEW w, NEW B, Yields(H, s, w, B),
         NEW p \in 0 .. MaxVectors, NEW C, p # 0 => Bits(s.heap[p]) = C
  PROVE  Yields(H, Or(s, p), w, B \cup C)
<1>1. PICK v, u : v = At(s, s.ret) /\ u = At(s, p)
  OBVIOUS
<1>2. v # NULL => s.ret # 0 /\ OfSize(v, w) /\ Bits(v) = B
  BY <1>1 DEF At, Yields, NewAt
<1>3. u # NULL => IsVector(u) /\ Bits(u) = C
  <2>1. Running(s)
    BY DEF Yields
  <2> QED BY <1>1, <2>1, AtIsThere
<1>4. bit_vector_or(v, u) # NULL =>
        s.ret # 0 /\ OfSize(bit_vector_or(v, u), w) /\ Bits(bit_vector_or(v, u)) = B \cup C
  BY <1>2, <1>3, CombinedBits
<1> QED BY <1>1, <1>4, ChangedYields DEF Or

(* What a call has made it may free                                          *)
LEMMA FreedRuns ==
  ASSUME NEW H, NEW r, Running(r), Same(H, r.heap), NEW Q, \A q \in Q \cap Pointers : H[q] = NULL
  PROVE  LET f == bit_vector_free(r, Q) IN
         /\ Running(f) /\ Same(H, f.heap) /\ f.ret = r.ret
         /\ \A p \in Pointers \ Q : f.heap[p] = r.heap[p]
<1>1. IsCall(r) /\ Good(r.heap)
  BY DEF Running
<1>2. PICK h : h = Without(r.heap, Q)
  OBVIOUS
<1>3. Good(h)
  BY <1>1, <1>2, WithoutKeeps
<1>4. PICK f : f = [r EXCEPT !.heap = h]
  OBVIOUS
<1>5. IsCall(f) /\ f.heap = h /\ f.ret = r.ret
  BY <1>1, <1>4, CallFields
<1>6. bit_vector_free(r, Q) = f
  BY <1>1, <1>2, <1>4 DEF bit_vector_free, Without, IsCall
<1>7. \A p \in Pointers : h[p] = IF p \in Q THEN NULL ELSE r.heap[p]
  BY <1>2 DEF Without
<1>8. Same(H, h)
  BY <1>7 DEF Same
<1> QED BY <1>3, <1>5, <1>6, <1>7, <1>8 DEF Running

LEMMA FreedYields ==
  ASSUME NEW H, NEW s, NEW w, NEW B, Yields(H, s, w, B),
         NEW Q, \A q \in Q \cap Pointers : H[q] = NULL /\ q # s.ret
  PROVE  Yields(H, bit_vector_free(s, Q), w, B)
<1>1. PICK f : f = bit_vector_free(s, Q)
  OBVIOUS
<1>2. /\ Running(f) /\ Same(H, f.heap) /\ f.ret = s.ret
      /\ \A p \in Pointers \ Q : f.heap[p] = s.heap[p]
  BY <1>1, FreedRuns DEF Yields
<1>3. s.ret # 0 => s.ret \in Pointers \ Q
  BY PointersAreNotZero DEF Yields
<1> QED BY <1>1, <1>2, <1>3 DEF Yields, NewAt

-----------------------------------------------------------------------------
(* The vectors of a line that a call has made, or those it got               *)
Lined(H, h, l, w, B) ==
  /\ l \in ImageLine
  /\ \A i \in Part : l[i] # 0 => NewAt(H, h, l[i], w, B[i])
  /\ \A i, j \in Part : i # j /\ l[i] # 0 => l[i] # l[j]

Draws(H, r, l, w, B) == Running(r) /\ Same(H, r.heap) /\ Lined(H, r.heap, l, w, B)
LineBits(h, l) == [i \in Part |-> Bits(h[l[i]])]

(* The line is given up, or whole                                            *)
DrawsWhole(H, o, w, B) ==
  Draws(H, o.r, o.line, w, B) /\ (o.line = NoLine \/ NON_NULL(o.line))

LEMMA YieldsRuns ==
  ASSUME NEW H, NEW s, NEW w, NEW B, Yields(H, s, w, B)
  PROVE  Running(s) /\ Same(H, s.heap) /\ s.ret \in 0 .. MaxVectors
BY DEF Yields

LEMMA ThreeDraw ==
  ASSUME NEW H, NEW w, NEW B,
         NEW a, Yields(H, a, w, B["lsb"]), NEW b, Yields(a.heap, b, w, B["msb"]),
         NEW c, Yields(b.heap, c, w, B["opacity"]),
         NEW l, l = [lsb |-> a.ret, msb |-> b.ret, opacity |-> c.ret]
  PROVE  Draws(H, c, l, w, B)
<1>1. /\ Running(c) /\ Same(H, a.heap) /\ Same(a.heap, b.heap) /\ Same(b.heap, c.heap)
      /\ a.ret \in 0 .. MaxVectors /\ b.ret \in 0 .. MaxVectors /\ c.ret \in 0 .. MaxVectors
  BY YieldsRuns
<1>2. Same(H, b.heap) /\ Same(H, c.heap) /\ Same(a.heap, c.heap)
  BY <1>1, SameIsTransitive
<1>3. a.ret # 0 => NewAt(H, a.heap, a.ret, w, B["lsb"])
  BY DEF Yields
<1>4. b.ret # 0 => NewAt(a.heap, b.heap, b.ret, w, B["msb"])
  BY DEF Yields
<1>5. c.ret # 0 => NewAt(b.heap, c.heap, c.ret, w, B["opacity"])
  BY DEF Yields
<1>6. /\ a.ret # 0 => NewAt(H, c.heap, a.ret, w, B["lsb"]) /\ NewAt(H, b.heap, a.ret, w, B["lsb"])
      /\ b.ret # 0 => NewAt(H, c.heap, b.ret, w, B["msb"])
      /\ c.ret # 0 => NewAt(H, c.heap, c.ret, w, B["opacity"])
  BY <1>1, <1>2, <1>3, <1>4, <1>5, NewLasts, NewBefore
<1>7. /\ a.ret # 0 /\ b.ret # 0 => a.ret # b.ret
      /\ a.ret # 0 /\ c.ret # 0 => a.ret # c.ret
      /\ b.ret # 0 /\ c.ret # 0 => b.ret # c.ret
  <2>1. a.ret # 0 /\ b.ret # 0 => a.ret # b.ret
    BY <1>3, <1>4, NewOnesDiffer
  <2>2. a.ret # 0 /\ c.ret # 0 => a.ret # c.ret
    BY <1>5, <1>6, NewOnesDiffer
  <2>3. b.ret # 0 /\ c.ret # 0 => b.ret # c.ret
    BY <1>4, <1>5, NewOnesDiffer
  <2> QED BY <2>1, <2>2, <2>3
<1>8. l["lsb"] = a.ret /\ l["msb"] = b.ret /\ l["opacity"] = c.ret
  OBVIOUS
<1>9. l \in ImageLine
  BY <1>1 DEF ImageLine
<1>10. \A i \in Part : l[i] # 0 => NewAt(H, c.heap, l[i], w, B[i])
  BY <1>6, <1>8 DEF Part
<1>11. \A i, j \in Part : i # j /\ l[i] # 0 => l[i] # l[j]
  BY <1>7, <1>8 DEF Part
<1> QED BY <1>1, <1>2, <1>9, <1>10, <1>11 DEF Draws, Lined

LEMMA NoLineIsLined ==
  ASSUME NEW H, NEW h, NEW w, NEW B
  PROVE  Lined(H, h, NoLine, w, B)
<1>1. NoLine \in ImageLine /\ \A i \in Part : NoLine[i] = 0
  BY NoLineIsFresh DEF Fresh
<1> QED BY <1>1 DEF Lined

(* What was made for a line can be freed                                     *)
LEMMA PartsAreNew ==
  ASSUME NEW H, NEW h, NEW l, NEW w, NEW B, Lined(H, h, l, w, B)
  PROVE  l \in ImageLine /\ \A q \in PartsOf(l) \cap Pointers : H[q] = NULL
<1>1. l \in ImageLine /\ PartsOf(l) = { l[i] : i \in Part }
  BY PartsOfLine DEF Lined
<1> QED BY <1>1, PointersAreNotZero DEF Lined, NewAt

LEMMA GivesUp ==
  ASSUME NEW H, NEW s, NEW l, NEW w, NEW B, Draws(H, s, l, w, B), NEW code, NEW C, NEW u
  PROVE  DrawsWhole(H, Done(image_line_free(s, l), NoLine, code), u, C)
<1>1. Running(s) /\ Same(H, s.heap) /\ Lined(H, s.heap, l, w, B)
  BY DEF Draws
<1>2. PICK f : f = bit_vector_free(s, PartsOf(l))
  OBVIOUS
<1>3. Running(f) /\ Same(H, f.heap)
  BY <1>1, <1>2, PartsAreNew, FreedRuns
<1>4. Draws(H, f, NoLine, u, C)
  BY <1>3, NoLineIsLined DEF Draws
<1> QED BY <1>2, <1>4 DEF DrawsWhole, Done, image_line_free

LEMMA ValidDraws ==
  ASSUME NEW H, NEW s, NEW l, NEW w, NEW B, Draws(H, s, l, w, B)
  PROVE  DrawsWhole(H, valid([r |-> s, line |-> l]), w, B)
<1>1. CASE NON_NULL(l)
  BY <1>1 DEF valid, DrawsWhole, Done
<1>2. CASE ~NON_NULL(l)
  <2>1. valid([r |-> s, line |-> l]) = Done(image_line_free(s, l), NoLine, "ERR_MEM")
    BY <1>2 DEF valid
  <2> QED BY <2>1, GivesUp
<1> QED BY <1>1, <1>2

(* Three vectors computed beforehand                                         *)
LEMMA ThreeMadeDraw ==
  ASSUME NEW r, Running(r), NEW V, NEW w, \A i \in Part : OfSize(V[i], w),
         NEW a, a = Allocated(r, V["lsb"]), NEW b, b = Allocated(a, V["msb"]),
         NEW c, c = Allocated(b, V["opacity"]),
         NEW l, l = [lsb |-> a.ret, msb |-> b.ret, opacity |-> c.ret],
         NEW B, \A i \in Part : Bits(V[i]) = B[i]
  PROVE  Draws(r.heap, c, l, w, B)
<1>1. Yields(r.heap, a, w, B["lsb"])
  BY AllocatedYields DEF Part
<1>2. Running(a)
  BY <1>1, YieldsRuns
<1>3. Yields(a.heap, b, w, B["msb"])
  BY <1>2, AllocatedYields DEF Part
<1>4. Running(b)
  BY <1>3, YieldsRuns
<1>5. Yields(b.heap, c, w, B["opacity"])
  BY <1>4, AllocatedYields DEF Part
<1> QED BY <1>1, <1>3, <1>5, ThreeDraw

(* A line stays as it is while other vectors are made                        *)
LEMMA LineStays ==
  ASSUME NEW H, NEW h, Same(H, h), NEW l, NEW w, LineIn(H, l, w)
  PROVE  LineIn(h, l, w) /\ LineBits(h, l) = LineBits(H, l) /\ \A i \in Part : h[l[i]] = H[l[i]]
<1>1. \A i \in Part : l[i] \in Pointers /\ H[l[i]] # NULL
  <2>1. l \in ImageLine /\ \A i \in Part : l[i] # 0 /\ IsVector(H[l[i]])
    BY PartsOfLine DEF LineIn
  <2> QED BY <2>1, PartsOfLine, PointersAreNotZero, VectorIsNotNull DEF Part
<1>2. \A i \in Part : h[l[i]] = H[l[i]]
  BY <1>1 DEF Same
<1> QED BY <1>2 DEF LineIn, LineBits

LEMMA PartIs ==
  ASSUME NEW r, Running(r), NEW H, Same(H, r.heap), NEW l, NEW w, LineIn(H, l, w)
  PROVE  /\ At(r, l.lsb) = H[l.lsb] /\ At(r, l.msb) = H[l.msb] /\ At(r, l.opacity) = H[l.opacity]
         /\ OfSize(H[l.lsb], w) /\ OfSize(H[l.msb], w) /\ OfSize(H[l.opacity], w)
         /\ l.lsb \in Pointers /\ l.msb \in Pointers /\ l.opacity \in Pointers
         /\ r.heap[l.lsb] = H[l.lsb] /\ r.heap[l.msb] = H[l.msb] /\ r.heap[l.opacity] = H[l.opacity]
         /\ LineIn(r.heap, l, w) /\ w \in Nat \ {0}
<1>1. l \in ImageLine /\ \A i \in Part : l[i] # 0 /\ OfSize(H[l[i]], w)
  BY PartsOfLine DEF LineIn, OfSize
<1>2. LineIn(r.heap, l, w) /\ \A i \in Part : r.heap[l[i]] = H[l[i]]
  BY LineStays
<1>3. \A i \in Part : l[i] \in Pointers /\ At(r, l[i]) = H[l[i]]
  BY <1>1, <1>2, PartsOfLine, PointersAreNotZero DEF Part, At
<1>4. w \in Nat \ {0}
  BY <1>1, SizeOfVector DEF OfSize, Part
<1> QED BY <1>1, <1>2, <1>3, <1>4 DEF Part

-----------------------------------------------------------------------------
(* The lines drawn by the functions that make a line from three vectors      *)
LEMMA BlankHasNoBits ==
  ASSUME NEW size \in Nat \ {0}
  PROVE  OfSize(bit_vector_create(size, 0), size) /\ Bits(bit_vector_create(size, 0)) = {}
<1>1. PICK c : c = [j \in Chunks(size) |-> {}]
  OBVIOUS
<1>2. c \in [Chunks(size) -> SUBSET Places] /\ \A j \in Chunks(size) : c[j] = {}
  BY <1>1
<1>3. bit_vector_create(size, 0) = [size |-> size, content |-> c]
  BY <1>1 DEF bit_vector_create
<1>4. Bits([size |-> size, content |-> c]) = { k \in 0 .. size - 1 : k % 32 \in c[k \div 32] }
  BY <1>2, VectorOfChunks
<1>5. \A k \in 0 .. size - 1 : k % 32 \notin c[k \div 32]
  BY <1>2, BitHasChunk
<1> QED BY <1>3, <1>4, <1>5, BlankVector

NoBits == [i \in Part |-> {}]

LEMMA CreateDraws ==
  ASSUME NEW r, Running(r), NEW size \in Nat \ {0}
  PROVE  DrawsWhole(r.heap, image_line_create(r, size), size, NoBits)
<1>1. PICK V : V = [i \in Part |-> bit_vector_create(size, 0)]
  OBVIOUS
<1>2. \A i \in Part : V[i] = bit_vector_create(size, 0)
  BY <1>1
<1>3. PICK a : a = Created(r, size)
  OBVIOUS
<1>4. PICK b : b = Created(a, size)
  OBVIOUS
<1>5. PICK c : c = Created(b, size)
  OBVIOUS
<1>6. PICK l : l = [lsb |-> a.ret, msb |-> b.ret, opacity |-> c.ret]
  OBVIOUS
<1>7. image_line_create(r, size) = valid([r |-> c, line |-> l])
  BY <1>3, <1>4, <1>5, <1>6 DEF image_line_create, do_image_line
<1>8. Draws(r.heap, c, l, size, NoBits)
  <2>1. \A i \in Part : OfSize(V[i], size) /\ Bits(V[i]) = NoBits[i]
    BY <1>2, BlankHasNoBits DEF NoBits
  <2>2. /\ a = Allocated(r, V["lsb"]) /\ b = Allocated(a, V["msb"]) /\ c = Allocated(b, V["opacity"])
    BY <1>2, <1>3, <1>4, <1>5 DEF Created, Part
  <2> QED BY <1>6, <2>1, <2>2, ThreeMadeDraw
<1> QED BY <1>7, <1>8, ValidDraws

(* What a shift, an extraction and a join do to a set of bits                *)
ShiftedBits(B, w, by) == { k \in 0 .. w - 1 : k - by \in B }
ExtractedBits(B, w, index, size) == { k \in 0 .. size - 1 : (k + index) % w \in B }
JoinedBits(B, C, start) == { k \in B : k < start } \cup { k \in C : k >= start }

LEMMA ShiftDraws ==
  ASSUME NEW r, Running(r), NEW l, NEW w, LineIn(r.heap, l, w), NEW shift \in Int, ShiftFits(w, shift)
  PROVE  DrawsWhole(r.heap, image_line_shift(r, l, shift), w,
                    [i \in Part |-> ShiftedBits(Bits(r.heap[l[i]]), w, shift)])
<1>1. PICK V, B : /\ V = [i \in Part |-> bit_vector_shift(r.heap[l[i]], shift)]
                  /\ B = [i \in Part |-> ShiftedBits(Bits(r.heap[l[i]]), w, shift)]
  OBVIOUS
<1>2. \A i \in Part : V[i] = bit_vector_shift(r.heap[l[i]], shift)
  BY <1>1
<1>3. PICK a : a = Allocated(r, bit_vector_shift(At(r, l.lsb), shift))
  OBVIOUS
<1>4. PICK b : b = Allocated(a, bit_vector_shift(At(a, l.msb), shift))
  OBVIOUS
<1>5. PICK c : c = Allocated(b, bit_vector_shift(At(b, l.opacity), shift))
  OBVIOUS
<1>6. PICK m : m = [lsb |-> a.ret, msb |-> b.ret, opacity |-> c.ret]
  OBVIOUS
<1>7. image_line_shift(r, l, shift) = valid([r |-> c, line |-> m])
  BY <1>3, <1>4, <1>5, <1>6 DEF image_line_shift, do_image_line
<1>8. \A i \in Part : OfSize(V[i], w) /\ Bits(V[i]) = B[i]
  <2>1. SUFFICES ASSUME NEW i \in Part, NEW v, v = r.heap[l[i]]
                 PROVE  OfSize(bit_vector_shift(v, shift), w)
                        /\ Bits(bit_vector_shift(v, shift)) = ShiftedBits(Bits(v), w, shift)
    BY <1>1
  <2>2. IsVector(v) /\ v.size = w /\ OfSize(v, w)
    BY <2>1 DEF LineIn, OfSize
  <2>3. v # NULL /\ w \in Nat \ {0}
    BY <2>2, VectorIsNotNull, SizeOfVector
  <2>4. bit_vector_shift(v, shift) = bit_vector_extract_zero_ext(v, -shift, w)
    BY <2>2, <2>3 DEF bit_vector_shift
  <2>5. -shift \in Int /\ v.size <= SIZE_RANGE /\ v.size - SIZE_RANGE <= -shift /\ -shift + w <= SIZE_RANGE
    BY <2>2 DEF ShiftFits
  <2>6. ExtractsWithZeros(v, -shift, w)
    BY <2>2, <2>3, <2>5, ExtractReadsZeros
  <2>7. Bits(bit_vector_shift(v, shift)) = { k \in 0 .. w - 1 : k + (-shift) \in Bits(v) }
    BY <2>4, <2>6 DEF ExtractsWithZeros
  <2>8. \A k \in 0 .. w - 1 : k + (-shift) = k - shift
    BY <2>3 DEF ShiftFits
  <2> QED BY <2>2, <2>7, <2>8, ShiftedVector DEF ShiftedBits
<1>9. a = Allocated(r, V["lsb"])
  <2>1. At(r, l.lsb) = r.heap[l.lsb]
    BY PartIs, SameIsReflexive
  <2> QED BY <1>2, <1>3, <2>1 DEF Part
<1>10. Running(a) /\ Same(r.heap, a.heap)
  BY <1>8, <1>9, AllocatedYields, YieldsRuns DEF Part
<1>11. b = Allocated(a, V["msb"])
  <2>1. At(a, l.msb) = r.heap[l.msb]
    BY <1>10, PartIs
  <2> QED BY <1>2, <1>4, <2>1 DEF Part
<1>12. Running(b) /\ Same(r.heap, b.heap)
  BY <1>8, <1>10, <1>11, AllocatedYields, YieldsRuns, SameIsTransitive DEF Part
<1>13. c = Allocated(b, V["opacity"])
  <2>1. At(b, l.opacity) = r.heap[l.opacity]
    BY <1>12, PartIs
  <2> QED BY <1>2, <1>5, <2>1 DEF Part
<1>14. Draws(r.heap, c, m, w, B)
  BY <1>6, <1>8, <1>9, <1>11, <1>13, ThreeMadeDraw
<1> QED BY <1>1, <1>7, <1>14, ValidDraws

LEMMA ExtractDraws ==
  ASSUME NEW r, Running(r), NEW l, NEW w, LineIn(r.heap, l, w), NEW index \in Int, NEW size \in Nat \ {0},
         ExtractFits(w, index, size)
  PROVE  DrawsWhole(r.heap, image_line_extract_wrap_ext(r, l, index, size), size,
                    [i \in Part |-> ExtractedBits(Bits(r.heap[l[i]]), w, index, size)])
<1>1. PICK V, B : /\ V = [i \in Part |-> bit_vector_extract_wrap_ext(r.heap[l[i]], index, size)]
                  /\ B = [i \in Part |-> ExtractedBits(Bits(r.heap[l[i]]), w, index, size)]
  OBVIOUS
<1>2. \A i \in Part : V[i] = bit_vector_extract_wrap_ext(r.heap[l[i]], index, size)
  BY <1>1
<1>3. PICK a : a = Allocated(r, bit_vector_extract_wrap_ext(At(r, l.lsb), index, size))
  OBVIOUS
<1>4. PICK b : b = Allocated(a, bit_vector_extract_wrap_ext(At(a, l.msb), index, size))
  OBVIOUS
<1>5. PICK c : c = Allocated(b, bit_vector_extract_wrap_ext(At(b, l.opacity), index, size))
  OBVIOUS
<1>6. PICK m : m = [lsb |-> a.ret, msb |-> b.ret, opacity |-> c.ret]
  OBVIOUS
<1>7. image_line_extract_wrap_ext(r, l, index, size) = valid([r |-> c, line |-> m])
  BY <1>3, <1>4, <1>5, <1>6 DEF image_line_extract_wrap_ext, do_image_line
<1>8. \A i \in Part : OfSize(V[i], size) /\ Bits(V[i]) = B[i]
  <2>1. SUFFICES ASSUME NEW i \in Part, NEW v, v = r.heap[l[i]]
                 PROVE  OfSize(bit_vector_extract_wrap_ext(v, index, size), size)
                        /\ Bits(bit_vector_extract_wrap_ext(v, index, size)) = ExtractedBits(Bits(v), w, index, size)
    BY <1>1
  <2>2. IsVector(v) /\ v.size = w
    BY <2>1 DEF LineIn, OfSize
  <2>3. ExtractsInTurn(v, index, size)
    BY <2>2, ExtractReadsInTurn DEF ExtractFits
  <2>4. Bits(bit_vector_extract_wrap_ext(v, index, size)) = { k \in 0 .. size - 1 : (k + index) % w \in Bits(v) }
    BY <2>2, <2>3 DEF ExtractsInTurn, ExtractFits
  <2> QED BY <2>2, <2>4, ExtractedVector DEF ExtractedBits
<1>9. a = Allocated(r, V["lsb"])
  <2>1. At(r, l.lsb) = r.heap[l.lsb]
    BY PartIs, SameIsReflexive
  <2> QED BY <1>2, <1>3, <2>1 DEF Part
<1>10. Running(a) /\ Same(r.heap, a.heap)
  BY <1>8, <1>9, AllocatedYields, YieldsRuns DEF Part
<1>11. b = Allocated(a, V["msb"])
  <2>1. At(a, l.msb) = r.heap[l.msb]
    BY <1>10, PartIs
  <2> QED BY <1>2, <1>4, <2>1 DEF Part
<1>12. Running(b) /\ Same(r.heap, b.heap)
  BY <1>8, <1>10, <1>11, AllocatedYields, YieldsRuns, SameIsTransitive DEF Part
<1>13. c = Allocated(b, V["opacity"])
  <2>1. At(b, l.opacity) = r.heap[l.opacity]
    BY <1>12, PartIs
  <2> QED BY <1>2, <1>5, <2>1 DEF Part
<1>14. Draws(r.heap, c, m, size, B)
  BY <1>6, <1>8, <1>9, <1>11, <1>13, ThreeMadeDraw
<1> QED BY <1>1, <1>7, <1>14, ValidDraws

(* The copy of a line, some parts of which may be missing                    *)
LEMMA CopyDraws ==
  ASSUME NEW r, Running(r), NEW l, NEW w, LineIn(r.heap, l, w),
         NEW a, a = Copied(r, l.lsb), NEW b, b = Copied(a, l.msb), NEW c, c = Copied(b, l.opacity),
         NEW m, m = [lsb |-> a.ret, msb |-> b.ret, opacity |-> c.ret]
  PROVE  Draws(r.heap, c, m, w, LineBits(r.heap, l))
<1>1. PICK V : V = [i \in Part |-> r.heap[l[i]]]
  OBVIOUS
<1>2. \A i \in Part : V[i] = r.heap[l[i]]
  BY <1>1
<1>3. \A i \in Part : OfSize(V[i], w) /\ Bits(V[i]) = LineBits(r.heap, l)[i]
  BY <1>2 DEF LineIn, OfSize, LineBits
<1>4. a = Allocated(r, V["lsb"])
  <2>1. At(r, l.lsb) = r.heap[l.lsb]
    BY PartIs, SameIsReflexive
  <2> QED BY <1>2, <2>1 DEF Part, Copied, bit_vector_cpy
<1>5. Running(a) /\ Same(r.heap, a.heap)
  BY <1>3, <1>4, AllocatedYields, YieldsRuns DEF Part
<1>6. b = Allocated(a, V["msb"])
  <2>1. At(a, l.msb) = r.heap[l.msb]
    BY <1>5, PartIs
  <2> QED BY <1>2, <2>1 DEF Part, Copied, bit_vector_cpy
<1>7. Running(b) /\ Same(r.heap, b.heap)
  BY <1>3, <1>5, <1>6, AllocatedYields, YieldsRuns, SameIsTransitive DEF Part
<1>8. c = Allocated(b, V["opacity"])
  <2>1. At(b, l.opacity) = r.heap[l.opacity]
    BY <1>7, PartIs
  <2> QED BY <1>2, <2>1 DEF Part, Copied, bit_vector_cpy
<1> QED BY <1>3, <1>4, <1>6, <1>8, ThreeMadeDraw

LEMMA JoinDraws ==
  ASSUME NEW r, Running(r), NEW l1, NEW l2, NEW w, LineIn(r.heap, l1, w), LineIn(r.heap, l2, w),
         NEW start \in 0 .. w - 1
  PROVE  DrawsWhole(r.heap, image_line_join(r, l1, l2, start), w,
                    [i \in Part |-> JoinedBits(Bits(r.heap[l1[i]]), Bits(r.heap[l2[i]]), start)])
<1>1. PICK B : B = [i \in Part |-> JoinedBits(Bits(r.heap[l1[i]]), Bits(r.heap[l2[i]]), start)]
  OBVIOUS
<1>2. \A i \in Part : OfSize(r.heap[l1[i]], w) /\ OfSize(r.heap[l2[i]], w)
  BY DEF LineIn, OfSize
<1>3. r.heap[l1.lsb].size = w /\ w \in Nat \ {0}
  BY PartIs, SameIsReflexive DEF OfSize
<1>4. start % w = 0 <=> start = 0
  BY <1>3, RemainderSmall
<1>5. CASE start % w = 0
  <2>1. PICK a : a = Copied(r, l2.lsb)
    OBVIOUS
  <2>2. PICK b : b = Copied(a, l2.msb)
    OBVIOUS
  <2>3. PICK c : c = Copied(b, l2.opacity)
    OBVIOUS
  <2>4. PICK m : m = [lsb |-> a.ret, msb |-> b.ret, opacity |-> c.ret]
    OBVIOUS
  <2>5. Draws(r.heap, c, m, w, LineBits(r.heap, l2))
    BY <2>1, <2>2, <2>3, <2>4, CopyDraws
  <2>6. image_line_join(r, l1, l2, start) = valid([r |-> c, line |-> m])
    BY <1>3, <1>5, <2>1, <2>2, <2>3, <2>4 DEF image_line_join, do_image_line
  <2>7. LineBits(r.heap, l2) = B
    <3>1. ASSUME NEW i \in Part
          PROVE  Bits(r.heap[l2[i]]) = JoinedBits(Bits(r.heap[l1[i]]), Bits(r.heap[l2[i]]), start)
      <4>1. \A k \in Bits(r.heap[l1[i]]) \cup Bits(r.heap[l2[i]]) : k \in Nat
        BY <1>2, <1>3 DEF Bits, OfSize
      <4> QED BY <1>4, <1>5, <4>1 DEF JoinedBits
    <3> QED BY <1>1, <3>1 DEF LineBits
  <2> QED BY <1>1, <2>5, <2>6, <2>7, ValidDraws
<1>6. CASE start % w # 0
  <2>1. PICK V : V = [i \in Part |-> bit_vector_join(r.heap[l1[i]], r.heap[l2[i]], start)]
    OBVIOUS
  <2>2. PICK a : a = Allocated(r, V["lsb"])
    OBVIOUS
  <2>3. PICK b : b = Allocated(a, V["msb"])
    OBVIOUS
  <2>4. PICK c : c = Allocated(b, V["opacity"])
    OBVIOUS
  <2>5. PICK m : m = [lsb |-> a.ret, msb |-> b.ret, opacity |-> c.ret]
    OBVIOUS
  <2>6. /\ V["lsb"] = bit_vector_join(At(r, l1.lsb), At(r, l2.lsb), start)
        /\ V["msb"] = bit_vector_join(At(r, l1.msb), At(r, l2.msb), start)
        /\ V["opacity"] = bit_vector_join(At(r, l1.opacity), At(r, l2.opacity), start)
    <3>1. /\ At(r, l1.lsb) = r.heap[l1.lsb] /\ At(r, l1.msb) = r.heap[l1.msb]
          /\ At(r, l1.opacity) = r.heap[l1.opacity]
          /\ At(r, l2.lsb) = r.heap[l2.lsb] /\ At(r, l2.msb) = r.heap[l2.msb]
          /\ At(r, l2.opacity) = r.heap[l2.opacity]
      BY PartIs, SameIsReflexive
    <3> QED BY <2>1, <3>1 DEF Part
  <2>7. image_line_join(r, l1, l2, start) = valid([r |-> c, line |-> m])
    BY <1>3, <1>6, <2>2, <2>3, <2>4, <2>5, <2>6 DEF image_line_join
  <2>8. \A i \in Part : OfSize(V[i], w) /\ Bits(V[i]) = B[i]
    <3>1. SUFFICES ASSUME NEW i \in Part, NEW u, u = r.heap[l1[i]], NEW v, v = r.heap[l2[i]]
                   PROVE  OfSize(bit_vector_join(u, v, start), w)
                          /\ Bits(bit_vector_join(u, v, start)) = JoinedBits(Bits(u), Bits(v), start)
      BY <1>1, <2>1
    <3>2. OfSize(u, w) /\ OfSize(v, w) /\ start \in 0 .. w
      BY <1>2, <1>3, <3>1
    <3>3. JoinsAt(u, v, start)
      BY <3>2, JoinIsExact DEF OfSize
    <3> QED BY <3>2, <3>3, JoinedVector DEF JoinsAt, JoinedBits, OfSize
  <2>9. Draws(r.heap, c, m, w, B)
    BY <2>2, <2>3, <2>4, <2>5, <2>8, ThreeMadeDraw
  <2> QED BY <1>1, <2>7, <2>9, ValidDraws
<1> QED BY <1>5, <1>6

-----------------------------------------------------------------------------
(* The pixels of colour i, from the bits of msb and lsb                      *)
MaskBits(M, L, W, i) == { x \in W : (x \in M <=> i \in { 2, 3 }) /\ (x \in L <=> i \in { 1, 3 }) }

LEMMA BitsAreBelow ==
  ASSUME NEW v, NEW w, OfSize(v, w)
  PROVE  Bits(v) \subseteq 0 .. w - 1
BY DEF Bits, OfSize

LEMMA MasksAreCombined ==
  ASSUME NEW W, NEW M, NEW L, M \subseteq W, L \subseteq W
  PROVE  /\ (W \ M) \cap (W \ L) = MaskBits(M, L, W, 0)
         /\ (W \ M) \cap L = MaskBits(M, L, W, 1)
         /\ (W \ L) \cap M = MaskBits(M, L, W, 2)
         /\ L \cap M = MaskBits(M, L, W, 3)
<1>1. /\ 0 \notin { 2, 3 } /\ 1 \notin { 2, 3 } /\ 2 \in { 2, 3 } /\ 3 \in { 2, 3 }
      /\ 0 \notin { 1, 3 } /\ 1 \in { 1, 3 } /\ 2 \notin { 1, 3 } /\ 3 \in { 1, 3 }
  OBVIOUS
<1> QED BY <1>1, Zenon DEF MaskBits

LEMMA MaskYields ==
  ASSUME NEW r, Running(r), NEW l, NEW w, LineIn(r.heap, l, w), NEW i \in 0 .. 3
  PROVE  Yields(r.heap, Mask(r, l, i), w, MaskBits(Bits(r.heap[l.msb]), Bits(r.heap[l.lsb]), 0 .. w - 1, i))
<1>1. PICK M, L, W : M = Bits(r.heap[l.msb]) /\ L = Bits(r.heap[l.lsb]) /\ W = 0 .. w - 1
  OBVIOUS
<1>2. /\ l.msb \in Pointers /\ l.lsb \in Pointers
      /\ OfSize(r.heap[l.msb], w) /\ OfSize(r.heap[l.lsb], w)
  BY PartIs, SameIsReflexive
<1>3. l.msb \in 0 .. MaxVectors /\ l.lsb \in 0 .. MaxVectors
  BY <1>2, PointersAreNotZero
<1>4. M \subseteq W /\ L \subseteq W
  BY <1>1, <1>2, BitsAreBelow
<1>5. PICK m, n : m = Copied(r, l.msb) /\ n = Copied(r, l.lsb)
  OBVIOUS
<1>6. Yields(r.heap, m, w, M) /\ Yields(r.heap, n, w, L)
  BY <1>1, <1>2, <1>5, CopiedYields
<1>7. Yields(r.heap, Not(m), w, W \ M) /\ Yields(r.heap, Not(n), w, W \ L)
  BY <1>1, <1>6, NotYields
<1>8. CASE i = 0
  <2>1. PICK t : t = Not(n)
    OBVIOUS
  <2>2. Yields(r.heap, t, w, W \ L) /\ Running(t) /\ Same(r.heap, t.heap) /\ t.ret \in 0 .. MaxVectors
    BY <1>7, <2>1, YieldsRuns
  <2>3. CASE t.ret = 0
    <3>1. Mask(r, l, i) = t
      BY <1>5, <1>8, <2>1, <2>3 DEF Mask
    <3> QED BY <2>2, <2>3, <3>1 DEF Yields
  <2>4. CASE t.ret # 0
    <3>1. PICK c : c = Copied(t, l.msb)
      OBVIOUS
    <3>2. OfSize(t.heap[l.msb], w) /\ Bits(t.heap[l.msb]) = M
      BY <1>1, <2>2, PartIs
    <3>3. Yields(t.heap, c, w, M)
      BY <1>2, <2>2, <3>1, <3>2, CopiedYields
    <3>4. PICK d : d = Not(c)
      OBVIOUS
    <3>5. Yields(t.heap, d, w, W \ M)
      BY <1>1, <3>3, <3>4, NotYields
    <3>6. NewAt(r.heap, t.heap, t.ret, w, W \ L)
      BY <2>2, <2>4 DEF Yields
    <3>7. Same(t.heap, d.heap)
      BY <3>5, YieldsRuns
    <3>8. NewAt(r.heap, d.heap, t.ret, w, W \ L)
      BY <3>6, <3>7, NewLasts
    <3>9. PICK e : e = And(d, t.ret)
      OBVIOUS
    <3>10. Yields(t.heap, e, w, (W \ M) \cap (W \ L))
      BY <2>2, <3>5, <3>8, <3>9, AndYields DEF NewAt
    <3>11. Yields(r.heap, e, w, (W \ M) \cap (W \ L))
      BY <2>2, <3>10, NewBefore, SameIsTransitive DEF Yields
    <3>12. PICK f : f = bit_vector_free(e, { t.ret })
      OBVIOUS
    <3>13. r.heap[t.ret] = NULL /\ t.ret # e.ret
      <4>1. e.ret # 0 => NewAt(t.heap, e.heap, e.ret, w, (W \ M) \cap (W \ L))
        BY <3>10 DEF Yields
      <4> QED BY <2>4, <3>6, <4>1, NewOnesDiffer DEF NewAt
    <3>14. Yields(r.heap, f, w, (W \ M) \cap (W \ L))
      BY <3>11, <3>12, <3>13, FreedYields
    <3>15. Mask(r, l, i) = f
      BY <1>5, <1>8, <2>1, <2>4, <3>1, <3>4, <3>9, <3>12 DEF Mask
    <3>16. (W \ M) \cap (W \ L) = MaskBits(M, L, W, 0)
      BY <1>4, MasksAreCombined
    <3> QED BY <1>1, <1>8, <3>14, <3>15, <3>16
  <2> QED BY <2>3, <2>4
<1>9. /\ Same(r.heap, Not(m).heap) /\ Same(r.heap, Not(n).heap) /\ Same(r.heap, n.heap)
      /\ Running(Not(m)) /\ Running(Not(n)) /\ Running(n)
  BY <1>6, <1>7, YieldsRuns
<1>10. Bits(Not(m).heap[l.lsb]) = L /\ Bits(Not(n).heap[l.msb]) = M /\ Bits(n.heap[l.msb]) = M
  BY <1>1, <1>9, PartIs
<1>11. CASE i = 1
  <2>1. Mask(r, l, i) = And(Not(m), l.lsb)
    BY <1>5, <1>11 DEF Mask
  <2>2. Yields(r.heap, And(Not(m), l.lsb), w, (W \ M) \cap L)
    BY <1>3, <1>7, <1>10, AndYields
  <2>3. (W \ M) \cap L = MaskBits(M, L, W, 1)
    BY <1>4, MasksAreCombined
  <2> QED BY <1>1, <1>11, <2>1, <2>2, <2>3
<1>12. CASE i = 2
  <2>1. Mask(r, l, i) = And(Not(n), l.msb)
    BY <1>5, <1>12 DEF Mask
  <2>2. Yields(r.heap, And(Not(n), l.msb), w, (W \ L) \cap M)
    BY <1>3, <1>7, <1>10, AndYields
  <2>3. (W \ L) \cap M = MaskBits(M, L, W, 2)
    BY <1>4, MasksAreCombined
  <2> QED BY <1>1, <1>12, <2>1, <2>2, <2>3
<1>13. CASE i = 3
  <2>1. Mask(r, l, i) = And(n, l.msb)
    BY <1>5, <1>13 DEF Mask
  <2>2. Yields(r.heap, And(n, l.msb), w, L \cap M)
    BY <1>3, <1>6, <1>10, AndYields
  <2>3. L \cap M = MaskBits(M, L, W, 3)
    BY <1>4, MasksAreCombined
  <2> QED BY <1>1, <1>13, <2>1, <2>2, <2>3
<1> QED BY <1>8, <1>11, <1>12, <1>13

-----------------------------------------------------------------------------
(* The vector q takes the bits of p                                          *)
Takes(r, s, w, q, p) ==
  /\ Running(s) /\ s.ret = q /\ OfSize(s.heap[q], w)
  /\ Bits(s.heap[q]) = Bits(r.heap[q]) \cup Bits(r.heap[p])
  /\ \A x \in Pointers : x # q => s.heap[x] = r.heap[x]

LEMMA TakesBits ==
  ASSUME NEW r, Running(r), NEW w, NEW q \in Pointers, OfSize(r.heap[q], w),
         NEW p \in Pointers, OfSize(r.heap[p], w),
         NEW s, s = Or(On(r, q), p)
  PROVE  Takes(r, s, w, q, p)
<1>1. PICK t : t = On(r, q)
  OBVIOUS
<1>2. Running(t) /\ t.ret = q /\ t.heap = r.heap
  BY <1>1, CallFields DEF On, Running
<1>3. At(t, q) = r.heap[q] /\ At(t, p) = r.heap[p]
  BY <1>2, PointersAreNotZero DEF At
<1>4. PICK v : v = bit_vector_or(r.heap[q], r.heap[p])
  OBVIOUS
<1>5. OfSize(v, w) /\ Bits(v) = Bits(r.heap[q]) \cup Bits(r.heap[p])
  <2>1. OfSize(v, w)
    BY <1>4, CombinedVector
  <2>2. v # NULL /\ r.heap[q] # NULL /\ r.heap[p] # NULL
    BY <2>1, VectorIsNotNull DEF OfSize
  <2> QED BY <1>4, <2>1, <2>2, CombinedBits DEF OfSize
<1>6. s = Changed(t, v)
  BY <1>1, <1>2, <1>3, <1>4 DEF Or
<1>7. /\ Running(s) /\ s.ret = q /\ s.heap[q] = v
      /\ \A x \in Pointers : x # q => s.heap[x] = r.heap[x]
  BY <1>2, <1>5, <1>6, PutIn DEF OfSize
<1> QED BY <1>5, <1>7 DEF Takes

Drawing(H, o, w, B) ==
  /\ o = Done(o.r, o.line, o.code)
  /\ Draws(H, o.r, o.line, w, B) /\ (o.code # "ERR_NONE" => o.line = NoLine)

(* A vector of the call that is not the line's                               *)
Beside(o, m, w, K) ==
  m \in Pointers /\ OfSize(o.r.heap[m], w) /\ Bits(o.r.heap[m]) = K /\ m \notin PartsOf(o.line)

LEMMA GivenUpDraws ==
  ASSUME NEW H, NEW s, NEW l, NEW w, NEW B, Draws(H, s, l, w, B), NEW C,
         NEW o, o = Done(image_line_free(s, l), NoLine, "ERR_MEM")
  PROVE  /\ Drawing(H, o, w, C)
         /\ \A m, K : m \in Pointers /\ OfSize(s.heap[m], w) /\ Bits(s.heap[m]) = K /\ m \notin PartsOf(l)
                        => Beside(o, m, w, K)
<1>1. DrawsWhole(H, o, w, C)
  BY GivesUp
<1>2. o.line = NoLine /\ o.r = bit_vector_free(s, PartsOf(l)) /\ o.code = "ERR_MEM" /\ o = Done(o.r, o.line, o.code)
  BY DEF Done, image_line_free
<1>3. \A p \in Pointers \ PartsOf(l) : o.r.heap[p] = s.heap[p]
  BY <1>2, PartsAreNew, FreedRuns DEF Draws
<1>4. \A m \in Pointers : m \notin PartsOf(NoLine)
  BY PointersAreNotZero DEF PartsOf, NoLine
<1> QED BY <1>1, <1>2, <1>3, <1>4 DEF Drawing, DrawsWhole, Beside

LEMMA MergedDraws ==
  ASSUME NEW H, NEW o, NEW w, NEW B \in [Part -> SUBSET Nat], Drawing(H, o, w, B), NEW m, NEW K, Beside(o, m, w, K),
         NEW part \in { "lsb", "msb" }, NEW C, C = [B EXCEPT ![part] = @ \cup K]
  PROVE  Drawing(H, Merged(o, part, m), w, C) /\ Beside(Merged(o, part, m), m, w, K)
<1>1. CASE o.code # "ERR_NONE"
  <2>1. Merged(o, part, m) = o /\ o.line = NoLine
    BY <1>1 DEF Merged, Drawing
  <2>2. Draws(H, o.r, NoLine, w, C)
    BY <2>1, NoLineIsLined DEF Drawing, Draws
  <2> QED BY <2>1, <2>2 DEF Drawing
<1>2. CASE o.code = "ERR_NONE"
  <2>1. PICK q, t : q = o.line[part] /\ t = Or(On(o.r, q), m)
    OBVIOUS
  <2>2. PICK out : out = [o.line EXCEPT ![part] = t.ret]
    OBVIOUS
  <2>3. /\ Running(o.r) /\ Same(H, o.r.heap) /\ Lined(H, o.r.heap, o.line, w, B) /\ o.line \in ImageLine
        /\ part \in Part
    BY DEF Drawing, Draws, Lined, Part
  <2>4. Merged(o, part, m) = IF t.ret # 0 THEN Done(t, out, "ERR_NONE")
                             ELSE Done(image_line_free(t, out), NoLine, "ERR_MEM")
    BY <1>2, <2>1, <2>2 DEF Merged
  <2>5. o.line = [i \in Part |-> o.line[i]] /\ PartsOf(o.line) = { o.line[i] : i \in Part }
    BY <2>3, PartsOfLine DEF ImageLine, Part
  <2>6. CASE q = 0
    <3>1. PICK u : u = On(o.r, q)
      OBVIOUS
    <3>2. Running(u) /\ u.ret = q /\ u.heap = o.r.heap
      BY <2>3, <3>1, CallFields DEF On, Running
    <3>3. At(u, 0) = NULL
      BY DEF At
    <3>4. bit_vector_or(At(u, u.ret), At(u, m)) = NULL
      BY <2>6, <3>2, <3>3, NothingFromNull DEF bit_vector_or, Unfit
    <3>5. Running(t) /\ t.ret = 0 /\ t.heap = o.r.heap
      BY <2>1, <3>1, <3>2, <3>4, ReturnsNothing DEF Or
    <3>6. out = o.line
      BY <2>1, <2>2, <2>5, <2>6, <3>5
    <3>7. Draws(H, t, out, w, B)
      BY <2>3, <3>5, <3>6 DEF Draws
    <3>8. Merged(o, part, m) = Done(image_line_free(t, out), NoLine, "ERR_MEM")
      BY <2>4, <3>5
    <3>9. OfSize(t.heap[m], w) /\ Bits(t.heap[m]) = K /\ m \notin PartsOf(out) /\ m \in Pointers
      BY <3>5, <3>6 DEF Beside
    <3> QED BY <3>7, <3>8, <3>9, GivenUpDraws
  <2>7. CASE q # 0
    <3>1. NewAt(H, o.r.heap, q, w, B[part])
      BY <2>1, <2>3, <2>7 DEF Lined
    <3>2. /\ Running(t) /\ t.ret = q /\ OfSize(t.heap[q], w) /\ Bits(t.heap[q]) = B[part] \cup K
          /\ \A x \in Pointers : x # q => t.heap[x] = o.r.heap[x]
      <4>1. q \in Pointers /\ OfSize(o.r.heap[q], w) /\ Bits(o.r.heap[q]) = B[part]
        BY <3>1 DEF NewAt
      <4>2. m \in Pointers /\ OfSize(o.r.heap[m], w) /\ Bits(o.r.heap[m]) = K
        BY DEF Beside
      <4>3. /\ Running(t) /\ t.ret = q /\ OfSize(t.heap[q], w)
            /\ Bits(t.heap[q]) = Bits(o.r.heap[q]) \cup Bits(o.r.heap[m])
            /\ \A x \in Pointers : x # q => t.heap[x] = o.r.heap[x]
        <5>1. Running(o.r) /\ t = Or(On(o.r, q), m)
          BY <2>1, <2>3
        <5>2. Takes(o.r, t, w, q, m)
          BY <4>1, <4>2, <5>1, TakesBits
        <5> QED BY <5>2 DEF Takes
      <4> QED BY <4>1, <4>2, <4>3
    <3>3. out = o.line
      BY <2>1, <2>2, <2>5, <3>2
    <3>4. Same(H, t.heap)
      BY <2>3, <3>1, <3>2 DEF Same, NewAt
    <3>5. ASSUME NEW i \in Part, out[i] # 0
          PROVE  NewAt(H, t.heap, out[i], w, C[i])
      <4>1. NewAt(H, o.r.heap, out[i], w, B[i])
        BY <2>3, <3>3, <3>5 DEF Lined
      <4>2. CASE i = part
        <5>1. C[i] = B[part] \cup K /\ out[i] = q
          BY <2>1, <3>3, <4>2
        <5> QED BY <3>1, <3>2, <5>1 DEF NewAt
      <4>3. CASE i # part
        <5>1. C[i] = B[i] /\ out[i] # q
          BY <2>1, <2>3, <2>7, <3>3, <4>3 DEF Lined
        <5> QED BY <3>2, <4>1, <5>1 DEF NewAt
      <4> QED BY <4>2, <4>3
    <3>6. Lined(H, t.heap, out, w, C)
      BY <2>3, <3>3, <3>5 DEF Lined
    <3>7. Merged(o, part, m) = Done(t, out, "ERR_NONE")
      BY <2>4, <2>7, <3>2
    <3>8. Drawing(H, Done(t, out, "ERR_NONE"), w, C)
      BY <3>2, <3>4, <3>6 DEF Drawing, Draws, Done
    <3>9. Beside(Done(t, out, "ERR_NONE"), m, w, K)
      <4>1. m # q
        BY <2>1, <2>3, <2>5 DEF Beside
      <4> QED BY <3>2, <3>3, <4>1 DEF Beside, Done
    <3> QED BY <3>7, <3>8, <3>9
  <2> QED BY <2>6, <2>7
<1> QED BY <1>1, <1>2

(* One colour takes another: the parts that have the colour's bits take the  *)
(* mask                                                                     *)
Tinted(B, K, color_bit_0, color_bit_1) ==
  [i \in Part |-> IF (i = "lsb" /\ color_bit_0) \/ (i = "msb" /\ color_bit_1) THEN B[i] \cup K ELSE B[i]]

LEMMA MaskedDraws ==
  ASSUME NEW H, NEW o, NEW w, NEW B \in [Part -> SUBSET Nat], Drawing(H, o, w, B), o.code = "ERR_NONE",
         NEW mask, NEW K \in SUBSET Nat, Yields(o.r.heap, mask, w, K), mask.ret # 0,
         NEW b0 \in BOOLEAN, NEW b1 \in BOOLEAN
  PROVE  Drawing(H, Unmasked(Masked(o, mask, b0, b1), mask.ret), w, Tinted(B, K, b0, b1))
<1>1. PICK m, both : m = mask.ret /\ both = [o EXCEPT !.r = mask]
  OBVIOUS
<1>2. both = Done(mask, o.line, "ERR_NONE") /\ both.r = mask /\ both.line = o.line /\ both.code = "ERR_NONE"
  BY <1>1 DEF Drawing, Done
<1>3. Running(o.r) /\ Same(H, o.r.heap) /\ Lined(H, o.r.heap, o.line, w, B) /\ o.line \in ImageLine
  BY DEF Drawing, Draws, Lined
<1>4. Running(mask) /\ Same(o.r.heap, mask.heap) /\ Same(H, mask.heap)
  BY <1>3, YieldsRuns, SameIsTransitive
<1>5. NewAt(o.r.heap, mask.heap, m, w, K) /\ NewAt(H, mask.heap, m, w, K)
  BY <1>1, <1>3, NewBefore DEF Yields
<1>6. Lined(H, mask.heap, o.line, w, B)
  BY <1>3, <1>4, NewLasts DEF Lined
<1>7. Drawing(H, both, w, B)
  BY <1>2, <1>4, <1>6 DEF Drawing, Draws
<1>8. m \notin PartsOf(o.line)
  <2>1. \A i \in Part : o.line[i] # 0 => o.line[i] # m
    BY <1>3, <1>5, NewOnesDiffer DEF Lined
  <2>2. m # 0
    BY <1>1
  <2> QED BY <1>3, <2>1, <2>2, PartsOfLine
<1>9. Beside(both, m, w, K)
  BY <1>2, <1>5, <1>8 DEF Beside, NewAt
<1>10. PICK lsb, D : /\ lsb = IF b0 THEN Merged(both, "lsb", m) ELSE both
                     /\ D = IF b0 THEN [B EXCEPT !["lsb"] = @ \cup K] ELSE B
  OBVIOUS
<1>11. Drawing(H, lsb, w, D) /\ Beside(lsb, m, w, K)
  BY <1>7, <1>9, <1>10, MergedDraws
<1>12. D \in [Part -> SUBSET Nat]
  BY <1>10
<1>13. PICK msb, E : /\ msb = IF b1 THEN Merged(lsb, "msb", m) ELSE lsb
                     /\ E = IF b1 THEN [D EXCEPT !["msb"] = @ \cup K] ELSE D
  OBVIOUS
<1>14. Drawing(H, msb, w, E) /\ Beside(msb, m, w, K)
  BY <1>11, <1>12, <1>13, MergedDraws
<1>15. E = Tinted(B, K, b0, b1)
  <2>1. E \in [Part -> SUBSET Nat]
    BY <1>12, <1>13
  <2>2. ASSUME NEW i \in Part
        PROVE  E[i] = IF (i = "lsb" /\ b0) \/ (i = "msb" /\ b1) THEN B[i] \cup K ELSE B[i]
    BY <1>10, <1>12, <1>13 DEF Part
  <2>3. E = [i \in Part |-> E[i]]
    BY <2>1
  <2> QED BY <2>2, <2>3 DEF Tinted
<1>16. Masked(o, mask, b0, b1) = msb
  BY <1>1, <1>10, <1>13 DEF Masked
<1>17. CASE msb.code # "ERR_NONE"
  <2>1. Unmasked(msb, m) = msb
    BY <1>17 DEF Unmasked
  <2> QED BY <1>1, <1>14, <1>15, <1>16, <2>1
<1>18. CASE msb.code = "ERR_NONE"
  <2>1. PICK f : f = bit_vector_free(msb.r, { m })
    OBVIOUS
  <2>2. Unmasked(msb, m) = Done(f, msb.line, "ERR_NONE")
    BY <1>14, <1>18, <2>1 DEF Unmasked, Drawing, Done
  <2>3. Running(msb.r) /\ Same(H, msb.r.heap) /\ Lined(H, msb.r.heap, msb.line, w, E)
    BY <1>14 DEF Drawing, Draws
  <2>4. Running(f) /\ Same(H, f.heap) /\ \A p \in Pointers \ { m } : f.heap[p] = msb.r.heap[p]
    BY <1>5, <2>1, <2>3, FreedRuns DEF NewAt
  <2>5. msb.line \in ImageLine /\ \A i \in Part : msb.line[i] # m
    BY <1>14, <2>3, PartsOfLine DEF Beside, Lined
  <2>6. Lined(H, f.heap, msb.line, w, E)
    BY <2>3, <2>4, <2>5 DEF Lined, NewAt
  <2>7. Drawing(H, Done(f, msb.line, "ERR_NONE"), w, E)
    BY <2>4, <2>6 DEF Drawing, Draws, Done
  <2> QED BY <1>1, <1>15, <1>16, <2>2, <2>7
<1> QED BY <1>17, <1>18

Bit0(map, i) == (map \div 4^i) % 2 = 1
Bit1(map, i) == (map \div (2 * 4^i)) % 2 = 1
ColourBits(H, l, w, i) == MaskBits(Bits(H[l.msb]), Bits(H[l.lsb]), 0 .. w - 1, i)

LEMMA DrawingNothing ==
  ASSUME NEW H, NEW o, NEW w, NEW B, Drawing(H, o, w, B), o.code # "ERR_NONE", NEW C
  PROVE  Drawing(H, o, w, C)
<1>1. o.line = NoLine /\ Running(o.r) /\ Same(H, o.r.heap)
  BY DEF Drawing, Draws
<1>2. Lined(H, o.r.heap, o.line, w, C)
  BY <1>1, NoLineIsLined
<1> QED BY <1>1, <1>2 DEF Drawing, Draws

LEMMA RecolouredDraws ==
  ASSUME NEW H, NEW l, NEW w, LineIn(H, l, w), NEW o, NEW B \in [Part -> SUBSET Nat], Drawing(H, o, w, B),
         NEW i \in 0 .. 3, NEW map
  PROVE  Drawing(H, Recoloured(o, l, i, map), w, Tinted(B, ColourBits(H, l, w, i), Bit0(map, i), Bit1(map, i)))
<1>1. PICK K : K = ColourBits(H, l, w, i)
  OBVIOUS
<1>2. PICK b0 \in BOOLEAN : b0 = Bit0(map, i)
  BY DEF Bit0
<1>3. PICK b1 \in BOOLEAN : b1 = Bit1(map, i)
  BY DEF Bit1
<1>4. PICK mask : mask = Mask(o.r, l, i)
  OBVIOUS
<1>5. Recoloured(o, l, i, map) =
        IF o.code # "ERR_NONE" \/ ~(b0 \/ b1) THEN o
        ELSE IF mask.ret = 0 THEN Done(image_line_free(mask, o.line), NoLine, "ERR_MEM")
        ELSE Unmasked(Masked(o, mask, b0, b1), mask.ret)
  BY <1>2, <1>3, <1>4 DEF Recoloured, Bit0, Bit1
<1>6. Running(o.r) /\ Same(H, o.r.heap) /\ Lined(H, o.r.heap, o.line, w, B)
  BY DEF Drawing, Draws
<1>7. /\ LineIn(o.r.heap, l, w) /\ w \in Nat \ {0}
      /\ o.r.heap[l.msb] = H[l.msb] /\ o.r.heap[l.lsb] = H[l.lsb]
  BY <1>6, PartIs
<1>8. Yields(o.r.heap, mask, w, K)
  BY <1>1, <1>4, <1>6, <1>7, MaskYields DEF ColourBits
<1>9. K \in SUBSET Nat
  BY <1>1, <1>7 DEF ColourBits, MaskBits
<1>10. CASE o.code # "ERR_NONE"
  BY <1>5, <1>10, DrawingNothing
<1>11. CASE o.code = "ERR_NONE" /\ ~(b0 \/ b1)
  <2>1. Tinted(B, K, b0, b1) = [j \in Part |-> B[j]]
    BY <1>11 DEF Tinted
  <2>2. Tinted(B, K, b0, b1) = B
    BY <2>1
  <2> QED BY <1>1, <1>2, <1>3, <1>5, <1>11, <2>2
<1>12. CASE o.code = "ERR_NONE" /\ (b0 \/ b1) /\ mask.ret = 0
  <2>1. Running(mask) /\ Same(o.r.heap, mask.heap)
    BY <1>8, YieldsRuns
  <2>2. Lined(H, mask.heap, o.line, w, B)
    BY <1>6, <2>1, NewLasts DEF Lined
  <2>3. Draws(H, mask, o.line, w, B)
    BY <1>6, <2>1, <2>2, SameIsTransitive DEF Draws
  <2> QED BY <1>5, <1>12, <2>3, GivenUpDraws
<1>13. CASE o.code = "ERR_NONE" /\ (b0 \/ b1) /\ mask.ret # 0
  <2>1. Drawing(H, Unmasked(Masked(o, mask, b0, b1), mask.ret), w, Tinted(B, K, b0, b1))
    BY <1>8, <1>9, <1>13, MaskedDraws
  <2> QED BY <1>1, <1>2, <1>3, <1>5, <1>13, <2>1
<1> QED BY <1>10, <1>11, <1>12, <1>13

(* The whole palette                                                         *)
MappedBits(H, l, w, map) ==
  [i \in Part |->
     IF i = "opacity" THEN Bits(H[l.opacity])
     ELSE { x \in 0 .. w - 1 : \E c \in 0 .. 3 :
              x \in ColourBits(H, l, w, c) /\ (IF i = "lsb" THEN Bit0(map, c) ELSE Bit1(map, c)) }]

LEMMA TintedFourTimes ==
  ASSUME NEW H, NEW l, NEW w, NEW map, NEW O, O = Bits(H[l.opacity]),
         NEW B0, B0 = [i \in Part |-> IF i = "opacity" THEN O ELSE {}],
         NEW B1, B1 = Tinted(B0, ColourBits(H, l, w, 0), Bit0(map, 0), Bit1(map, 0)),
         NEW B2, B2 = Tinted(B1, ColourBits(H, l, w, 1), Bit0(map, 1), Bit1(map, 1)),
         NEW B3, B3 = Tinted(B2, ColourBits(H, l, w, 2), Bit0(map, 2), Bit1(map, 2)),
         NEW B4, B4 = Tinted(B3, ColourBits(H, l, w, 3), Bit0(map, 3), Bit1(map, 3))
  PROVE  B4 = MappedBits(H, l, w, map)
<1> DEFINE K(c) == ColourBits(H, l, w, c)
<1>1. \A c, x : x \in K(c) => x \in 0 .. w - 1
  BY DEF ColourBits, MaskBits
<1> HIDE DEF K
<1>2. B4["opacity"] = O
  BY DEF Tinted, Part
<1>3. \A x : x \in B4["lsb"] <=>
            \/ x \in K(0) /\ Bit0(map, 0)
            \/ x \in K(1) /\ Bit0(map, 1)
            \/ x \in K(2) /\ Bit0(map, 2)
            \/ x \in K(3) /\ Bit0(map, 3)
  <2>1. \A x : x \in B1["lsb"] <=> x \in K(0) /\ Bit0(map, 0)
    BY DEF Tinted, Part, K
  <2>2. \A x : x \in B2["lsb"] <=> x \in B1["lsb"] \/ (x \in K(1) /\ Bit0(map, 1))
    BY DEF Tinted, Part, K
  <2>3. \A x : x \in B3["lsb"] <=> x \in B2["lsb"] \/ (x \in K(2) /\ Bit0(map, 2))
    BY DEF Tinted, Part, K
  <2>4. \A x : x \in B4["lsb"] <=> x \in B3["lsb"] \/ (x \in K(3) /\ Bit0(map, 3))
    BY DEF Tinted, Part, K
  <2> QED BY <2>1, <2>2, <2>3, <2>4
<1>4. \A x : x \in B4["msb"] <=>
            \/ x \in K(0) /\ Bit1(map, 0)
            \/ x \in K(1) /\ Bit1(map, 1)
            \/ x \in K(2) /\ Bit1(map, 2)
            \/ x \in K(3) /\ Bit1(map, 3)
  <2>1. \A x : x \in B1["msb"] <=> x \in K(0) /\ Bit1(map, 0)
    BY DEF Tinted, Part, K
  <2>2. \A x : x \in B2["msb"] <=> x \in B1["msb"] \/ (x \in K(1) /\ Bit1(map, 1))
    BY DEF Tinted, Part, K
  <2>3. \A x : x \in B3["msb"] <=> x \in B2["msb"] \/ (x \in K(2) /\ Bit1(map, 2))
    BY DEF Tinted, Part, K
  <2>4. \A x : x \in B4["msb"] <=> x \in B3["msb"] \/ (x \in K(3) /\ Bit1(map, 3))
    BY DEF Tinted, Part, K
  <2> QED BY <2>1, <2>2, <2>3, <2>4
<1>5. \A c : c \in 0 .. 3 <=> c = 0 \/ c = 1 \/ c = 2 \/ c = 3
  OBVIOUS
<1>6. B4["lsb"] = { x \in 0 .. w - 1 : \E c \in 0 .. 3 : x \in K(c) /\ Bit0(map, c) }
  BY <1>1, <1>3, <1>5
<1>7. B4["msb"] = { x \in 0 .. w - 1 : \E c \in 0 .. 3 : x \in K(c) /\ Bit1(map, c) }
  BY <1>1, <1>4, <1>5
<1>8. B4 = [i \in Part |-> B4[i]]
  BY DEF Tinted
<1>9. ASSUME NEW i \in Part
      PROVE  B4[i] = IF i = "opacity" THEN O
                     ELSE { x \in 0 .. w - 1 : \E c \in 0 .. 3 :
                              x \in K(c) /\ (IF i = "lsb" THEN Bit0(map, c) ELSE Bit1(map, c)) }
  <2>1. CASE i = "lsb"
    BY <1>6, <2>1
  <2>2. CASE i = "msb"
    BY <1>7, <2>2
  <2>3. CASE i = "opacity"
    BY <1>2, <2>3
  <2> QED BY <2>1, <2>2, <2>3 DEF Part
<1> QED BY <1>8, <1>9 DEF MappedBits, K

(* DEFAULT_PALETTE gives each colour itself                                  *)
LEMMA DefaultPaletteMaps ==
  ASSUME NEW c \in 0 .. 3
  PROVE  /\ Bit0(DEFAULT_PALETTE, c) <=> c \in { 1, 3 }
         /\ Bit1(DEFAULT_PALETTE, c) <=> c \in { 2, 3 }
<1>1. 4^0 = 1 /\ 4^1 = 4 /\ 4^2 = 16 /\ 4^3 = 64
  BY SMT
<1>2. c = 0 \/ c = 1 \/ c = 2 \/ c = 3
  OBVIOUS
<1>3. CASE c = 0
  BY <1>1, <1>3, SMT DEF Bit0, Bit1, DEFAULT_PALETTE
<1>4. CASE c = 1
  BY <1>1, <1>4, SMT DEF Bit0, Bit1, DEFAULT_PALETTE
<1>5. CASE c = 2
  BY <1>1, <1>5, SMT DEF Bit0, Bit1, DEFAULT_PALETTE
<1>6. CASE c = 3
  BY <1>1, <1>6, SMT DEF Bit0, Bit1, DEFAULT_PALETTE
<1> QED BY <1>2, <1>3, <1>4, <1>5, <1>6

LEMMA CopyIsMapped ==
  ASSUME NEW H, NEW l, NEW w, LineIn(H, l, w)
  PROVE  LineBits(H, l) = MappedBits(H, l, w, DEFAULT_PALETTE)
<1>1. PICK M, L, W : M = Bits(H[l.msb]) /\ L = Bits(H[l.lsb]) /\ W = 0 .. w - 1
  OBVIOUS
<1>2. M \subseteq W /\ L \subseteq W
  <2>1. /\ IsVector(H[l["msb"]]) /\ H[l["msb"]].size = w
        /\ IsVector(H[l["lsb"]]) /\ H[l["lsb"]].size = w
    BY DEF LineIn, Part
  <2> QED BY <1>1, <2>1, BitsAreBelow DEF OfSize
<1>3. ASSUME NEW x
      PROVE  /\ x \in M <=> x \in W /\ \E c \in 0 .. 3 : x \in ColourBits(H, l, w, c) /\ c \in { 2, 3 }
             /\ x \in L <=> x \in W /\ \E c \in 0 .. 3 : x \in ColourBits(H, l, w, c) /\ c \in { 1, 3 }
  <2>1. \A c \in 0 .. 3 : x \in ColourBits(H, l, w, c) <=>
          x \in W /\ (x \in M <=> c \in { 2, 3 }) /\ (x \in L <=> c \in { 1, 3 })
    BY <1>1 DEF ColourBits, MaskBits
  <2>2. 0 \in 0 .. 3 /\ 1 \in 0 .. 3 /\ 2 \in 0 .. 3 /\ 3 \in 0 .. 3
    OBVIOUS
  <2>3. /\ x \in M /\ x \notin L => x \in ColourBits(H, l, w, 2)
        /\ x \in M /\ x \in L => x \in ColourBits(H, l, w, 3)
        /\ x \notin M /\ x \in L => x \in ColourBits(H, l, w, 1)
    BY <1>2, <2>1, <2>2
  <2>4. /\ x \in M => x \in W /\ \E c \in 0 .. 3 : x \in ColourBits(H, l, w, c) /\ c \in { 2, 3 }
        /\ x \in L => x \in W /\ \E c \in 0 .. 3 : x \in ColourBits(H, l, w, c) /\ c \in { 1, 3 }
    BY <1>2, <2>2, <2>3
  <2> QED BY <2>1, <2>4
<1>4. M = { x \in W : \E c \in 0 .. 3 : x \in ColourBits(H, l, w, c) /\ Bit1(DEFAULT_PALETTE, c) }
  BY <1>3, DefaultPaletteMaps
<1>5. L = { x \in W : \E c \in 0 .. 3 : x \in ColourBits(H, l, w, c) /\ Bit0(DEFAULT_PALETTE, c) }
  BY <1>3, DefaultPaletteMaps
<1>6. ASSUME NEW i \in Part
      PROVE  Bits(H[l[i]]) = MappedBits(H, l, w, DEFAULT_PALETTE)[i]
  <2>1. CASE i = "opacity"
    BY <2>1 DEF MappedBits
  <2>2. CASE i = "lsb"
    BY <1>1, <1>5, <2>2 DEF MappedBits
  <2>3. CASE i = "msb"
    BY <1>1, <1>4, <2>3 DEF MappedBits
  <2> QED BY <2>1, <2>2, <2>3 DEF Part
<1>7. MappedBits(H, l, w, DEFAULT_PALETTE) = [i \in Part |-> MappedBits(H, l, w, DEFAULT_PALETTE)[i]]
  BY DEF MappedBits
<1> QED BY <1>6, <1>7 DEF LineBits

LEMMA MapColorsDraws ==
  ASSUME NEW r, Running(r), NEW l, NEW w, LineIn(r.heap, l, w), NEW map,
         NEW o, o = image_line_map_colors(r, l, map)
  PROVE  Draws(r.heap, o.r, o.line, w, MappedBits(r.heap, l, w, map))
<1>1. PICK H : H = r.heap
  OBVIOUS
<1>2. CASE map = DEFAULT_PALETTE
  <2>1. PICK a : a = Copied(r, l.lsb)
    OBVIOUS
  <2>2. PICK b : b = Copied(a, l.msb)
    OBVIOUS
  <2>3. PICK c : c = Copied(b, l.opacity)
    OBVIOUS
  <2>4. PICK m : m = [lsb |-> a.ret, msb |-> b.ret, opacity |-> c.ret]
    OBVIOUS
  <2>5. Draws(r.heap, c, m, w, LineBits(r.heap, l))
    BY <2>1, <2>2, <2>3, <2>4, CopyDraws
  <2>6. o = Done(c, m, "ERR_NONE")
    BY <1>2, <2>1, <2>2, <2>3, <2>4 DEF image_line_map_colors, do_image_line
  <2>7. o.r = c /\ o.line = m
    BY <2>6 DEF Done
  <2> QED BY <1>2, <2>5, <2>7, CopyIsMapped
<1>3. CASE map # DEFAULT_PALETTE
  <2>1. PICK a : a = Created(r, r.heap[l.lsb].size)
    OBVIOUS
  <2>2. PICK b : b = Created(a, r.heap[l.msb].size)
    OBVIOUS
  <2>3. PICK c : c = Copied(b, l.opacity)
    OBVIOUS
  <2>4. PICK m : m = [lsb |-> a.ret, msb |-> b.ret, opacity |-> c.ret]
    OBVIOUS
  <2>5. PICK blank : blank = Done(c, m, "ERR_NONE")
    OBVIOUS
  <2>6. o = Recoloured(Recoloured(Recoloured(Recoloured(blank, l, 0, map), l, 1, map), l, 2, map), l, 3, map)
    BY <1>3, <2>1, <2>2, <2>3, <2>4, <2>5 DEF image_line_map_colors
  <2>7. PICK O, B0 : O = Bits(H[l.opacity]) /\ B0 = [i \in Part |-> IF i = "opacity" THEN O ELSE {}]
    OBVIOUS
  <2>8. /\ OfSize(H[l.opacity], w) /\ l.opacity \in Pointers /\ w \in Nat \ {0}
        /\ H[l.lsb].size = w /\ H[l.msb].size = w
    BY <1>1, PartIs, SameIsReflexive DEF OfSize
  <2>9. Draws(H, c, m, w, B0)
    <3>1. PICK V : V = [i \in Part |-> IF i = "opacity" THEN H[l.opacity] ELSE bit_vector_create(w, 0)]
      OBVIOUS
    <3>2. \A i \in Part : OfSize(V[i], w) /\ Bits(V[i]) = B0[i]
      BY <2>7, <2>8, <3>1, BlankHasNoBits
    <3>3. a = Allocated(r, V["lsb"])
      BY <1>1, <2>1, <2>8, <3>1 DEF Created, Part
    <3>4. Running(a) /\ Same(H, a.heap)
      BY <1>1, <3>2, <3>3, AllocatedYields, YieldsRuns DEF Part
    <3>5. b = Allocated(a, V["msb"])
      BY <1>1, <2>2, <2>8, <3>1 DEF Created, Part
    <3>6. Running(b) /\ Same(H, b.heap)
      BY <3>2, <3>4, <3>5, AllocatedYields, YieldsRuns, SameIsTransitive DEF Part
    <3>7. c = Allocated(b, V["opacity"])
      <4>1. At(b, l.opacity) = H[l.opacity]
        BY <1>1, <3>6, PartIs
      <4> QED BY <2>3, <3>1, <4>1 DEF Part, Copied, bit_vector_cpy
    <3> QED BY <1>1, <2>4, <3>2, <3>3, <3>5, <3>7, ThreeMadeDraw
  <2>10. Drawing(H, blank, w, B0)
    BY <2>5, <2>9 DEF Drawing, Done
  <2>11. B0 \in [Part -> SUBSET Nat]
    <3>1. O \subseteq 0 .. w - 1
      BY <2>7, <2>8, BitsAreBelow
    <3> QED BY <2>7, <2>8, <3>1
  <2>12. ASSUME NEW i, NEW B \in [Part -> SUBSET Nat], NEW b0, NEW b1
         PROVE  Tinted(B, ColourBits(H, l, w, i), b0, b1) \in [Part -> SUBSET Nat]
    BY <2>8 DEF Tinted, ColourBits, MaskBits
  <2>13. LineIn(H, l, w)
    BY <1>1
  <2>14. PICK o1, B1 : /\ o1 = Recoloured(blank, l, 0, map)
                       /\ B1 = Tinted(B0, ColourBits(H, l, w, 0), Bit0(map, 0), Bit1(map, 0))
    OBVIOUS
  <2>15. Drawing(H, o1, w, B1) /\ B1 \in [Part -> SUBSET Nat]
    BY <2>10, <2>11, <2>12, <2>13, <2>14, RecolouredDraws
  <2>16. PICK o2, B2 : /\ o2 = Recoloured(o1, l, 1, map)
                       /\ B2 = Tinted(B1, ColourBits(H, l, w, 1), Bit0(map, 1), Bit1(map, 1))
    OBVIOUS
  <2>17. Drawing(H, o2, w, B2) /\ B2 \in [Part -> SUBSET Nat]
    BY <2>12, <2>13, <2>15, <2>16, RecolouredDraws
  <2>18. PICK o3, B3 : /\ o3 = Recoloured(o2, l, 2, map)
                       /\ B3 = Tinted(B2, ColourBits(H, l, w, 2), Bit0(map, 2), Bit1(map, 2))
    OBVIOUS
  <2>19. Drawing(H, o3, w, B3) /\ B3 \in [Part -> SUBSET Nat]
    BY <2>12, <2>13, <2>17, <2>18, RecolouredDraws
  <2>20. PICK B4 : B4 = Tinted(B3, ColourBits(H, l, w, 3), Bit0(map, 3), Bit1(map, 3))
    OBVIOUS
  <2>21. o = Recoloured(o3, l, 3, map)
    BY <2>6, <2>14, <2>16, <2>18
  <2>22. Drawing(H, o, w, B4)
    BY <2>13, <2>19, <2>20, <2>21, RecolouredDraws
  <2>23. B4 = MappedBits(H, l, w, map)
    BY <2>7, <2>14, <2>16, <2>18, <2>20, TintedFourTimes
  <2> QED BY <1>1, <2>22, <2>23 DEF Drawing
<1> QED BY <1>2, <1>3

-----------------------------------------------------------------------------
(* A line over another: what the mask O shows of the one and of the other    *)
CoveredBits(A, B, O, W) == (A \cap (W \ O)) \cup (B \cap O)
BelowBits(H, l1, l2, p, w) ==
  [i \in Part |->
     IF i = "opacity" THEN Bits(H[l1.opacity]) \cup Bits(H[p])
     ELSE CoveredBits(Bits(H[l1[i]]), Bits(H[l2[i]]), Bits(H[p]), 0 .. w - 1)]

(* The copy of the vector q, and the vector p                                *)
LEMMA CopiedAndYields ==
  ASSUME NEW r, Running(r), NEW w, NEW q \in Pointers, OfSize(r.heap[q], w),
         NEW p \in 0 .. MaxVectors, NEW C,
         p # 0 => p \in Pointers /\ r.heap[p] # NULL /\ Bits(r.heap[p]) = C
  PROVE  Yields(r.heap, And(Copied(r, q), p), w, Bits(r.heap[q]) \cap C)
<1>1. PICK s : s = Copied(r, q)
  OBVIOUS
<1>2. Yields(r.heap, s, w, Bits(r.heap[q]))
  BY <1>1, CopiedYields
<1>3. p # 0 => Bits(s.heap[p]) = C
  BY <1>2, YieldsRuns DEF Same
<1> QED BY <1>1, <1>2, <1>3, AndYields

(* A vector that was there when s made another                               *)
LEMMA YieldedIs ==
  ASSUME NEW H, NEW h, NEW s, NEW w, NEW B, Yields(h, s, w, B), Same(H, h)
  PROVE  /\ Running(s) /\ Same(H, s.heap) /\ s.ret \in 0 .. MaxVectors
         /\ s.ret # 0 => NewAt(H, s.heap, s.ret, w, B)
<1>1. Running(s) /\ Same(h, s.heap) /\ s.ret \in 0 .. MaxVectors /\ Same(H, s.heap)
  BY YieldsRuns, SameIsTransitive
<1>2. s.ret # 0 => NewAt(h, s.heap, s.ret, w, B)
  BY DEF Yields
<1> QED BY <1>1, <1>2, NewBefore

LEMMA YieldedBeside ==
  ASSUME NEW H, NEW h, NEW p, NEW u, NEW C, NewAt(H, h, p, u, C),
         NEW s, NEW w, NEW B, Yields(h, s, w, B)
  PROVE  NewAt(H, s.heap, p, u, C) /\ p # s.ret
<1>1. Running(s) /\ Same(h, s.heap)
  BY YieldsRuns
<1>2. s.ret # 0 => NewAt(h, s.heap, s.ret, w, B)
  BY DEF Yields
<1>3. p # 0
  BY PointersAreNotZero DEF NewAt
<1> QED BY <1>1, <1>2, <1>3, NewLasts, NewOnesDiffer

(* The five vectors the function makes first                                 *)
FiveMade(H, n, ma, la, mb, lb, w, N, MA, LA, MB, LB) ==
  /\ Running(lb) /\ Same(H, lb.heap)
  /\ n.ret # 0 => NewAt(H, lb.heap, n.ret, w, N)
  /\ ma.ret # 0 => NewAt(H, lb.heap, ma.ret, w, MA)
  /\ la.ret # 0 => NewAt(H, lb.heap, la.ret, w, LA)
  /\ mb.ret # 0 => NewAt(H, lb.heap, mb.ret, w, MB) /\ mb.ret \notin { n.ret, ma.ret, la.ret }
  /\ lb.ret # 0 => NewAt(H, lb.heap, lb.ret, w, LB) /\ lb.ret \notin { n.ret, ma.ret, la.ret, mb.ret }

LEMMA FiveAreMade ==
  ASSUME NEW r, Running(r), NEW l1, NEW l2, NEW w, LineIn(r.heap, l1, w), LineIn(r.heap, l2, w),
         NEW p \in Pointers, OfSize(r.heap[p], w),
         NEW O, O = Bits(r.heap[p]), NEW W, W = 0 .. w - 1,
         NEW n, n = Not(Copied(r, p)),
         NEW ma, ma = And(Copied(n, l2.msb), p),
         NEW la, la = And(Copied(ma, l2.lsb), p),
         NEW mb, mb = And(Copied(la, l1.msb), n.ret),
         NEW lb, lb = And(Copied(mb, l1.lsb), n.ret)
  PROVE  FiveMade(r.heap, n, ma, la, mb, lb, w, W \ O, Bits(r.heap[l2.msb]) \cap O, Bits(r.heap[l2.lsb]) \cap O,
                  Bits(r.heap[l1.msb]) \cap (W \ O), Bits(r.heap[l1.lsb]) \cap (W \ O))
<1>1. PICK H : H = r.heap
  OBVIOUS
<1>2. PICK N, MA, LA, MB, LB :
        /\ N = W \ O /\ MA = Bits(H[l2.msb]) \cap O /\ LA = Bits(H[l2.lsb]) \cap O
        /\ MB = Bits(H[l1.msb]) \cap (W \ O) /\ LB = Bits(H[l1.lsb]) \cap (W \ O)
  OBVIOUS
<1>3. /\ H[p] # NULL /\ p \in 0 .. MaxVectors
  BY <1>1, VectorIsNotNull, PointersAreNotZero DEF OfSize, Pointers
<1>4. ASSUME NEW s, Running(s), Same(H, s.heap), NEW l, LineIn(H, l, w)
      PROVE  /\ l.msb \in Pointers /\ OfSize(s.heap[l.msb], w) /\ s.heap[l.msb] = H[l.msb]
             /\ l.lsb \in Pointers /\ OfSize(s.heap[l.lsb], w) /\ s.heap[l.lsb] = H[l.lsb]
             /\ s.heap[p] = H[p]
  <2>1. /\ l.msb \in Pointers /\ OfSize(H[l.msb], w) /\ s.heap[l.msb] = H[l.msb]
        /\ l.lsb \in Pointers /\ OfSize(H[l.lsb], w) /\ s.heap[l.lsb] = H[l.lsb]
    BY <1>4, PartIs
  <2> QED BY <1>3, <1>4, <2>1 DEF Same
<1>5. Yields(H, n, w, N)
  <2>1. Yields(H, Copied(r, p), w, O)
    BY <1>1, CopiedYields
  <2> QED BY <1>2, <2>1, NotYields
<1>6. Running(n) /\ Same(H, n.heap) /\ n.ret \in 0 .. MaxVectors /\ (n.ret # 0 => NewAt(H, n.heap, n.ret, w, N))
  BY <1>5 DEF Yields
<1>7. Yields(n.heap, ma, w, MA)
  <2>1. /\ l2.msb \in Pointers /\ OfSize(n.heap[l2.msb], w) /\ n.heap[l2.msb] = H[l2.msb]
        /\ n.heap[p] = H[p]
    BY <1>1, <1>4, <1>6
  <2>2. Yields(n.heap, And(Copied(n, l2.msb), p), w, Bits(n.heap[l2.msb]) \cap O)
    BY <1>1, <1>3, <1>6, <2>1, CopiedAndYields
  <2> QED BY <1>2, <2>1, <2>2
<1>8. /\ Running(ma) /\ Same(H, ma.heap)
      /\ n.ret # 0 => NewAt(H, ma.heap, n.ret, w, N)
      /\ ma.ret # 0 => NewAt(H, ma.heap, ma.ret, w, MA)
  BY <1>6, <1>7, YieldedIs, YieldedBeside
<1>9. Yields(ma.heap, la, w, LA)
  <2>1. /\ l2.lsb \in Pointers /\ OfSize(ma.heap[l2.lsb], w) /\ ma.heap[l2.lsb] = H[l2.lsb]
        /\ ma.heap[p] = H[p]
    BY <1>1, <1>4, <1>8
  <2>2. Yields(ma.heap, And(Copied(ma, l2.lsb), p), w, Bits(ma.heap[l2.lsb]) \cap O)
    BY <1>1, <1>3, <1>8, <2>1, CopiedAndYields
  <2> QED BY <1>2, <2>1, <2>2
<1>10. /\ Running(la) /\ Same(H, la.heap)
       /\ n.ret # 0 => NewAt(H, la.heap, n.ret, w, N)
       /\ ma.ret # 0 => NewAt(H, la.heap, ma.ret, w, MA)
       /\ la.ret # 0 => NewAt(H, la.heap, la.ret, w, LA)
  BY <1>8, <1>9, YieldedIs, YieldedBeside
<1>11. Yields(la.heap, mb, w, MB)
  <2>1. l1.msb \in Pointers /\ OfSize(la.heap[l1.msb], w) /\ la.heap[l1.msb] = H[l1.msb]
    BY <1>1, <1>4, <1>10
  <2>2. n.ret # 0 => n.ret \in Pointers /\ la.heap[n.ret] # NULL /\ Bits(la.heap[n.ret]) = N
    BY <1>10, VectorIsNotNull DEF NewAt, OfSize
  <2>3. Yields(la.heap, And(Copied(la, l1.msb), n.ret), w, Bits(la.heap[l1.msb]) \cap N)
    BY <1>6, <1>10, <2>1, <2>2, CopiedAndYields
  <2> QED BY <1>2, <2>1, <2>3
<1>12. /\ Running(mb) /\ Same(H, mb.heap)
       /\ n.ret # 0 => NewAt(H, mb.heap, n.ret, w, N)
       /\ ma.ret # 0 => NewAt(H, mb.heap, ma.ret, w, MA)
       /\ la.ret # 0 => NewAt(H, mb.heap, la.ret, w, LA)
       /\ mb.ret # 0 => NewAt(H, mb.heap, mb.ret, w, MB) /\ mb.ret \notin { n.ret, ma.ret, la.ret }
  <2>1. /\ Running(mb) /\ Same(H, mb.heap)
        /\ n.ret # 0 => NewAt(H, mb.heap, n.ret, w, N)
        /\ mb.ret # 0 => NewAt(H, mb.heap, mb.ret, w, MB)
        /\ n.ret # 0 /\ mb.ret # 0 => n.ret # mb.ret
    BY <1>10, <1>11, YieldedIs, YieldedBeside
  <2>2. /\ ma.ret # 0 => NewAt(H, mb.heap, ma.ret, w, MA)
        /\ ma.ret # 0 /\ mb.ret # 0 => ma.ret # mb.ret
    BY <1>10, <1>11, YieldedIs, YieldedBeside
  <2>3. /\ la.ret # 0 => NewAt(H, mb.heap, la.ret, w, LA)
        /\ la.ret # 0 /\ mb.ret # 0 => la.ret # mb.ret
    BY <1>10, <1>11, YieldedIs, YieldedBeside
  <2> QED BY <2>1, <2>2, <2>3
<1>13. Yields(mb.heap, lb, w, LB)
  <2>1. l1.lsb \in Pointers /\ OfSize(mb.heap[l1.lsb], w) /\ mb.heap[l1.lsb] = H[l1.lsb]
    BY <1>1, <1>4, <1>12
  <2>2. n.ret # 0 => n.ret \in Pointers /\ mb.heap[n.ret] # NULL /\ Bits(mb.heap[n.ret]) = N
    BY <1>12, VectorIsNotNull DEF NewAt, OfSize
  <2>3. Yields(mb.heap, And(Copied(mb, l1.lsb), n.ret), w, Bits(mb.heap[l1.lsb]) \cap N)
    BY <1>6, <1>12, <2>1, <2>2, CopiedAndYields
  <2> QED BY <1>2, <2>1, <2>3
<1>14. /\ Running(lb) /\ Same(H, lb.heap)
       /\ n.ret # 0 => NewAt(H, lb.heap, n.ret, w, N)
       /\ lb.ret # 0 => NewAt(H, lb.heap, lb.ret, w, LB)
       /\ n.ret # 0 /\ lb.ret # 0 => n.ret # lb.ret
  BY <1>12, <1>13, YieldedIs, YieldedBeside
<1>15. /\ ma.ret # 0 => NewAt(H, lb.heap, ma.ret, w, MA)
       /\ ma.ret # 0 /\ lb.ret # 0 => ma.ret # lb.ret
  BY <1>12, <1>13, YieldedIs, YieldedBeside
<1>16. /\ la.ret # 0 => NewAt(H, lb.heap, la.ret, w, LA)
       /\ la.ret # 0 /\ lb.ret # 0 => la.ret # lb.ret
  BY <1>12, <1>13, YieldedIs, YieldedBeside
<1>17. /\ mb.ret # 0 => NewAt(H, lb.heap, mb.ret, w, MB)
       /\ mb.ret # 0 /\ lb.ret # 0 => mb.ret # lb.ret
  BY <1>12, <1>13, YieldedIs, YieldedBeside
<1>18. FiveMade(H, n, ma, la, mb, lb, w, N, MA, LA, MB, LB)
  BY <1>12, <1>14, <1>15, <1>16, <1>17 DEF FiveMade
<1> QED BY <1>1, <1>2, <1>18

(* What they are put together to                                             *)
PutTogether(n, ma, la, mb, lb, q, p, msb, lsb, opacity, l) ==
  /\ msb = Or(On(lb, mb.ret), ma.ret) /\ lsb = Or(On(msb, lb.ret), la.ret)
  /\ opacity = Or(Copied(lsb, q), p)
  /\ l = [msb |-> msb.ret, lsb |-> lsb.ret, opacity |-> opacity.ret]
Sums(H, B, MA, LA, MB, LB, q, p) ==
  B["msb"] = MB \cup MA /\ B["lsb"] = LB \cup LA /\ B["opacity"] = Bits(H[q]) \cup Bits(H[p])
BothBits(H, s, l, w, B) == Draws(H, s, l, w, B) /\ l.msb # 0 /\ l.lsb # 0

LEMMA FiveDraw ==
  ASSUME NEW H, NEW w, NEW n, NEW ma, NEW la, NEW mb, NEW lb, NEW N, NEW MA, NEW LA, NEW MB, NEW LB,
         FiveMade(H, n, ma, la, mb, lb, w, N, MA, LA, MB, LB), 0 \notin { n.ret, ma.ret, mb.ret, la.ret, lb.ret },
         NEW q \in Pointers, OfSize(H[q], w), NEW p \in Pointers, OfSize(H[p], w),
         NEW msb, NEW lsb, NEW opacity, NEW l, PutTogether(n, ma, la, mb, lb, q, p, msb, lsb, opacity, l),
         NEW B, Sums(H, B, MA, LA, MB, LB, q, p)
  PROVE  BothBits(H, bit_vector_free(opacity, { n.ret, ma.ret, la.ret }), l, w, B)
<1>0. /\ msb = Or(On(lb, mb.ret), ma.ret) /\ lsb = Or(On(msb, lb.ret), la.ret)
      /\ opacity = Or(Copied(lsb, q), p)
      /\ l = [msb |-> msb.ret, lsb |-> lsb.ret, opacity |-> opacity.ret]
      /\ B["msb"] = MB \cup MA /\ B["lsb"] = LB \cup LA /\ B["opacity"] = Bits(H[q]) \cup Bits(H[p])
  BY DEF PutTogether, Sums
<1>1. /\ Running(lb) /\ Same(H, lb.heap)
      /\ NewAt(H, lb.heap, n.ret, w, N) /\ NewAt(H, lb.heap, ma.ret, w, MA) /\ NewAt(H, lb.heap, la.ret, w, LA)
      /\ NewAt(H, lb.heap, mb.ret, w, MB) /\ mb.ret \notin { n.ret, ma.ret, la.ret }
      /\ NewAt(H, lb.heap, lb.ret, w, LB) /\ lb.ret \notin { n.ret, ma.ret, la.ret, mb.ret }
  BY DEF FiveMade
<1>2. /\ mb.ret \in Pointers /\ OfSize(lb.heap[mb.ret], w) /\ Bits(lb.heap[mb.ret]) = MB
      /\ ma.ret \in Pointers /\ OfSize(lb.heap[ma.ret], w) /\ Bits(lb.heap[ma.ret]) = MA
      /\ la.ret \in Pointers /\ OfSize(lb.heap[la.ret], w) /\ Bits(lb.heap[la.ret]) = LA
      /\ lb.ret \in Pointers /\ OfSize(lb.heap[lb.ret], w) /\ Bits(lb.heap[lb.ret]) = LB
      /\ n.ret \in Pointers /\ OfSize(lb.heap[n.ret], w)
      /\ H[mb.ret] = NULL /\ H[lb.ret] = NULL /\ H[n.ret] = NULL /\ H[ma.ret] = NULL /\ H[la.ret] = NULL
  BY <1>1 DEF NewAt
<1>3. /\ Running(msb) /\ msb.ret = mb.ret /\ OfSize(msb.heap[mb.ret], w)
      /\ Bits(msb.heap[mb.ret]) = MB \cup MA
      /\ \A x \in Pointers : x # mb.ret => msb.heap[x] = lb.heap[x]
  <2>1. /\ Running(lb) /\ mb.ret \in Pointers /\ OfSize(lb.heap[mb.ret], w)
        /\ ma.ret \in Pointers /\ OfSize(lb.heap[ma.ret], w)
    BY <1>1, <1>2
  <2>2. /\ Running(msb) /\ msb.ret = mb.ret /\ OfSize(msb.heap[mb.ret], w)
        /\ Bits(msb.heap[mb.ret]) = Bits(lb.heap[mb.ret]) \cup Bits(lb.heap[ma.ret])
        /\ \A x \in Pointers : x # mb.ret => msb.heap[x] = lb.heap[x]
    <3>1. Takes(lb, msb, w, mb.ret, ma.ret)
      BY <1>0, <2>1, TakesBits
    <3> QED BY <3>1 DEF Takes
  <2> QED BY <1>2, <2>2
<1>4. msb.heap[lb.ret] = lb.heap[lb.ret] /\ msb.heap[la.ret] = lb.heap[la.ret]
  BY <1>1, <1>2, <1>3
<1>5. /\ Running(lsb) /\ lsb.ret = lb.ret /\ OfSize(lsb.heap[lb.ret], w)
      /\ Bits(lsb.heap[lb.ret]) = LB \cup LA
      /\ \A x \in Pointers : x # lb.ret => lsb.heap[x] = msb.heap[x]
  <2>1. /\ Running(msb) /\ lb.ret \in Pointers /\ OfSize(msb.heap[lb.ret], w)
        /\ la.ret \in Pointers /\ OfSize(msb.heap[la.ret], w)
    BY <1>2, <1>3, <1>4
  <2>2. /\ Running(lsb) /\ lsb.ret = lb.ret /\ OfSize(lsb.heap[lb.ret], w)
        /\ Bits(lsb.heap[lb.ret]) = Bits(msb.heap[lb.ret]) \cup Bits(msb.heap[la.ret])
        /\ \A x \in Pointers : x # lb.ret => lsb.heap[x] = msb.heap[x]
    <3>1. Takes(msb, lsb, w, lb.ret, la.ret)
      BY <1>0, <2>1, TakesBits
    <3> QED BY <3>1 DEF Takes
  <2> QED BY <1>2, <1>4, <2>2
<1>6. Same(H, lsb.heap)
  BY <1>1, <1>2, <1>3, <1>5 DEF Same
<1>7. NewAt(H, lsb.heap, mb.ret, w, MB \cup MA) /\ NewAt(H, lsb.heap, lb.ret, w, LB \cup LA)
  BY <1>1, <1>2, <1>3, <1>5 DEF NewAt
<1>8. lsb.heap[n.ret] # NULL /\ lsb.heap[ma.ret] # NULL /\ lsb.heap[la.ret] # NULL
  <2>1. lsb.heap[n.ret] = lb.heap[n.ret] /\ lsb.heap[ma.ret] = lb.heap[ma.ret] /\ lsb.heap[la.ret] = lb.heap[la.ret]
    BY <1>1, <1>2, <1>3, <1>5
  <2> QED BY <1>2, <2>1, VectorIsNotNull DEF OfSize
<1>9. H[p] # NULL /\ H[q] # NULL
  BY VectorIsNotNull DEF OfSize
<1>10. lsb.heap[p] = H[p] /\ lsb.heap[q] = H[q]
  BY <1>6, <1>9 DEF Same
<1>11. Yields(lsb.heap, opacity, w, Bits(H[q]) \cup Bits(H[p]))
  <2>1. PICK c : c = Copied(lsb, q)
    OBVIOUS
  <2>2. Yields(lsb.heap, c, w, Bits(H[q]))
    BY <1>5, <1>10, <2>1, CopiedYields
  <2>3. Bits(c.heap[p]) = Bits(H[p])
    BY <1>9, <1>10, <2>2, YieldsRuns DEF Same
  <2>4. p \in 0 .. MaxVectors
    BY DEF Pointers
  <2> QED BY <1>0, <2>1, <2>2, <2>3, <2>4, OrYields
<1>12. /\ Running(opacity) /\ Same(lsb.heap, opacity.heap) /\ Same(H, opacity.heap)
       /\ opacity.ret \in 0 .. MaxVectors
  BY <1>6, <1>11, YieldsRuns, SameIsTransitive
<1>13. NewAt(H, opacity.heap, mb.ret, w, MB \cup MA) /\ NewAt(H, opacity.heap, lb.ret, w, LB \cup LA)
  BY <1>7, <1>12, NewLasts
<1>14. ASSUME opacity.ret # 0
       PROVE  /\ NewAt(H, opacity.heap, opacity.ret, w, Bits(H[q]) \cup Bits(H[p]))
              /\ opacity.ret \notin { n.ret, ma.ret, la.ret, mb.ret, lb.ret }
  <2>1. NewAt(lsb.heap, opacity.heap, opacity.ret, w, Bits(H[q]) \cup Bits(H[p]))
    BY <1>11, <1>14 DEF Yields
  <2>2. opacity.ret # mb.ret /\ opacity.ret # lb.ret
    BY <1>7, <2>1, NewOnesDiffer
  <2>3. lsb.heap[opacity.ret] = NULL
    BY <2>1 DEF NewAt
  <2> QED BY <1>6, <1>8, <2>1, <2>2, <2>3, NewBefore
<1>15. PICK Q : Q = { n.ret, ma.ret, la.ret }
  OBVIOUS
<1>16. PICK f : f = bit_vector_free(opacity, Q)
  OBVIOUS
<1>17. Running(f) /\ Same(H, f.heap) /\ \A x \in Pointers \ Q : f.heap[x] = opacity.heap[x]
  BY <1>2, <1>12, <1>15, <1>16, FreedRuns
<1>18. mb.ret \notin Q /\ lb.ret \notin Q
  BY <1>1, <1>15
<1>19. /\ NewAt(H, f.heap, mb.ret, w, MB \cup MA) /\ NewAt(H, f.heap, lb.ret, w, LB \cup LA)
       /\ opacity.ret # 0 => NewAt(H, f.heap, opacity.ret, w, Bits(H[q]) \cup Bits(H[p]))
  BY <1>13, <1>14, <1>15, <1>17, <1>18 DEF NewAt
<1>20. l["msb"] = mb.ret /\ l["lsb"] = lb.ret /\ l["opacity"] = opacity.ret /\ l.msb = mb.ret /\ l.lsb = lb.ret
  BY <1>0, <1>3, <1>5
<1>21. l \in ImageLine
  <2>1. msb.ret \in 0 .. MaxVectors /\ lsb.ret \in 0 .. MaxVectors /\ opacity.ret \in 0 .. MaxVectors
    BY <1>2, <1>3, <1>5, <1>12 DEF Pointers
  <2> QED BY <1>0, <2>1 DEF ImageLine
<1>22. \A i \in Part : l[i] # 0 => NewAt(H, f.heap, l[i], w, B[i])
  BY <1>0, <1>19, <1>20 DEF Part
<1>23. \A i, j \in Part : i # j /\ l[i] # 0 => l[i] # l[j]
  BY <1>1, <1>14, <1>20 DEF Part
<1>24. Draws(H, f, l, w, B)
  BY <1>17, <1>21, <1>22, <1>23 DEF Draws, Lined
<1> QED BY <1>1, <1>2, <1>15, <1>16, <1>20, <1>24, PointersAreNotZero DEF BothBits

LEMMA BelowDraws ==
  ASSUME NEW r, Running(r), NEW l1, NEW l2, NEW w, LineIn(r.heap, l1, w), LineIn(r.heap, l2, w),
         NEW p \in Pointers, OfSize(r.heap[p], w),
         NEW o, o = image_line_below_with_opacity(r, l1, l2, p)
  PROVE  /\ Draws(r.heap, o.r, o.line, w, BelowBits(r.heap, l1, l2, p, w))
         /\ o.code = "ERR_NONE" => o.line.msb # 0 /\ o.line.lsb # 0
<1>1. PICK n : n = Not(Copied(r, p))
  OBVIOUS
<1>2. PICK ma : ma = And(Copied(n, l2.msb), p)
  OBVIOUS
<1>3. PICK la : la = And(Copied(ma, l2.lsb), p)
  OBVIOUS
<1>4. PICK mb : mb = And(Copied(la, l1.msb), n.ret)
  OBVIOUS
<1>5. PICK lb : lb = And(Copied(mb, l1.lsb), n.ret)
  OBVIOUS
<1>6. PICK H, O, W : H = r.heap /\ O = Bits(r.heap[p]) /\ W = 0 .. w - 1
  OBVIOUS
<1>7. PICK N, MA, LA, MB, LB :
        /\ N = W \ O /\ MA = Bits(H[l2.msb]) \cap O /\ LA = Bits(H[l2.lsb]) \cap O
        /\ MB = Bits(H[l1.msb]) \cap (W \ O) /\ LB = Bits(H[l1.lsb]) \cap (W \ O)
  OBVIOUS
<1>8. FiveMade(H, n, ma, la, mb, lb, w, N, MA, LA, MB, LB)
  BY <1>1, <1>2, <1>3, <1>4, <1>5, <1>6, <1>7, FiveAreMade
<1>9. PICK made : made = { n.ret, ma.ret, mb.ret, la.ret, lb.ret }
  OBVIOUS
<1>10. PICK msb : msb = Or(On(lb, mb.ret), ma.ret)
  OBVIOUS
<1>11. PICK lsb : lsb = Or(On(msb, lb.ret), la.ret)
  OBVIOUS
<1>12. PICK opacity : opacity = Or(Copied(lsb, l1.opacity), p)
  OBVIOUS
<1>13. PICK l : l = [msb |-> msb.ret, lsb |-> lsb.ret, opacity |-> opacity.ret]
  OBVIOUS
<1>14. image_line_below_with_opacity(r, l1, l2, p) =
         IF 0 \in made THEN Done(bit_vector_free(lb, made), NoLine, "ERR_MEM")
         ELSE Done(bit_vector_free(opacity, { n.ret, ma.ret, la.ret }), l, "ERR_NONE")
  BY <1>1, <1>2, <1>3, <1>4, <1>5, <1>9, <1>10, <1>11, <1>12, <1>13
     DEF image_line_below_with_opacity, Spent
<1>15. CASE 0 \in made
  <2>1. PICK f : f = bit_vector_free(lb, made)
    OBVIOUS
  <2>2. o.r = f /\ o.line = NoLine /\ o.code = "ERR_MEM"
    BY <1>14, <1>15, <2>1 DEF Done
  <2>3. \A x \in made \cap Pointers : H[x] = NULL
    BY <1>8, <1>9, PointersAreNotZero DEF FiveMade, NewAt
  <2>4. Running(lb) /\ Same(H, lb.heap)
    BY <1>8 DEF FiveMade
  <2>5. Running(f) /\ Same(H, f.heap)
    BY <2>1, <2>3, <2>4, FreedRuns
  <2> QED BY <1>6, <2>2, <2>5, NoLineIsLined DEF Draws
<1>16. CASE 0 \notin made
  <2>1. PICK B : B = BelowBits(H, l1, l2, p, w)
    OBVIOUS
  <2>2. /\ B["msb"] = MB \cup MA /\ B["lsb"] = LB \cup LA
        /\ B["opacity"] = Bits(H[l1.opacity]) \cup Bits(H[p])
    BY <1>6, <1>7, <2>1 DEF BelowBits, CoveredBits, Part
  <2>3. l1.opacity \in Pointers /\ OfSize(H[l1.opacity], w)
    BY <1>6, PartIs, SameIsReflexive
  <2>4. BothBits(H, bit_vector_free(opacity, { n.ret, ma.ret, la.ret }), l, w, B)
    <3>1. 0 \notin { n.ret, ma.ret, mb.ret, la.ret, lb.ret }
      BY <1>9, <1>16
    <3>2. OfSize(H[p], w)
      BY <1>6
    <3>3. PutTogether(n, ma, la, mb, lb, l1.opacity, p, msb, lsb, opacity, l)
      BY <1>10, <1>11, <1>12, <1>13 DEF PutTogether
    <3>4. Sums(H, B, MA, LA, MB, LB, l1.opacity, p)
      BY <2>2 DEF Sums
    <3> QED BY <1>8, <2>3, <3>1, <3>2, <3>3, <3>4, FiveDraw
  <2>5. o.r = bit_vector_free(opacity, { n.ret, ma.ret, la.ret }) /\ o.line = l
    BY <1>14, <1>16 DEF Done
  <2> QED BY <1>6, <2>1, <2>4, <2>5 DEF BothBits
<1> QED BY <1>15, <1>16

-----------------------------------------------------------------------------
(* A whole line and its bits                                                 *)
Shows(h, l, w, B) ==
  l \in ImageLine /\ \A i \in Part : l[i] \in Pointers /\ OfSize(h[l[i]], w) /\ Bits(h[l[i]]) = B[i]

LEMMA WholeLineShows ==
  ASSUME NEW H, NEW h, NEW l, NEW w, NEW B, Lined(H, h, l, w, B), NON_NULL(l)
  PROVE  Shows(h, l, w, B)
<1>1. l \in ImageLine /\ \A i \in Part : l[i] # 0
  BY PartsOfLine DEF Lined
<1> QED BY <1>1 DEF Lined, NewAt, Shows

LEMMA LineShows ==
  ASSUME NEW h, NEW l, NEW w, LineIn(h, l, w)
  PROVE  Shows(h, l, w, LineBits(h, l))
<1>1. l \in ImageLine /\ \A i \in Part : l[i] # 0 /\ l[i] \in Pointers /\ OfSize(h[l[i]], w)
  BY PartsOfLine, PointersAreNotZero DEF LineIn, OfSize, Part
<1> QED BY <1>1 DEF Shows, LineBits

LEMMA StillShows ==
  ASSUME NEW H, NEW h, Same(H, h), NEW l, NEW w, NEW B, Shows(H, l, w, B)
  PROVE  Shows(h, l, w, B)
<1>1. \A i \in Part : h[l[i]] = H[l[i]]
  BY VectorIsNotNull DEF Shows, OfSize, Same
<1> QED BY <1>1 DEF Shows

(* The rows of image_create are blank                                        *)
RowsShow(H, o, n, w, height) ==
  /\ Running(o.r) /\ Same(H, o.r.heap)
  /\ o.content = [y \in 0 .. height - 1 |-> o.content[y]]
  /\ o.code = "ERR_NONE" => \A y \in 0 .. height - 1 : y < n => Shows(o.r.heap, o.content[y], w, NoBits)

LEMMA CreatedIsWhole ==
  ASSUME NEW r, NEW size, image_line_create(r, size).code = "ERR_NONE"
  PROVE  NON_NULL(image_line_create(r, size).line)
<1>1. PICK a, b, c :
        a = Created(r, size) /\ b = Created(a, size) /\ c = Created(b, size)
  OBVIOUS
<1>2. PICK o : o = [r |-> c, line |-> [lsb |-> a.ret, msb |-> b.ret, opacity |-> c.ret]]
  OBVIOUS
<1>3. image_line_create(r, size) = valid(o)
  BY <1>1, <1>2 DEF image_line_create, do_image_line
<1>4. CASE NON_NULL(o.line)
  BY <1>3, <1>4 DEF valid, Done
<1>5. CASE ~NON_NULL(o.line)
  BY <1>3, <1>5 DEF valid, Done
<1> QED BY <1>4, <1>5

LEMMA RowShows ==
  ASSUME NEW H, NEW w \in Nat \ {0}, NEW height \in Nat, NEW n \in 0 .. height - 1,
         NEW o, RowsShow(H, o, n, w, height)
  PROVE  RowsShow(H, Row(o, n, w), n + 1, w, height)
<1>1. CASE o.code # "ERR_NONE"
  BY <1>1 DEF Row, RowsShow
<1>2. CASE o.code = "ERR_NONE"
  <2>1. PICK l : l = image_line_create(o.r, w)
    OBVIOUS
  <2>2. Running(o.r) /\ Same(H, o.r.heap) /\ o.content = [y \in 0 .. height - 1 |-> o.content[y]]
    BY DEF RowsShow
  <2>3. DrawsWhole(o.r.heap, l, w, NoBits)
    BY <2>1, <2>2, CreateDraws
  <2>4. Running(l.r) /\ Same(o.r.heap, l.r.heap) /\ Lined(o.r.heap, l.r.heap, l.line, w, NoBits)
    BY <2>3 DEF DrawsWhole, Draws
  <2>5. Same(H, l.r.heap)
    BY <2>2, <2>4, SameIsTransitive
  <2>6. PICK c : c = [o.content EXCEPT ![n] = l.line]
    OBVIOUS
  <2>7. c = [y \in 0 .. height - 1 |-> c[y]] /\ c[n] = l.line
        /\ \A y \in 0 .. height - 1 : y # n => c[y] = o.content[y]
    BY <2>2, <2>6
  <2>8. PICK q : q = Row(o, n, w)
    OBVIOUS
  <2>9. q.r = l.r /\ q.content = c /\ q.code = l.code
    BY <1>2, <2>1, <2>6, <2>8 DEF Row
  <2>10. ASSUME l.code = "ERR_NONE", NEW y \in 0 .. height - 1, y < n + 1
         PROVE  Shows(l.r.heap, c[y], w, NoBits)
    <3>1. CASE y = n
      <4>1. NON_NULL(l.line)
        BY <2>1, <2>10, CreatedIsWhole
      <4> QED BY <2>4, <2>7, <3>1, <4>1, WholeLineShows
    <3>2. CASE y # n
      <4>1. y < n
        BY <2>10, <3>2
      <4>2. Shows(o.r.heap, o.content[y], w, NoBits)
        BY <1>2, <4>1 DEF RowsShow
      <4> QED BY <2>4, <2>7, <3>2, <4>2, StillShows
    <3> QED BY <3>1, <3>2
  <2>11. RowsShow(H, q, n + 1, w, height)
    BY <2>4, <2>5, <2>7, <2>9, <2>10 DEF RowsShow
  <2> QED BY <2>8, <2>11
<1> QED BY <1>1, <1>2

LEMMA AllRowsShow ==
  ASSUME NEW H, NEW w \in Nat \ {0}, NEW height \in Nat, NEW o, RowsShow(H, o, 0, w, height)
  PROVE  RowsShow(H, Rows(o, w, height), height, w, height)
<1>1. PICK g : /\ g[0] = o /\ Rows(o, w, height) = g[height]
               /\ \A y \in 0 .. height - 1 : g[y + 1] = Row(g[y], y, w)
  BY RowsInTurn
<1>2. PICK G : G = { n \in Nat : n <= height => RowsShow(H, g[n], n, w, height) }
  OBVIOUS
<1>3. 0 \in G
  BY <1>1, <1>2
<1>4. ASSUME NEW n \in Nat, n \in G
      PROVE  n + 1 \in G
  <2>1. SUFFICES ASSUME n + 1 <= height PROVE RowsShow(H, g[n + 1], n + 1, w, height)
    BY <1>2
  <2>2. n \in 0 .. height - 1 /\ n <= height
    BY <2>1
  <2>3. RowsShow(H, g[n], n, w, height)
    BY <1>2, <1>4, <2>2
  <2>4. RowsShow(H, Row(g[n], n, w), n + 1, w, height)
    BY <2>2, <2>3, RowShows
  <2> QED BY <1>1, <2>2, <2>4
<1>5. G = Nat
  BY <1>2, <1>3, <1>4, ByInduction
<1> QED BY <1>1, <1>2, <1>5

LEMMA CreateImageDraws ==
  ASSUME NEW r, Running(r), NEW w \in Nat \ {0}, NEW height \in Nat, NEW o, o = image_create(r, w, height)
  PROVE  \/ o.image = NoImage /\ o.code # "ERR_NONE"
         \/ /\ o.code = "ERR_NONE"
            /\ o.image.content = [y \in 0 .. height - 1 |-> o.image.content[y]]
            /\ \A y \in 0 .. height - 1 : Shows(o.r.heap, o.image.content[y], w, NoBits)
<1>1. PICK calloc : calloc = [r EXCEPT !.made = @ + 1]
  OBVIOUS
<1>2. Running(calloc) /\ calloc.heap = r.heap
  BY <1>1 DEF Running, IsCall
<1>3. PICK c : c = [y \in 0 .. height - 1 |-> NoLine]
  OBVIOUS
<1>4. c = [y \in 0 .. height - 1 |-> c[y]]
  BY <1>3
<1>5. PICK empty : empty = [r |-> calloc, content |-> c, code |-> "ERR_NONE"]
  OBVIOUS
<1>6. RowsShow(r.heap, empty, 0, w, height)
  <2>1. empty.r = calloc /\ empty.content = c
    BY <1>5
  <2>2. ~\E y \in 0 .. height - 1 : y < 0
    OBVIOUS
  <2> QED BY <1>2, <1>4, <2>1, <2>2, SameIsReflexive DEF RowsShow
<1>7. PICK rows : rows = Rows(empty, w, height)
  OBVIOUS
<1>8. RowsShow(r.heap, rows, height, w, height)
  BY <1>6, <1>7, AllRowsShow
<1>9. PICK im : im = [height |-> height, content |-> rows.content]
  OBVIOUS
<1>10. CASE 0 \in r.fails \/ rows.code # "ERR_NONE"
  <2>1. CASE 0 \in r.fails
    <3>1. o.image = NoImage /\ o.code = "ERR_MEM"
      BY <2>1 DEF image_create
    <3> QED BY <3>1
  <2>2. CASE 0 \notin r.fails /\ rows.code # "ERR_NONE"
    <3>1. o = [r |-> image_free(rows.r, im).r, image |-> image_free(rows.r, im).image, code |-> rows.code]
      BY <1>1, <1>3, <1>5, <1>7, <1>9, <2>2 DEF image_create
    <3>2. o.image = NoImage /\ o.code = rows.code
      BY <3>1 DEF image_free
    <3> QED BY <2>2, <3>2
  <2> QED BY <1>10, <2>1, <2>2
<1>11. CASE 0 \notin r.fails /\ rows.code = "ERR_NONE"
  <2>1. o = [r |-> rows.r, image |-> im, code |-> rows.code]
    BY <1>1, <1>3, <1>5, <1>7, <1>9, <1>11 DEF image_create
  <2>2. o.r = rows.r /\ o.image.content = rows.content /\ o.code = "ERR_NONE"
    BY <1>9, <1>11, <2>1
  <2>3. rows.content = [y \in 0 .. height - 1 |-> rows.content[y]]
    BY <1>8 DEF RowsShow
  <2>4. ASSUME NEW y \in 0 .. height - 1
        PROVE  Shows(rows.r.heap, rows.content[y], w, NoBits)
    <3>1. y < height
      OBVIOUS
    <3> QED BY <1>8, <1>11, <3>1 DEF RowsShow
  <2> QED BY <2>2, <2>3, <2>4
<1> QED BY <1>10, <1>11

-----------------------------------------------------------------------------
(* What is seen of a line in the heap h                                      *)
OpacityIn(h, p) ==
  IF p = 0 THEN [width |-> 0, opaque |-> {}] ELSE [width |-> h[p].size, opaque |-> Bits(h[p])]
Seen(h, l) ==
  IF ~NON_NULL(l)
  THEN [width |-> IF l = NoLine THEN 0 ELSE -1, opacity |-> OpacityIn(h, l.opacity)]
  ELSE [width |-> h[l.msb].size,
        pixel |-> [x \in 0 .. h[l.msb].size - 1 |->
          [colour |-> 2 * bit_vector_get(h[l.msb], x) + bit_vector_get(h[l.lsb], x),
           opaque |-> bit_vector_get(h[l.opacity], x) = 1]]]

PixelOf(B, x) ==
  [colour |-> (IF x \in B["msb"] THEN 2 ELSE 0) + (IF x \in B["lsb"] THEN 1 ELSE 0),
   opaque |-> x \in B["opacity"]]
Pixels(w, B) == [width |-> w, pixel |-> [x \in 0 .. w - 1 |-> PixelOf(B, x)]]
WithinLine(w, B) == w \in Nat \ {0} /\ \A i \in Part : B[i] \subseteq 0 .. w - 1

LEMMA GetIsBit ==
  ASSUME NEW v, NEW x \in 0 .. v.size - 1
  PROVE  bit_vector_get(v, x) = IF x \in Bits(v) THEN 1 ELSE 0
<1>1. bit_vector_get(v, x) = 0 \/ bit_vector_get(v, x) = 1
  BY DEF bit_vector_get
<1> QED BY <1>1 DEF Bits

LEMMA ShownIsSeen ==
  ASSUME NEW h, NEW l, NEW w, NEW B, Shows(h, l, w, B)
  PROVE  /\ Seen(h, l) = Pixels(w, B) /\ WithinLine(w, B)
         /\ NON_NULL(l) /\ l # NoLine
<1>1. /\ OfSize(h[l.msb], w) /\ OfSize(h[l.lsb], w) /\ OfSize(h[l.opacity], w)
      /\ Bits(h[l.msb]) = B["msb"] /\ Bits(h[l.lsb]) = B["lsb"] /\ Bits(h[l.opacity]) = B["opacity"]
      /\ l.msb # 0 /\ l.lsb # 0 /\ l.opacity # 0
  BY PartsOfLine, PointersAreNotZero DEF Shows, Part
<1>2. NON_NULL(l) /\ l # NoLine
  BY <1>1 DEF NON_NULL, PartsOf, NoLine
<1>3. h[l.msb].size = w /\ h[l.lsb].size = w /\ h[l.opacity].size = w /\ w \in Nat \ {0}
  BY <1>1, SizeOfVector DEF OfSize
<1>4. ASSUME NEW x \in 0 .. w - 1
      PROVE  [colour |-> 2 * bit_vector_get(h[l.msb], x) + bit_vector_get(h[l.lsb], x),
              opaque |-> bit_vector_get(h[l.opacity], x) = 1] = PixelOf(B, x)
  <2>1. /\ bit_vector_get(h[l.msb], x) = IF x \in B["msb"] THEN 1 ELSE 0
        /\ bit_vector_get(h[l.lsb], x) = IF x \in B["lsb"] THEN 1 ELSE 0
        /\ bit_vector_get(h[l.opacity], x) = IF x \in B["opacity"] THEN 1 ELSE 0
    BY <1>1, <1>3, GetIsBit
  <2>2. 2 * bit_vector_get(h[l.msb], x) + bit_vector_get(h[l.lsb], x)
          = (IF x \in B["msb"] THEN 2 ELSE 0) + (IF x \in B["lsb"] THEN 1 ELSE 0)
    BY <2>1
  <2>3. (bit_vector_get(h[l.opacity], x) = 1) = (x \in B["opacity"])
    BY <2>1
  <2> QED BY <2>2, <2>3, Zenon DEF PixelOf
<1>5. Seen(h, l) = Pixels(w, B)
  BY <1>2, <1>3, <1>4 DEF Seen, Pixels
<1>6. \A i \in Part : B[i] \subseteq 0 .. w - 1
  BY BitsAreBelow DEF Shows
<1> QED BY <1>2, <1>3, <1>5, <1>6 DEF WithinLine

LEMMA SeenStays ==
  ASSUME NEW H, NEW h, NEW l, l \in ImageLine, \A i \in Part : l[i] # 0 => h[l[i]] = H[l[i]]
  PROVE  Seen(h, l) = Seen(H, l)
<1>1. /\ l.msb # 0 => h[l.msb] = H[l.msb]
      /\ l.lsb # 0 => h[l.lsb] = H[l.lsb]
      /\ l.opacity # 0 => h[l.opacity] = H[l.opacity]
  BY PartsOfLine DEF Part
<1>2. NON_NULL(l) => l.msb # 0 /\ l.lsb # 0 /\ l.opacity # 0
  BY DEF NON_NULL, PartsOf
<1>3. CASE ~NON_NULL(l)
  <2>1. OpacityIn(h, l.opacity) = OpacityIn(H, l.opacity)
    BY <1>1 DEF OpacityIn
  <2> QED BY <1>3, <2>1 DEF Seen
<1>4. CASE NON_NULL(l)
  BY <1>1, <1>2, <1>4 DEF Seen
<1> QED BY <1>3, <1>4

LEMMA UsedIsSeen ==
  ASSUME NEW H, NEW h, Same(H, h), NEW l, Owned(H, l)
  PROVE  Seen(h, l) = Seen(H, l)
<1>1. l \in ImageLine /\ \A i \in Part : l[i] # 0 => l[i] \in Pointers /\ H[l[i]] # NULL
  BY PartsOfLine, PointersAreNotZero DEF Owned, Part
<1> QED BY <1>1, SeenStays DEF Same

-----------------------------------------------------------------------------
(* What Picture does to pixels, in bits                                      *)
LEMMA SamePixels ==
  ASSUME NEW w, NEW B, NEW f, f = [x \in 0 .. w - 1 |-> f[x]], \A x \in 0 .. w - 1 : f[x] = PixelOf(B, x)
  PROVE  [width |-> w, pixel |-> f] = Pixels(w, B)
<1>1. f = [x \in 0 .. w - 1 |-> PixelOf(B, x)]
  OBVIOUS
<1> QED BY <1>1 DEF Pixels

LEMMA PixelsAre ==
  ASSUME NEW w, NEW B
  PROVE  /\ Pixels(w, B).width = w /\ DOMAIN Pixels(w, B).pixel = 0 .. w - 1
         /\ \A x \in 0 .. w - 1 : Pixels(w, B).pixel[x] = PixelOf(B, x)
BY DEF Pixels

LEMMA PixelIs ==
  ASSUME NEW B, NEW C, NEW x, NEW y,
         x \in B["msb"] <=> y \in C["msb"], x \in B["lsb"] <=> y \in C["lsb"],
         x \in B["opacity"] <=> y \in C["opacity"]
  PROVE  PixelOf(B, x) = PixelOf(C, y)
<1>1. (x \in B["opacity"]) = (y \in C["opacity"])
  OBVIOUS
<1>2. (IF x \in B["msb"] THEN 2 ELSE 0) = (IF y \in C["msb"] THEN 2 ELSE 0)
  OBVIOUS
<1>3. (IF x \in B["lsb"] THEN 1 ELSE 0) = (IF y \in C["lsb"] THEN 1 ELSE 0)
  OBVIOUS
<1> QED BY <1>1, <1>2, <1>3, Zenon DEF PixelOf

LEMMA PixelIsBlank ==
  ASSUME NEW B, NEW x, x \notin B["msb"], x \notin B["lsb"], x \notin B["opacity"]
  PROVE  PixelOf(B, x) = [colour |-> 0, opaque |-> FALSE]
<1>1. (x \in B["opacity"]) = FALSE
  OBVIOUS
<1>2. (IF x \in B["msb"] THEN 2 ELSE 0) + (IF x \in B["lsb"] THEN 1 ELSE 0) = 0
  OBVIOUS
<1> QED BY <1>1, <1>2, Zenon DEF PixelOf

LEMMA LineIsDrawn ==
  ASSUME NEW w, NEW B, WithinLine(w, B)
  PROVE  /\ P!IsDrawn(Pixels(w, B)) /\ Pixels(w, B).width = w
         /\ P!Opacity(Pixels(w, B)) = [width |-> w, opaque |-> B["opacity"]]
<1>1. w > 0 /\ B["opacity"] \subseteq 0 .. w - 1
  BY DEF WithinLine, Part
<1>2. P!IsDrawn(Pixels(w, B))
  BY <1>1, PixelsAre DEF P!IsDrawn
<1>3. \A x : PixelOf(B, x).opaque = (x \in B["opacity"])
  BY DEF PixelOf
<1>4. { k \in DOMAIN Pixels(w, B).pixel : Pixels(w, B).pixel[k].opaque } = B["opacity"]
  <2>1. ASSUME NEW x \in 0 .. w - 1
        PROVE  Pixels(w, B).pixel[x].opaque <=> x \in B["opacity"]
    <3>1. Pixels(w, B).pixel[x] = PixelOf(B, x)
      BY PixelsAre
    <3>2. Pixels(w, B).pixel[x].opaque = (x \in B["opacity"])
      BY <1>3, <3>1, Zenon
    <3> QED BY <3>2, Zenon
  <2>2. DOMAIN Pixels(w, B).pixel = 0 .. w - 1
    BY PixelsAre
  <2>3. ASSUME NEW x
        PROVE  x \in { k \in DOMAIN Pixels(w, B).pixel : Pixels(w, B).pixel[k].opaque } <=> x \in B["opacity"]
    BY <1>1, <2>1, <2>2, Zenon
  <2> QED BY <2>3, Zenon
<1> QED BY <1>2, <1>4, PixelsAre DEF P!Opacity

LEMMA BlankIsDrawn ==
  ASSUME NEW w
  PROVE  P!BlankLine(w) = Pixels(w, NoBits)
<1>1. \A x \in 0 .. w - 1 : PixelOf(NoBits, x) = P!Blank
  BY PixelIsBlank DEF NoBits, Part, P!Blank
<1>2. PICK f : f = [k \in 0 .. w - 1 |-> P!Blank]
  OBVIOUS
<1>3. f = [x \in 0 .. w - 1 |-> f[x]] /\ \A x \in 0 .. w - 1 : f[x] = PixelOf(NoBits, x)
  BY <1>1, <1>2
<1> QED BY <1>2, <1>3, SamePixels DEF P!BlankLine, P!Drawn

LEMMA ShiftIsDrawn ==
  ASSUME NEW w, NEW B, WithinLine(w, B), NEW by \in Int
  PROVE  P!Shifted(Pixels(w, B), by) = Pixels(w, [i \in Part |-> ShiftedBits(B[i], w, by)])
<1>1. PICK C : C = [i \in Part |-> ShiftedBits(B[i], w, by)]
  OBVIOUS
<1>2. PICK s : s = Pixels(w, B)
  OBVIOUS
<1>3. s.width = w /\ DOMAIN s.pixel = 0 .. w - 1 /\ \A x \in 0 .. w - 1 : s.pixel[x] = PixelOf(B, x)
  BY <1>2, PixelsAre
<1>4. PICK f : f = [k \in DOMAIN s.pixel |-> IF k - by \in DOMAIN s.pixel THEN s.pixel[k - by] ELSE P!Blank]
  OBVIOUS
<1>5. f = [k \in 0 .. w - 1 |-> f[k]]
  BY <1>3, <1>4
<1>6. ASSUME NEW x \in 0 .. w - 1
      PROVE  f[x] = PixelOf(C, x)
  <2>1. \A i \in Part : x \in C[i] <=> x - by \in B[i]
    BY <1>1 DEF ShiftedBits
  <2>2. CASE x - by \in 0 .. w - 1
    <3>1. f[x] = PixelOf(B, x - by)
      BY <1>3, <1>4, <2>2
    <3> QED BY <2>1, <3>1, PixelIs DEF Part
  <2>3. CASE x - by \notin 0 .. w - 1
    <3>1. f[x] = P!Blank
      BY <1>3, <1>4, <2>3
    <3>2. \A i \in Part : x \notin C[i]
      BY <2>1, <2>3 DEF WithinLine
    <3> QED BY <3>1, <3>2, PixelIsBlank DEF Part, P!Blank
  <2> QED BY <2>2, <2>3
<1>7. P!Shifted(s, by) = [width |-> w, pixel |-> f]
  BY <1>3, <1>4 DEF P!Shifted, P!Drawn
<1> QED BY <1>1, <1>2, <1>5, <1>6, <1>7, SamePixels

LEMMA ExtractIsDrawn ==
  ASSUME NEW w, NEW B, WithinLine(w, B), NEW index \in Int, NEW size \in Nat \ {0}
  PROVE  P!Extracted(Pixels(w, B), index, size) = Pixels(size, [i \in Part |-> ExtractedBits(B[i], w, index, size)])
<1>1. PICK C : C = [i \in Part |-> ExtractedBits(B[i], w, index, size)]
  OBVIOUS
<1>2. PICK s : s = Pixels(w, B)
  OBVIOUS
<1>3. s.width = w /\ DOMAIN s.pixel = 0 .. w - 1 /\ \A x \in 0 .. w - 1 : s.pixel[x] = PixelOf(B, x)
  BY <1>2, PixelsAre
<1>4. PICK f : f = [k \in 0 .. size - 1 |-> s.pixel[(k + index) % s.width]]
  OBVIOUS
<1>5. f = [k \in 0 .. size - 1 |-> f[k]]
  BY <1>4
<1>6. ASSUME NEW x \in 0 .. size - 1
      PROVE  f[x] = PixelOf(C, x)
  <2>1. PICK y : y = (x + index) % w
    OBVIOUS
  <2>2. y \in 0 .. w - 1
    BY <2>1 DEF WithinLine
  <2>3. f[x] = PixelOf(B, y)
    BY <1>3, <1>4, <2>1, <2>2
  <2>4. \A i \in Part : x \in C[i] <=> y \in B[i]
    BY <1>1, <2>1 DEF ExtractedBits
  <2> QED BY <2>3, <2>4, PixelIs DEF Part
<1>7. P!Extracted(s, index, size) = [width |-> size, pixel |-> f]
  BY <1>4 DEF P!Extracted, P!Drawn
<1> QED BY <1>1, <1>2, <1>5, <1>6, <1>7, SamePixels

LEMMA JoinIsDrawn ==
  ASSUME NEW w, NEW A, NEW B, WithinLine(w, A), WithinLine(w, B), NEW start \in Int
  PROVE  P!Joined(Pixels(w, A), Pixels(w, B), start) = Pixels(w, [i \in Part |-> JoinedBits(A[i], B[i], start)])
<1>1. PICK C : C = [i \in Part |-> JoinedBits(A[i], B[i], start)]
  OBVIOUS
<1>2. PICK s : s = Pixels(w, A)
  OBVIOUS
<1>3. PICK t : t = Pixels(w, B)
  OBVIOUS
<1>4. s.width = w /\ DOMAIN s.pixel = 0 .. w - 1 /\ \A x \in 0 .. w - 1 : s.pixel[x] = PixelOf(A, x)
  BY <1>2, PixelsAre
<1>5. \A x \in 0 .. w - 1 : t.pixel[x] = PixelOf(B, x)
  BY <1>3, PixelsAre
<1>6. PICK f : f = [k \in DOMAIN s.pixel |-> IF k < start THEN s.pixel[k] ELSE t.pixel[k]]
  OBVIOUS
<1>7. f = [k \in 0 .. w - 1 |-> f[k]]
  BY <1>4, <1>6
<1>8. ASSUME NEW x \in 0 .. w - 1
      PROVE  f[x] = PixelOf(C, x)
  <2>1. \A i \in Part : C[i] = JoinedBits(A[i], B[i], start)
    BY <1>1
  <2>2. CASE x < start
    <3>1. f[x] = PixelOf(A, x)
      BY <1>4, <1>6, <2>2
    <3>2. \A i \in Part : x \in C[i] <=> x \in A[i]
      BY <2>1, <2>2 DEF JoinedBits
    <3> QED BY <3>1, <3>2, PixelIs DEF Part
  <2>3. CASE ~(x < start)
    <3>1. f[x] = PixelOf(B, x)
      BY <1>4, <1>5, <1>6, <2>3
    <3>2. \A i \in Part : x \in C[i] <=> x \in B[i]
      BY <2>1, <2>3 DEF JoinedBits
    <3> QED BY <3>1, <3>2, PixelIs DEF Part
  <2> QED BY <2>2, <2>3
<1>9. P!Joined(s, t, start) = [width |-> w, pixel |-> f]
  BY <1>4, <1>6 DEF P!Joined, P!Drawn
<1> QED BY <1>1, <1>2, <1>3, <1>7, <1>8, <1>9, SamePixels

(* A line over a line, seen through a mask                                   *)
OverBits(A, B, O, w) ==
  [i \in Part |-> IF i = "opacity" THEN A["opacity"] \cup O ELSE CoveredBits(A[i], B[i], O, 0 .. w - 1)]

LEMMA OverIsDrawn ==
  ASSUME NEW w, NEW A, NEW B, WithinLine(w, A), WithinLine(w, B), NEW O, NEW C, C = OverBits(A, B, O, w)
  PROVE  O \subseteq 0 .. w - 1 => P!Over(Pixels(w, A), Pixels(w, B), O) = Pixels(w, C)
<1> SUFFICES ASSUME O \subseteq 0 .. w - 1 PROVE P!Over(Pixels(w, A), Pixels(w, B), O) = Pixels(w, C)
  OBVIOUS
<1>1. PICK s : s = Pixels(w, A)
  OBVIOUS
<1>2. PICK t : t = Pixels(w, B)
  OBVIOUS
<1>3. s.width = w /\ DOMAIN s.pixel = 0 .. w - 1 /\ \A x \in 0 .. w - 1 : s.pixel[x] = PixelOf(A, x)
  BY <1>1, PixelsAre
<1>4. \A x \in 0 .. w - 1 : t.pixel[x] = PixelOf(B, x)
  BY <1>2, PixelsAre
<1>5. PICK f : f = [k \in DOMAIN s.pixel |->
                     [colour |-> IF k \in O THEN t.pixel[k].colour ELSE s.pixel[k].colour,
                      opaque |-> s.pixel[k].opaque \/ k \in O]]
  OBVIOUS
<1>6. f = [k \in 0 .. w - 1 |-> f[k]]
  BY <1>3, <1>5
<1>7. ASSUME NEW x \in 0 .. w - 1
      PROVE  f[x] = PixelOf(C, x)
  <2>1. /\ x \in C["msb"] <=> (IF x \in O THEN x \in B["msb"] ELSE x \in A["msb"])
        /\ x \in C["lsb"] <=> (IF x \in O THEN x \in B["lsb"] ELSE x \in A["lsb"])
        /\ x \in C["opacity"] <=> x \in A["opacity"] \/ x \in O
    BY DEF OverBits, CoveredBits, Part
  <2>2. PixelOf(C, x).colour = IF x \in O THEN PixelOf(B, x).colour ELSE PixelOf(A, x).colour
    BY <2>1 DEF PixelOf
  <2>3. (PixelOf(A, x).opaque \/ x \in O) = (x \in C["opacity"])
    <3>1. PixelOf(A, x).opaque = (x \in A["opacity"])
      BY DEF PixelOf
    <3>2. (x \in A["opacity"] \/ x \in O) = (x \in C["opacity"])
      BY <2>1
    <3> QED BY <3>1, <3>2, Zenon
  <2>4. f[x] = [colour |-> IF x \in O THEN PixelOf(B, x).colour ELSE PixelOf(A, x).colour,
                opaque |-> PixelOf(A, x).opaque \/ x \in O]
    BY <1>3, <1>4, <1>5
  <2>5. PixelOf(C, x) = [colour |-> PixelOf(C, x).colour, opaque |-> x \in C["opacity"]]
    BY DEF PixelOf
  <2> QED BY <2>2, <2>3, <2>4, <2>5, Zenon
<1>8. P!Over(s, t, O) = [width |-> w, pixel |-> f]
  BY <1>3, <1>5 DEF P!Over, P!Drawn
<1> QED BY <1>1, <1>2, <1>6, <1>7, <1>8, SamePixels

(* A palette gives each colour its two bits                                  *)
LEMMA PaletteBits ==
  ASSUME NEW map \in Nat, NEW c \in 0 .. 3
  PROVE  (map \div 4^c) % 4 = (IF Bit1(map, c) THEN 2 ELSE 0) + (IF Bit0(map, c) THEN 1 ELSE 0)
<1>1. 4^0 = 1 /\ 4^1 = 4 /\ 4^2 = 16 /\ 4^3 = 64
  OBVIOUS
<1>2. PICK d : d = 4^c
  OBVIOUS
<1>3. d = 1 \/ d = 4 \/ d = 16 \/ d = 64
  <2>1. CASE c = 0
    BY <1>1, <1>2, <2>1
  <2>2. CASE c = 1
    BY <1>1, <1>2, <2>2
  <2>3. CASE c = 2
    BY <1>1, <1>2, <2>3
  <2>4. CASE c = 3
    BY <1>1, <1>2, <2>4
  <2>5. c = 0 \/ c = 1 \/ c = 2 \/ c = 3
    OBVIOUS
  <2> QED BY <2>1, <2>2, <2>3, <2>4, <2>5
<1>4. map \div (2 * d) = (map \div d) \div 2 /\ map \div d \in Nat
  BY <1>3
<1>5. PICK q \in Nat : q = map \div d
  BY <1>4
<1>6. q % 4 = 2 * ((q \div 2) % 2) + (q % 2) /\ (q \div 2) % 2 \in { 0, 1 } /\ q % 2 \in { 0, 1 }
  OBVIOUS
<1>7. Bit0(map, c) <=> q % 2 = 1
  BY <1>2, <1>5 DEF Bit0
<1>8. Bit1(map, c) <=> (q \div 2) % 2 = 1
  BY <1>2, <1>4, <1>5 DEF Bit1
<1>9. (map \div 4^c) % 4 = q % 4
  BY <1>2, <1>5
<1> QED BY <1>6, <1>7, <1>8, <1>9

HasColour(H, l, w, x, c) == c \in 0 .. 3 /\ \A d \in 0 .. 3 : x \in ColourBits(H, l, w, d) <=> d = c

LEMMA ColourOfPixel ==
  ASSUME NEW H, NEW l, NEW w, NEW B, B["msb"] = Bits(H[l.msb]), B["lsb"] = Bits(H[l.lsb]), NEW x \in 0 .. w - 1,
         NEW c, c = PixelOf(B, x).colour
  PROVE  HasColour(H, l, w, x, c)
<1>1. c = (IF x \in B["msb"] THEN 2 ELSE 0) + (IF x \in B["lsb"] THEN 1 ELSE 0)
  BY DEF PixelOf
<1>2. ASSUME NEW d \in 0 .. 3
      PROVE  x \in ColourBits(H, l, w, d) <=> d = c
  <2>1. x \in ColourBits(H, l, w, d) <=>
          (x \in B["msb"] <=> d \in { 2, 3 }) /\ (x \in B["lsb"] <=> d \in { 1, 3 })
    BY DEF ColourBits, MaskBits
  <2> QED BY <1>1, <2>1
<1> QED BY <1>1, <1>2 DEF HasColour

LEMMA MapIsDrawn ==
  ASSUME NEW H, NEW l, NEW w, NEW B,
         B["msb"] = Bits(H[l.msb]), B["lsb"] = Bits(H[l.lsb]), B["opacity"] = Bits(H[l.opacity]),
         NEW map \in Nat
  PROVE  P!Recoloured(Pixels(w, B), map) = Pixels(w, MappedBits(H, l, w, map))
<1>1. PICK C : C = MappedBits(H, l, w, map)
  OBVIOUS
<1>2. PICK s : s = Pixels(w, B)
  OBVIOUS
<1>3. s.width = w /\ DOMAIN s.pixel = 0 .. w - 1 /\ \A x \in 0 .. w - 1 : s.pixel[x] = PixelOf(B, x)
  BY <1>2, PixelsAre
<1>4. PICK f : f = [k \in DOMAIN s.pixel |-> [s.pixel[k] EXCEPT !.colour = (map \div 4^@) % 4]]
  OBVIOUS
<1>5. f = [k \in 0 .. w - 1 |-> f[k]]
  BY <1>3, <1>4
<1>6. ASSUME NEW x \in 0 .. w - 1
      PROVE  f[x] = PixelOf(C, x)
  <2>1. PICK c : c = PixelOf(B, x).colour
    OBVIOUS
  <2>2. c \in 0 .. 3 /\ \A d \in 0 .. 3 : x \in ColourBits(H, l, w, d) <=> d = c
    <3>1. HasColour(H, l, w, x, c)
      BY <2>1, ColourOfPixel
    <3> QED BY <3>1 DEF HasColour
  <2>3. /\ x \in C["msb"] <=> Bit1(map, c)
        /\ x \in C["lsb"] <=> Bit0(map, c)
        /\ x \in C["opacity"] <=> x \in B["opacity"]
    BY <1>1, <2>2 DEF MappedBits, Part
  <2>4. PICK d : d = (map \div 4^c) % 4
    OBVIOUS
  <2>5. d = (IF x \in C["msb"] THEN 2 ELSE 0) + (IF x \in C["lsb"] THEN 1 ELSE 0)
    <3>1. d = (IF Bit1(map, c) THEN 2 ELSE 0) + (IF Bit0(map, c) THEN 1 ELSE 0)
      BY <2>2, <2>4, PaletteBits
    <3> QED BY <2>3, <3>1
  <2>6. PICK q : q = PixelOf(B, x)
    OBVIOUS
  <2>7. q = [colour |-> c, opaque |-> x \in B["opacity"]]
    BY <2>1, <2>6 DEF PixelOf
  <2>8. f[x] = [q EXCEPT !.colour = (map \div 4^@) % 4]
    BY <1>3, <1>4, <2>6
  <2>9. f[x] = [colour |-> d, opaque |-> x \in B["opacity"]]
    <3>1. q.colour = c
      BY <2>1, <2>6
    <3>2. f[x] = [q EXCEPT !.colour = d]
      BY <2>4, <2>8, <3>1
    <3>3. [[colour |-> c, opaque |-> x \in B["opacity"]] EXCEPT !.colour = d]
             = [colour |-> d, opaque |-> x \in B["opacity"]]
      OBVIOUS
    <3> QED BY <2>7, <3>2, <3>3
  <2>10. (x \in B["opacity"]) = (x \in C["opacity"])
    BY <2>3
  <2> QED BY <2>5, <2>9, <2>10, Zenon DEF PixelOf
<1>7. P!Recoloured(s, map) = [width |-> w, pixel |-> f]
  BY <1>3, <1>4 DEF P!Recoloured, P!Drawn
<1> QED BY <1>1, <1>2, <1>5, <1>6, <1>7, SamePixels

(* A word drawn over a line                                                  *)
WordPart(i, msb, lsb) == IF i = "msb" THEN msb ELSE IF i = "lsb" THEN lsb ELSE msb \cup lsb
WordedBits(B, w, index, msb, lsb) ==
  [i \in Part |-> { k \in 0 .. w - 1 : IF k \div 32 = index THEN k % 32 \in WordPart(i, msb, lsb) ELSE k \in B[i] }]

LEMMA WordIsDrawn ==
  ASSUME NEW w, NEW B, NEW index, NEW msb, NEW lsb
  PROVE  P!WithWord(Pixels(w, B), index, msb, lsb) = Pixels(w, WordedBits(B, w, index, msb, lsb))
<1>1. PICK C : C = WordedBits(B, w, index, msb, lsb)
  OBVIOUS
<1>2. PICK g : g = [x \in 0 .. w - 1 |-> PixelOf(B, x)]
  OBVIOUS
<1>3. PICK f : f = [k \in DOMAIN g |->
                     IF k \div 32 # index THEN g[k]
                     ELSE [colour |-> (IF k % 32 \in msb THEN 2 ELSE 0) + (IF k % 32 \in lsb THEN 1 ELSE 0),
                           opaque |-> k % 32 \in msb \cup lsb]]
  OBVIOUS
<1>4. f = [k \in 0 .. w - 1 |-> f[k]]
  BY <1>2, <1>3
<1>5. ASSUME NEW x \in 0 .. w - 1
      PROVE  f[x] = PixelOf(C, x)
  <2>1. \A i \in Part : x \in C[i] <=>
          IF x \div 32 = index THEN x % 32 \in WordPart(i, msb, lsb) ELSE x \in B[i]
    BY <1>1 DEF WordedBits
  <2>2. CASE x \div 32 = index
    <3>1. /\ x \in C["msb"] <=> x % 32 \in msb
          /\ x \in C["lsb"] <=> x % 32 \in lsb
          /\ x \in C["opacity"] <=> x % 32 \in msb \/ x % 32 \in lsb
      BY <2>1, <2>2 DEF Part, WordPart
    <3>2. PICK c : c = (IF x % 32 \in msb THEN 2 ELSE 0) + (IF x % 32 \in lsb THEN 1 ELSE 0)
      OBVIOUS
    <3>3. c = (IF x \in C["msb"] THEN 2 ELSE 0) + (IF x \in C["lsb"] THEN 1 ELSE 0)
      BY <3>1, <3>2
    <3>4. (x % 32 \in msb \cup lsb) = (x \in C["opacity"])
      BY <3>1
    <3>5. f[x] = [colour |-> c, opaque |-> x % 32 \in msb \cup lsb]
      BY <1>2, <1>3, <2>2, <3>2
    <3> QED BY <3>3, <3>4, <3>5, Zenon DEF PixelOf
  <2>3. CASE x \div 32 # index
    <3>1. f[x] = PixelOf(B, x)
      BY <1>2, <1>3, <2>3
    <3>2. \A i \in Part : x \in C[i] <=> x \in B[i]
      BY <2>1, <2>3
    <3> QED BY <3>1, <3>2, PixelIs DEF Part
  <2> QED BY <2>2, <2>3
<1>6. PICK s : s = [width |-> w, pixel |-> g]
  OBVIOUS
<1>7. P!WithWord(s, index, msb, lsb) = [s EXCEPT !.pixel = f]
  BY <1>3, <1>6 DEF P!WithWord
<1>8. P!WithWord(s, index, msb, lsb) = [width |-> w, pixel |-> f]
  BY <1>6, <1>7
<1>9. s = Pixels(w, B)
  BY <1>2, <1>6 DEF Pixels
<1> QED BY <1>1, <1>4, <1>5, <1>8, <1>9, SamePixels

-----------------------------------------------------------------------------
(* What changes in place: a word of a line, and a row that is copied over    *)
Written(u, v, w, index, word) ==
  /\ OfSize(u, w)
  /\ Bits(u) = { k \in 0 .. w - 1 : IF k \div 32 = index THEN k % 32 \in word ELSE k \in Bits(v) }

LEMMA WordBits ==
  ASSUME NEW v, NEW w, OfSize(v, w), NEW index \in Chunks(w), NEW word \in SUBSET Places,
         NEW u, u = [v EXCEPT !.content[index] = word]
  PROVE  Written(u, v, w, index, word)
<1>1. /\ v = [size |-> w, content |-> v.content] /\ w \in Nat \ {0}
      /\ v.content \in [Chunks(w) -> SUBSET Places]
  BY SizeOfVector DEF OfSize, IsVector
<1>2. PICK c : c = [v.content EXCEPT ![index] = word]
  OBVIOUS
<1>3. c \in [Chunks(w) -> SUBSET Places] /\ c[index] = word
      /\ \A j \in Chunks(w) : j # index => c[j] = v.content[j]
  BY <1>1, <1>2
<1>4. u = [size |-> w, content |-> c]
  BY <1>1, <1>2
<1>5. OfSize(u, w) /\ Bits(u) = { k \in 0 .. w - 1 : k % 32 \in c[k \div 32] }
  BY <1>1, <1>3, <1>4, VectorOfChunks DEF OfSize
<1>6. Bits(v) = { k \in 0 .. w - 1 : k % 32 \in v.content[k \div 32] }
  BY <1>1, VectorOfChunks
<1>7. \A k \in 0 .. w - 1 : k \div 32 \in Chunks(w)
  BY <1>1, BitHasChunk
<1>8. Bits(u) = { k \in 0 .. w - 1 : IF k \div 32 = index THEN k % 32 \in word ELSE k \in Bits(v) }
  BY <1>3, <1>5, <1>6, <1>7
<1> QED BY <1>5, <1>8 DEF Written

LEMMA WordShows ==
  ASSUME NEW H, Good(H), NEW l, Owned(H, l), NEW w, NEW B, Shows(H, l, w, B), NEW index \in Chunks(w),
         NEW msb \in SUBSET Places, NEW lsb \in SUBSET Places,
         NEW h, h = Worded(H, l, index, msb, lsb)
  PROVE  /\ Shows(h, l, w, WordedBits(B, w, index, msb, lsb))
         /\ \A p \in Pointers : p \notin PartsOf(l) => h[p] = H[p]
<1>1. /\ l.msb \in Pointers /\ OfSize(H[l.msb], w) /\ Bits(H[l.msb]) = B["msb"]
      /\ l.lsb \in Pointers /\ OfSize(H[l.lsb], w) /\ Bits(H[l.lsb]) = B["lsb"]
      /\ l.opacity \in Pointers /\ OfSize(H[l.opacity], w) /\ Bits(H[l.opacity]) = B["opacity"]
      /\ l \in ImageLine
  BY PartsOfLine DEF Shows, Part
<1>2. l.msb # l.lsb /\ l.msb # l.opacity /\ l.lsb # l.opacity
  BY <1>1, PartsOfLine, PointersAreNotZero DEF Owned, Part
<1>3. H = [p \in Pointers |-> H[p]]
  BY DEF Good
<1>4. PICK a : a = [H[l.msb] EXCEPT !.content[index] = msb]
  OBVIOUS
<1>5. PICK b : b = [H[l.lsb] EXCEPT !.content[index] = lsb]
  OBVIOUS
<1>6. PICK c : c = [H[l.opacity] EXCEPT !.content[index] = msb \cup lsb]
  OBVIOUS
<1>7. /\ h[l.msb] = a /\ h[l.lsb] = b /\ h[l.opacity] = c
      /\ \A p \in Pointers : p # l.msb /\ p # l.lsb /\ p # l.opacity => h[p] = H[p]
  <2>1. PICK h1 : h1 = [H EXCEPT ![l.msb] = a]
    OBVIOUS
  <2>2. PICK h2 : h2 = [h1 EXCEPT ![l.lsb] = b]
    OBVIOUS
  <2>3. PICK h3 : h3 = [h2 EXCEPT ![l.opacity] = c]
    OBVIOUS
  <2>4. h1 = [p \in Pointers |-> h1[p]] /\ h1[l.msb] = a /\ \A p \in Pointers : p # l.msb => h1[p] = H[p]
    BY <1>1, <1>3, <2>1
  <2>5. h2 = [p \in Pointers |-> h2[p]] /\ h2[l.lsb] = b /\ \A p \in Pointers : p # l.lsb => h2[p] = h1[p]
    BY <1>1, <2>2, <2>4
  <2>6. h3 = [p \in Pointers |-> h3[p]] /\ h3[l.opacity] = c /\ \A p \in Pointers : p # l.opacity => h3[p] = h2[p]
    BY <1>1, <2>3, <2>5
  <2>7. h1[l.lsb] = H[l.lsb] /\ h2[l.opacity] = H[l.opacity]
    BY <1>1, <1>2, <2>4, <2>5
  <2>8. h = h3
    BY <1>4, <1>5, <1>6, <2>1, <2>2, <2>3, <2>7 DEF Worded
  <2> QED BY <1>1, <1>2, <2>4, <2>5, <2>6, <2>8
<1>8. /\ OfSize(a, w) /\ Bits(a) = { k \in 0 .. w - 1 : IF k \div 32 = index THEN k % 32 \in msb ELSE k \in B["msb"] }
      /\ OfSize(b, w) /\ Bits(b) = { k \in 0 .. w - 1 : IF k \div 32 = index THEN k % 32 \in lsb ELSE k \in B["lsb"] }
  <2>1. Written(a, H[l.msb], w, index, msb) /\ Written(b, H[l.lsb], w, index, lsb)
    BY <1>1, <1>4, <1>5, WordBits
  <2> QED BY <1>1, <2>1 DEF Written
<1>9. /\ OfSize(c, w)
      /\ Bits(c) = { k \in 0 .. w - 1 : IF k \div 32 = index THEN k % 32 \in msb \cup lsb ELSE k \in B["opacity"] }
  <2>1. msb \cup lsb \in SUBSET Places
    OBVIOUS
  <2>2. Written(c, H[l.opacity], w, index, msb \cup lsb)
    BY <1>1, <1>6, <2>1, WordBits
  <2> QED BY <1>1, <2>2 DEF Written
<1>10. PICK C : C = WordedBits(B, w, index, msb, lsb)
  OBVIOUS
<1>11. Bits(a) = C["msb"] /\ Bits(b) = C["lsb"] /\ Bits(c) = C["opacity"]
  BY <1>8, <1>9, <1>10 DEF WordedBits, WordPart, Part
<1>12. \A i \in Part : l[i] \in Pointers /\ OfSize(h[l[i]], w) /\ Bits(h[l[i]]) = C[i]
  BY <1>1, <1>7, <1>8, <1>9, <1>11, PartsOfLine DEF Part
<1> QED BY <1>1, <1>7, <1>10, <1>12 DEF Shows, PartsOf

LEMMA CopyShows ==
  ASSUME NEW H, Good(H), NEW l, Owned(H, l), NEW w, NEW A, Shows(H, l, w, A), NEW m, NEW B, Shows(H, m, w, B),
         NEW h, h = CopiedOver(H, l, m)
  PROVE  /\ Shows(h, l, w, B)
         /\ \A p \in Pointers : p \notin PartsOf(l) => h[p] = H[p]
<1>1. /\ l.msb \in Pointers /\ OfSize(H[l.msb], w)
      /\ l.lsb \in Pointers /\ OfSize(H[l.lsb], w)
      /\ l.opacity \in Pointers /\ OfSize(H[l.opacity], w)
      /\ l \in ImageLine
  BY PartsOfLine DEF Shows, Part
<1>2. l.msb # l.lsb /\ l.msb # l.opacity /\ l.lsb # l.opacity
  BY <1>1, PartsOfLine, PointersAreNotZero DEF Owned, Part
<1>3. H = [p \in Pointers |-> H[p]]
  BY DEF Good
<1>4. /\ OfSize(H[m.msb], w) /\ Bits(H[m.msb]) = B["msb"]
      /\ OfSize(H[m.lsb], w) /\ Bits(H[m.lsb]) = B["lsb"]
      /\ OfSize(H[m.opacity], w) /\ Bits(H[m.opacity]) = B["opacity"]
  BY PartsOfLine DEF Shows, Part
<1>5. ASSUME NEW u, NEW v, OfSize(u, w), OfSize(v, w)
      PROVE  [u EXCEPT !.content = v.content] = v
  <2>1. u = [size |-> w, content |-> u.content] /\ v = [size |-> w, content |-> v.content]
    BY <1>5 DEF OfSize, IsVector
  <2>2. [[size |-> w, content |-> u.content] EXCEPT !.content = v.content] = [size |-> w, content |-> v.content]
    OBVIOUS
  <2> QED BY <2>1, <2>2
<1>6. /\ h[l.msb] = H[m.msb] /\ h[l.lsb] = H[m.lsb] /\ h[l.opacity] = H[m.opacity]
      /\ \A p \in Pointers : p # l.msb /\ p # l.lsb /\ p # l.opacity => h[p] = H[p]
  <2>1. PICK h1 : h1 = [H EXCEPT ![l.lsb].content = H[m.lsb].content]
    OBVIOUS
  <2>2. PICK h2 : h2 = [h1 EXCEPT ![l.msb].content = H[m.msb].content]
    OBVIOUS
  <2>3. PICK h3 : h3 = [h2 EXCEPT ![l.opacity].content = H[m.opacity].content]
    OBVIOUS
  <2>4. h1 = [p \in Pointers |-> h1[p]] /\ h1[l.lsb] = H[m.lsb] /\ \A p \in Pointers : p # l.lsb => h1[p] = H[p]
    BY <1>1, <1>3, <1>4, <1>5, <2>1
  <2>5. h2 = [p \in Pointers |-> h2[p]] /\ h2[l.msb] = H[m.msb] /\ \A p \in Pointers : p # l.msb => h2[p] = h1[p]
    <3>1. h1[l.msb] = H[l.msb]
      BY <1>1, <1>2, <2>4
    <3>2. h2 = [h1 EXCEPT ![l.msb] = H[m.msb]]
      BY <1>1, <1>4, <1>5, <2>2, <3>1
    <3> QED BY <1>1, <2>4, <3>2
  <2>6. h3 = [p \in Pointers |-> h3[p]] /\ h3[l.opacity] = H[m.opacity]
        /\ \A p \in Pointers : p # l.opacity => h3[p] = h2[p]
    <3>1. h2[l.opacity] = H[l.opacity]
      BY <1>1, <1>2, <2>4, <2>5
    <3>2. h3 = [h2 EXCEPT ![l.opacity] = H[m.opacity]]
      BY <1>1, <1>4, <1>5, <2>3, <3>1
    <3> QED BY <1>1, <2>5, <3>2
  <2>7. h = h3
    BY <2>1, <2>2, <2>3 DEF CopiedOver
  <2> QED BY <1>1, <1>2, <2>4, <2>5, <2>6, <2>7
<1>7. \A i \in Part : l[i] \in Pointers /\ OfSize(h[l[i]], w) /\ Bits(h[l[i]]) = B[i]
  BY <1>1, <1>4, <1>6, PartsOfLine DEF Part
<1> QED BY <1>1, <1>6, <1>7 DEF Shows, PartsOf

-----------------------------------------------------------------------------
(* The lines and the rows as they are seen                                   *)
LEMMA WhatIsSeen ==
  /\ LinesSeen = [l \in Lines |-> Seen(heap, line[l])]
  /\ LinesSeen' = [l \in Lines |-> Seen(heap', line'[l])]
  /\ RowsSeen = [y \in DOMAIN image.content |-> Seen(heap, image.content[y])]
  /\ RowsSeen' = [y \in DOMAIN image'.content |-> Seen(heap', image'.content[y])]
BY DEF LinesSeen, RowsSeen, View, Seen, OpacityOf, OpacityIn, Width, Colour

(* Without a line, and of a line that is not whole                           *)
LEMMA NoLineIsSeen == \A h : Seen(h, NoLine) = P!Empty
BY DEF Seen, OpacityIn, NoLine, NON_NULL, PartsOf, P!Empty, P!NoOpacity

LEMMA NotWhole ==
  ASSUME NEW h, NEW l, ~NON_NULL(l)
  PROVE  ~P!IsDrawn(Seen(h, l)) /\ P!Opacity(Seen(h, l)) = OpacityIn(h, l.opacity)
<1>1. Seen(h, l) = [width |-> IF l = NoLine THEN 0 ELSE -1, opacity |-> OpacityIn(h, l.opacity)]
  BY DEF Seen
<1>2. Seen(h, l).width \in { 0, -1 } /\ Seen(h, l).opacity = OpacityIn(h, l.opacity)
  BY <1>1
<1>3. ~P!IsDrawn(Seen(h, l))
  BY <1>2 DEF P!IsDrawn
<1> QED BY <1>2, <1>3 DEF P!Opacity

LEMMA WholeIsSeen ==
  ASSUME Good(heap), NEW l, Owned(heap, l), NON_NULL(l)
  PROVE  LET w == Width(l)
             B == LineBits(heap, l)
         IN  /\ LineIn(heap, l, w) /\ Shows(heap, l, w, B) /\ WithinLine(w, B) /\ w \in Nat \ {0}
             /\ Seen(heap, l) = Pixels(w, B) /\ P!IsDrawn(Seen(heap, l)) /\ Seen(heap, l).width = w
             /\ P!Opacity(Seen(heap, l)) = [width |-> w, opaque |-> B["opacity"]]
<1>1. PICK w, B : w = Width(l) /\ B = LineBits(heap, l)
  OBVIOUS
<1>2. LineIn(heap, l, w) /\ w \in Nat \ {0}
  BY <1>1, WholeLine DEF Width
<1>3. Shows(heap, l, w, B)
  BY <1>1, <1>2, LineShows
<1>4. Seen(heap, l) = Pixels(w, B) /\ WithinLine(w, B)
  BY <1>3, ShownIsSeen
<1>5. /\ P!IsDrawn(Seen(heap, l)) /\ Seen(heap, l).width = w
      /\ P!Opacity(Seen(heap, l)) = [width |-> w, opaque |-> B["opacity"]]
  BY <1>4, LineIsDrawn
<1> QED BY <1>1, <1>2, <1>3, <1>4, <1>5

(* The widths of the lines that are drawn                                    *)
Proper == \A l \in Lines : P!IsDrawn(LinesSeen[l]) => LinesSeen[l].width \in Widths

LEMMA WholeLineIsDrawn ==
  ASSUME IInv, NEW a \in Lines, NON_NULL(line[a])
  PROVE  LET w == Width(line[a])
             B == LineBits(heap, line[a])
         IN  /\ LineIn(heap, line[a], w) /\ Shows(heap, line[a], w, B) /\ WithinLine(w, B)
             /\ LinesSeen[a] = Pixels(w, B) /\ P!IsDrawn(LinesSeen[a])
             /\ LinesSeen[a].width = w /\ w \in Nat \ {0}
             /\ Proper => w \in Widths
<1>1. PICK w, B : w = Width(line[a]) /\ B = LineBits(heap, line[a])
  OBVIOUS
<1>2. Good(heap) /\ Owned(heap, line[a])
  BY DEF IInv, Sound, Owners
<1>3. LinesSeen[a] = Seen(heap, line[a])
  BY WhatIsSeen
<1>4. /\ LineIn(heap, line[a], w) /\ Shows(heap, line[a], w, B) /\ WithinLine(w, B) /\ w \in Nat \ {0}
      /\ LinesSeen[a] = Pixels(w, B) /\ P!IsDrawn(LinesSeen[a]) /\ LinesSeen[a].width = w
  BY <1>1, <1>2, <1>3, WholeIsSeen
<1> QED BY <1>1, <1>4 DEF Proper

LEMMA WholeIsDrawn ==
  ASSUME IInv, NEW a \in Lines
  PROVE  NON_NULL(line[a]) <=> P!IsDrawn(LinesSeen[a])
<1>1. LinesSeen[a] = Seen(heap, line[a])
  BY WhatIsSeen
<1> QED BY <1>1, NotWhole, WholeLineIsDrawn

(* The opacity of a line is seen even where the line is not whole            *)
LEMMA MaskIsSeen ==
  ASSUME IInv, NEW c \in Lines
  PROVE  P!Opacity(LinesSeen[c]) = OpacityIn(heap, line[c].opacity)
<1>1. LinesSeen[c] = Seen(heap, line[c])
  BY WhatIsSeen
<1>2. CASE NON_NULL(line[c])
  <2>1. PICK w, B, l : l = line[c] /\ w = Width(l) /\ B = LineBits(heap, l)
    OBVIOUS
  <2>2. Good(heap) /\ Owned(heap, l)
    BY <2>1 DEF IInv, Sound, Owners
  <2>3. LineIn(heap, l, w) /\ P!Opacity(LinesSeen[c]) = [width |-> w, opaque |-> B["opacity"]]
    BY <1>1, <1>2, <2>1, <2>2, WholeIsSeen
  <2>4. l.opacity # 0 /\ l["opacity"] = l.opacity /\ "opacity" \in Part
    BY <2>3, PartsOfLine, PointersAreNotZero DEF LineIn, Part
  <2>5. heap[l.opacity].size = w /\ B["opacity"] = Bits(heap[l.opacity])
    BY <2>1, <2>3, <2>4 DEF LineIn, LineBits
  <2> QED BY <2>1, <2>3, <2>4, <2>5 DEF OpacityIn
<1>3. CASE ~NON_NULL(line[c])
  BY <1>1, <1>3, NotWhole
<1> QED BY <1>2, <1>3

(* Lines match when they are drawn and as wide                               *)
LEMMA MatchIsSeen ==
  ASSUME Good(heap), NEW l, Owned(heap, l), NEW m, Owned(heap, m)
  PROVE  MATCHING(l, m) <=> P!Match(Seen(heap, l), Seen(heap, m))
<1>1. CASE ~(NON_NULL(l) /\ NON_NULL(m))
  BY <1>1, NotWhole DEF MATCHING, P!Match
<1>2. CASE NON_NULL(l) /\ NON_NULL(m)
  <2>1. /\ LineIn(heap, l, Width(l)) /\ P!IsDrawn(Seen(heap, l)) /\ Seen(heap, l).width = Width(l)
        /\ LineIn(heap, m, Width(m)) /\ P!IsDrawn(Seen(heap, m)) /\ Seen(heap, m).width = Width(m)
    BY <1>2, WholeIsSeen
  <2>2. /\ heap[l.msb].size = Width(l) /\ heap[l.lsb].size = Width(l) /\ heap[l.opacity].size = Width(l)
        /\ heap[m.msb].size = Width(m) /\ heap[m.lsb].size = Width(m) /\ heap[m.opacity].size = Width(m)
    BY <2>1, PartsOfLine DEF LineIn, Part
  <2>3. P!Match(Seen(heap, l), Seen(heap, m)) <=> Width(l) = Width(m)
    BY <2>1 DEF P!Match
  <2> QED BY <1>2, <2>2, <2>3 DEF MATCHING
<1> QED BY <1>1, <1>2

LEMMA LinesMatch ==
  ASSUME IInv, NEW a \in Lines, NEW b \in Lines
  PROVE  MATCHING(line[a], line[b]) <=> P!Match(LinesSeen[a], LinesSeen[b])
<1>1. Good(heap) /\ Owned(heap, line[a]) /\ Owned(heap, line[b])
  BY DEF IInv, Sound, Owners
<1>2. LinesSeen[a] = Seen(heap, line[a]) /\ LinesSeen[b] = Seen(heap, line[b])
  BY WhatIsSeen
<1> QED BY <1>1, <1>2, MatchIsSeen

LEMMA RowMatches ==
  ASSUME IInv, NEW y, NEW a \in Lines
  PROVE  y \in 0 .. image.height =>
           (y < image.height /\ MATCHING(image.content[y], line[a]) <=> P!CanTake(y, a))
<1> SUFFICES ASSUME y \in 0 .. image.height
             PROVE  y < image.height /\ MATCHING(image.content[y], line[a]) <=> P!CanTake(y, a)
  OBVIOUS
<1>1. DOMAIN image.content = 0 .. image.height - 1 /\ image.height \in Nat
  BY DEF IInv, Sound, IsImage
<1>2. y < image.height <=> y \in DOMAIN image.content
  BY <1>1
<1>3. DOMAIN RowsSeen = DOMAIN image.content
      /\ \A z \in DOMAIN image.content : RowsSeen[z] = Seen(heap, image.content[z])
  BY WhatIsSeen
<1>4. LinesSeen[a] = Seen(heap, line[a])
  BY WhatIsSeen
<1>5. ASSUME y \in DOMAIN image.content
      PROVE  MATCHING(image.content[y], line[a]) <=> P!Match(RowsSeen[y], LinesSeen[a])
  <2>1. Good(heap) /\ Owned(heap, image.content[y]) /\ Owned(heap, line[a])
    BY <1>5 DEF IInv, Sound, Owners
  <2> QED BY <1>3, <1>4, <1>5, <2>1, MatchIsSeen
<1>6. P!CanTake(y, a) <=> y \in DOMAIN RowsSeen /\ P!Match(RowsSeen[y], LinesSeen[a])
  BY DEF P!CanTake
<1> QED BY <1>2, <1>3, <1>5, <1>6

-----------------------------------------------------------------------------
(* What comes of a call that makes a line: nothing else is seen to change,   *)
(* for the line is written in memory that was free                           *)
LEMMA OneLineWritten ==
  ASSUME NEW out \in Lines, NEW made, LinesSeen'[out] = made,
         \A other \in Lines \ { out } : LinesSeen'[other] = LinesSeen[other]
  PROVE  /\ LinesSeen' = [LinesSeen EXCEPT ![out] = made]
         /\ LinesSeen[out] = made => LinesSeen' = LinesSeen
<1>1. LinesSeen = [l \in Lines |-> LinesSeen[l]] /\ LinesSeen' = [l \in Lines |-> LinesSeen'[l]]
  BY DEF LinesSeen
<1>2. PICK seen, drawn : seen = LinesSeen /\ drawn = LinesSeen'
  OBVIOUS
<1>3. seen = [l \in Lines |-> seen[l]] /\ drawn = [l \in Lines |-> drawn[l]]
      /\ drawn[out] = made /\ \A other \in Lines \ { out } : drawn[other] = seen[other]
  BY <1>1, <1>2
<1>4. drawn = [seen EXCEPT ![out] = made] /\ (seen[out] = made => drawn = seen)
  BY <1>3
<1> QED BY <1>2, <1>4

LEMMA OthersStay ==
  ASSUME IInv, NEW out \in Lines, line[out] = NoLine,
         NEW o, NEW lost, Called(o, lost), line' = [line EXCEPT ![out] = o.line], UNCHANGED image,
         Same(heap, o.r.heap)
  PROVE  /\ RowsSeen' = RowsSeen
         /\ \A other \in Lines \ { out } : LinesSeen'[other] = LinesSeen[other]
         /\ LinesSeen'[out] = Seen(o.r.heap, o.line) /\ LinesSeen[out] = P!Empty
<1>1. heap' = o.r.heap /\ image' = image
  BY DEF Called
<1>2. line = [l \in Lines |-> line[l]] /\ Owners(heap, line, image.content)
  BY DEF IInv, Sound
<1>3. line'[out] = o.line /\ \A other \in Lines \ { out } : line'[other] = line[other]
  BY <1>2
<1>4. \A other \in Lines \ { out } : LinesSeen'[other] = LinesSeen[other]
  <2>1. ASSUME NEW other \in Lines \ { out }
        PROVE  Seen(heap', line[other]) = Seen(heap, line[other])
    BY <1>1, <1>2, UsedIsSeen DEF Owners
  <2> QED BY <1>3, <2>1, WhatIsSeen
<1>5. RowsSeen' = RowsSeen
  <2>1. ASSUME NEW y \in DOMAIN image.content
        PROVE  Seen(heap', image.content[y]) = Seen(heap, image.content[y])
    BY <1>1, <1>2, UsedIsSeen DEF Owners
  <2> QED BY <1>1, <2>1, WhatIsSeen
<1>6. LinesSeen'[out] = Seen(o.r.heap, o.line)
  BY <1>1, <1>3, WhatIsSeen
<1>7. LinesSeen[out] = P!Empty
  BY NoLineIsSeen, WhatIsSeen
<1> QED BY <1>4, <1>5, <1>6, <1>7

(* A call that has no line to return was short of memory, and says so        *)
Ends(o) ==
  /\ o.code = "ERR_NONE" \/ (o.code = "ERR_MEM" /\ o.line = NoLine /\ o.r.failed)
  /\ NON_NULL(o.line) \/ o.r.failed

LEMMA MakesEnds ==
  ASSUME NEW H, NEW r, NEW S, NEW o, NEW T, NEW Z, Makes(H, r, S, o, T, Z), Exact(S, o, T)
  PROVE  Ends(o)
BY DEF Makes, Exact, Ends

LEMMA LineIsWritten ==
  ASSUME IInv, NEW out \in Lines, line[out] = NoLine,
         NEW o, NEW lost, Called(o, lost), line' = [line EXCEPT ![out] = o.line], UNCHANGED image,
         Same(heap, o.r.heap), Ends(o)
  PROVE  /\ o.code = "ERR_NONE" => P!Draws(out, Seen(o.r.heap, o.line))
         /\ o.code # "ERR_NONE" => P!FailsForMemory
         /\ NON_NULL(o.line) \/ short'
<1>1. /\ RowsSeen' = RowsSeen
      /\ \A other \in Lines \ { out } : LinesSeen'[other] = LinesSeen[other]
      /\ LinesSeen'[out] = Seen(o.r.heap, o.line) /\ LinesSeen[out] = P!Empty
  BY OthersStay
<1>2. /\ LinesSeen' = [LinesSeen EXCEPT ![out] = Seen(o.r.heap, o.line)]
      /\ LinesSeen[out] = Seen(o.r.heap, o.line) => LinesSeen' = LinesSeen
  BY <1>1, OneLineWritten
<1>3. result' = o.code /\ short' = o.r.failed
  BY DEF Called
<1>4. CASE o.code = "ERR_NONE"
  <2>1. P!Draws(out, Seen(o.r.heap, o.line))
    BY <1>1, <1>2, <1>3, <1>4 DEF P!Draws
  <2>2. NON_NULL(o.line) \/ short'
    BY <1>3, Zenon DEF Ends
  <2> QED BY <1>4, <2>1, <2>2
<1>5. CASE o.code # "ERR_NONE"
  <2>1. o.code = "ERR_MEM" /\ o.line = NoLine /\ o.r.failed
    BY <1>5, Zenon DEF Ends
  <2>2. LinesSeen' = LinesSeen
    BY <1>1, <1>2, <2>1, NoLineIsSeen
  <2>3. short'
    BY <1>3, <2>1, Zenon
  <2>4. P!FailsForMemory
    BY <1>1, <1>3, <2>1, <2>2, <2>3 DEF P!FailsForMemory, P!Fails
  <2> QED BY <1>5, <2>3, <2>4
<1> QED BY <1>4, <1>5

(* The functions that return a whole line, or none                           *)
LEMMA ValidIsWhole ==
  ASSUME NEW q
  PROVE  valid(q).code = "ERR_NONE" => NON_NULL(valid(q).line)
<1>1. CASE NON_NULL(q.line)
  BY <1>1 DEF valid, Done
<1>2. CASE ~NON_NULL(q.line)
  BY <1>2 DEF valid, Done
<1> QED BY <1>1, <1>2

LEMMA MadeIsDrawn ==
  ASSUME IInv, NEW out \in Lines, line[out] = NoLine,
         NEW o, NEW lost, Called(o, lost), line' = [line EXCEPT ![out] = o.line], UNCHANGED image,
         NEW w, NEW B, Draws(heap, o.r, o.line, w, B), Ends(o), NEW q, o = valid(q)
  PROVE  P!Makes(out, Pixels(w, B))
<1>1. Same(heap, o.r.heap) /\ Lined(heap, o.r.heap, o.line, w, B)
  BY DEF Draws
<1>2. /\ o.code = "ERR_NONE" => P!Draws(out, Seen(o.r.heap, o.line))
      /\ o.code # "ERR_NONE" => P!FailsForMemory
  BY <1>1, LineIsWritten
<1>3. o.code = "ERR_NONE" => Seen(o.r.heap, o.line) = Pixels(w, B)
  BY <1>1, ValidIsWhole, WholeLineShows, ShownIsSeen
<1> QED BY <1>2, <1>3 DEF P!Makes

(* The functions that may return a line that is not whole                    *)
LEMMA LeftIsSeen ==
  ASSUME NEW H, NEW h, NEW l, NEW w, NEW B, Lined(H, h, l, w, B), ~NON_NULL(l)
  PROVE  /\ Seen(h, l) \in { P!Empty, P!Incomplete(P!NoOpacity),
                             P!Incomplete([width |-> w, opaque |-> B["opacity"]]) }
         /\ l.msb # 0 /\ l.lsb # 0 => Seen(h, l) = P!Incomplete(P!NoOpacity)
<1>1. Seen(h, l) = [width |-> IF l = NoLine THEN 0 ELSE -1, opacity |-> OpacityIn(h, l.opacity)]
  BY DEF Seen
<1>2. CASE l.opacity = 0
  <2>1. OpacityIn(h, l.opacity) = P!NoOpacity
    BY <1>2 DEF OpacityIn, P!NoOpacity
  <2>2. l.msb # 0 => l # NoLine
    BY DEF NoLine
  <2> QED BY <1>1, <2>1, <2>2 DEF P!Empty, P!Incomplete
<1>3. CASE l.opacity # 0
  <2>1. l["opacity"] = l.opacity /\ "opacity" \in Part
    BY PartsOfLine DEF Lined, Part
  <2>2. OfSize(h[l.opacity], w) /\ Bits(h[l.opacity]) = B["opacity"]
    BY <1>3, <2>1 DEF Lined, NewAt
  <2>3. OpacityIn(h, l.opacity) = [width |-> w, opaque |-> B["opacity"]]
    BY <1>3, <2>2 DEF OpacityIn, OfSize
  <2>4. l # NoLine
    BY <1>3 DEF NoLine
  <2>5. l.msb = 0 \/ l.lsb = 0
    BY <1>3 DEF NON_NULL, PartsOf
  <2> QED BY <1>1, <2>3, <2>4, <2>5 DEF P!Incomplete
<1> QED BY <1>2, <1>3

LEMMA MadeOrLeft ==
  ASSUME IInv, NEW out \in Lines, line[out] = NoLine,
         NEW o, NEW lost, Called(o, lost), line' = [line EXCEPT ![out] = o.line], UNCHANGED image,
         NEW w, NEW B, Draws(heap, o.r, o.line, w, B), Ends(o), NEW left,
         NON_NULL(o.line) \/ o.code # "ERR_NONE" \/ Seen(o.r.heap, o.line) \in left
  PROVE  P!MakesOrLeaves(out, Pixels(w, B), left)
<1>1. Same(heap, o.r.heap) /\ Lined(heap, o.r.heap, o.line, w, B)
  BY DEF Draws
<1>2. /\ o.code = "ERR_NONE" => P!Draws(out, Seen(o.r.heap, o.line))
      /\ o.code # "ERR_NONE" => P!FailsForMemory
      /\ NON_NULL(o.line) \/ short'
  BY <1>1, LineIsWritten
<1>3. CASE o.code # "ERR_NONE"
  BY <1>2, <1>3 DEF P!MakesOrLeaves, P!Makes
<1>4. CASE o.code = "ERR_NONE" /\ NON_NULL(o.line)
  <2>1. Seen(o.r.heap, o.line) = Pixels(w, B)
    BY <1>1, <1>4, WholeLineShows, ShownIsSeen
  <2>2. P!Draws(out, Pixels(w, B))
    BY <1>2, <1>4, <2>1
  <2> QED BY <2>2 DEF P!MakesOrLeaves, P!Makes
<1>5. CASE o.code = "ERR_NONE" /\ ~NON_NULL(o.line)
  <2>1. \E l \in left : P!Draws(out, l)
    BY <1>2, <1>5
  <2>2. short'
    BY <1>2, <1>5
  <2> QED BY <2>1, <2>2, Zenon DEF P!MakesOrLeaves
<1> QED BY <1>3, <1>4, <1>5

LEMMA BeginRuns ==
  ASSUME IInv, NEW fails
  PROVE  Running(Begin(fails)) /\ Begin(fails).heap = heap
<1>1. Good(heap)
  BY DEF IInv, Sound
<1>2. Work(heap, Begin(fails), {}, {})
  BY <1>1, BeginWorks
<1>3. Begin(fails).heap = heap
  BY DEF Begin
<1> QED BY <1>1, <1>2, <1>3 DEF Work, Running

(* A refused call changes nothing that is seen                               *)
LEMMA RefusedIsSeen == Refused => P!Refuses
<1> SUFFICES ASSUME Refused PROVE P!Refuses
  OBVIOUS
<1>1. LinesSeen' = LinesSeen /\ RowsSeen' = RowsSeen
  BY WhatIsSeen DEF Refused
<1> QED BY <1>1 DEF Refused, P!Refuses

-----------------------------------------------------------------------------
(* Each call draws what the picture's function of that name does, with its   *)
(* arguments                                                                 *)
LEMMA CreateIsDrawn ==
  ASSUME IInv, NEW out \in Lines, line[out] = NoLine, NEW size \in Widths, CreateLine(out, size)
  PROVE  P!Makes(out, P!BlankLine(size))
<1>1. PICK fails, o :
         /\ o = image_line_create(Begin(fails), size) /\ Called(o, FALSE)
         /\ line' = [line EXCEPT ![out] = o.line] /\ UNCHANGED image
  BY DEF CreateLine, Writes, Outcomes
<1>2. size \in Nat \ {0} /\ Good(heap)
  BY SizesAssumption DEF IInv, Sound
<1>3. Running(Begin(fails)) /\ Begin(fails).heap = heap
  BY BeginRuns
<1>4. Draws(heap, o.r, o.line, size, NoBits)
  BY <1>1, <1>2, <1>3, CreateDraws DEF DrawsWhole
<1>5. Ends(o)
  <2>1. Work(heap, Begin(fails), {}, { size })
    BY <1>2, BeginWorks
  <2> QED BY <1>1, <1>2, <2>1, CreateMakes, MakesEnds
<1>6. PICK q : o = valid(q)
  BY <1>1 DEF image_line_create, do_image_line
<1> QED BY <1>1, <1>4, <1>5, <1>6, MadeIsDrawn, BlankIsDrawn

LEMMA ShiftIsDrawnOn ==
  ASSUME IInv, Proper, InRange, NEW out \in Lines, line[out] = NoLine, NEW a \in Lines, NEW shift \in Shifts,
         ShiftLine(out, a, shift), NON_NULL(line[a])
  PROVE  P!Makes(out, P!Shifted(LinesSeen[a], shift))
<1>1. PICK fails, o :
         /\ o = image_line_shift(Begin(fails), line[a], shift) /\ Called(o, FALSE)
         /\ line' = [line EXCEPT ![out] = o.line] /\ UNCHANGED image
  BY DEF ShiftLine, Writes, Outcomes
<1>2. PICK w, B : w = Width(line[a]) /\ B = LineBits(heap, line[a])
  OBVIOUS
<1>3. /\ LineIn(heap, line[a], w) /\ WithinLine(w, B) /\ LinesSeen[a] = Pixels(w, B)
      /\ w \in Widths /\ w \in Nat \ {0}
  BY <1>2, WholeLineIsDrawn
<1>4. Running(Begin(fails)) /\ Begin(fails).heap = heap
  BY BeginRuns
<1>5. PICK C : C = [i \in Part |-> ShiftedBits(B[i], w, shift)]
  OBVIOUS
<1>6. Draws(heap, o.r, o.line, w, C)
  <2>1. ShiftFits(w, shift) /\ shift \in Int
    BY <1>3, SizesAssumption DEF InRange
  <2>2. DrawsWhole(heap, o, w, [i \in Part |-> ShiftedBits(Bits(heap[line[a][i]]), w, shift)])
    BY <1>1, <1>3, <1>4, <2>1, ShiftDraws
  <2>3. C = [i \in Part |-> ShiftedBits(Bits(heap[line[a][i]]), w, shift)]
    BY <1>2, <1>5 DEF LineBits
  <2> QED BY <2>2, <2>3 DEF DrawsWhole
<1>7. Ends(o)
  <2>1. Good(heap)
    BY DEF IInv, Sound
  <2>2. Work(heap, Begin(fails), {}, { w })
    BY <2>1, BeginWorks
  <2>3. PICK T : Makes(heap, Begin(fails), {}, o, T, { w }) /\ Exact({}, o, T)
    BY <1>1, <1>3, <2>1, <2>2, ShiftMakes
  <2> QED BY <2>3, MakesEnds
<1>8. PICK q : o = valid(q)
  BY <1>1 DEF image_line_shift, do_image_line
<1>9. P!Shifted(LinesSeen[a], shift) = Pixels(w, C)
  <2>1. shift \in Int
    BY SizesAssumption
  <2> QED BY <1>3, <1>5, <2>1, ShiftIsDrawn
<1> QED BY <1>1, <1>6, <1>7, <1>8, <1>9, MadeIsDrawn

LEMMA ExtractIsDrawnOn ==
  ASSUME IInv, Proper, InRange, NEW out \in Lines, line[out] = NoLine, NEW a \in Lines, NEW index \in Indexes,
         NEW size \in Widths, ExtractLine(out, a, index, size), NON_NULL(line[a])
  PROVE  P!Makes(out, P!Extracted(LinesSeen[a], index, size))
<1>1. PICK fails, o :
         /\ o = image_line_extract_wrap_ext(Begin(fails), line[a], index, size) /\ Called(o, FALSE)
         /\ line' = [line EXCEPT ![out] = o.line] /\ UNCHANGED image
  BY DEF ExtractLine, Writes, Outcomes
<1>2. PICK w, B : w = Width(line[a]) /\ B = LineBits(heap, line[a])
  OBVIOUS
<1>3. /\ LineIn(heap, line[a], w) /\ WithinLine(w, B) /\ LinesSeen[a] = Pixels(w, B)
      /\ w \in Widths /\ w \in Nat \ {0}
  BY <1>2, WholeLineIsDrawn
<1>4. Running(Begin(fails)) /\ Begin(fails).heap = heap
  BY BeginRuns
<1>5. PICK C : C = [i \in Part |-> ExtractedBits(B[i], w, index, size)]
  OBVIOUS
<1>6. size \in Nat \ {0} /\ index \in Int
  BY SizesAssumption
<1>7. Draws(heap, o.r, o.line, size, C)
  <2>1. ExtractFits(w, index, size)
    BY <1>3 DEF InRange
  <2>2. DrawsWhole(heap, o, size, [i \in Part |-> ExtractedBits(Bits(heap[line[a][i]]), w, index, size)])
    BY <1>1, <1>3, <1>4, <1>6, <2>1, ExtractDraws
  <2>3. C = [i \in Part |-> ExtractedBits(Bits(heap[line[a][i]]), w, index, size)]
    BY <1>2, <1>5 DEF LineBits
  <2> QED BY <2>2, <2>3 DEF DrawsWhole
<1>8. Ends(o)
  <2>1. Good(heap)
    BY DEF IInv, Sound
  <2>2. Work(heap, Begin(fails), {}, { size })
    BY <2>1, BeginWorks
  <2> QED BY <1>1, <1>3, <1>6, <2>1, <2>2, ExtractMakes, MakesEnds
<1>9. PICK q : o = valid(q)
  BY <1>1 DEF image_line_extract_wrap_ext, do_image_line
<1>10. P!Extracted(LinesSeen[a], index, size) = Pixels(size, C)
  BY <1>3, <1>5, <1>6, ExtractIsDrawn
<1> QED BY <1>1, <1>7, <1>8, <1>9, <1>10, MadeIsDrawn

LEMMA MapIsDrawnOn ==
  ASSUME IInv, NEW out \in Lines, line[out] = NoLine, NEW a \in Lines, NEW map \in Palettes,
         MapColors(out, a, map), NON_NULL(line[a]),
         NEW made, made = P!Recoloured(LinesSeen[a], map)
  PROVE  P!MakesOrLeaves(out, made, { P!Empty, P!Incomplete(P!NoOpacity), P!Incomplete(P!Opacity(made)) })
<1>1. PICK fails, o :
         /\ o = image_line_map_colors(Begin(fails), line[a], map) /\ Called(o, FALSE)
         /\ line' = [line EXCEPT ![out] = o.line] /\ UNCHANGED image
  BY DEF MapColors, Writes, Outcomes
<1>2. PICK l, w, B : l = line[a] /\ w = Width(line[a]) /\ B = LineBits(heap, line[a])
  OBVIOUS
<1>3. LineIn(heap, l, w) /\ WithinLine(w, B) /\ LinesSeen[a] = Pixels(w, B) /\ w \in Nat \ {0}
  BY <1>2, WholeLineIsDrawn
<1>4. Running(Begin(fails)) /\ Begin(fails).heap = heap
  BY BeginRuns
<1>5. PICK C : C = MappedBits(heap, l, w, map)
  OBVIOUS
<1>6. Draws(heap, o.r, o.line, w, C)
  BY <1>1, <1>2, <1>3, <1>4, <1>5, MapColorsDraws
<1>7. B["msb"] = Bits(heap[l.msb]) /\ B["lsb"] = Bits(heap[l.lsb]) /\ B["opacity"] = Bits(heap[l.opacity])
  <2>1. l \in ImageLine
    BY <1>3 DEF LineIn
  <2> QED BY <1>2, <2>1, PartsOfLine DEF LineBits, Part
<1>8. WithinLine(w, C)
  BY <1>3, <1>5, <1>7 DEF WithinLine, MappedBits, Part
<1>9. made = Pixels(w, C)
  <2>1. map \in Nat
    BY SizesAssumption
  <2> QED BY <1>3, <1>5, <1>7, <2>1, MapIsDrawn
<1>10. P!Opacity(made) = [width |-> w, opaque |-> C["opacity"]]
  BY <1>8, <1>9, LineIsDrawn
<1>11. Ends(o)
  <2>1. Good(heap)
    BY DEF IInv, Sound
  <2>2. Work(heap, Begin(fails), {}, { w })
    BY <2>1, BeginWorks
  <2>3. PICK T : Makes(heap, Begin(fails), {}, o, T, { w }) /\ Exact({}, o, T)
    BY <1>1, <1>2, <1>3, <2>1, <2>2, MapColorsMakes
  <2> QED BY <2>3, MakesEnds
<1>12. PICK left : left = { P!Empty, P!Incomplete(P!NoOpacity), P!Incomplete(P!Opacity(made)) }
  OBVIOUS
<1>13. NON_NULL(o.line) \/ Seen(o.r.heap, o.line) \in left
  BY <1>6, <1>10, <1>12, LeftIsSeen DEF Draws
<1> QED BY <1>1, <1>6, <1>9, <1>11, <1>12, <1>13, MadeOrLeft

LEMMA MatchingAreDrawn ==
  ASSUME IInv, NEW a \in Lines, NEW b \in Lines, MATCHING(line[a], line[b])
  PROVE  LET w == Width(line[a])
             A == LineBits(heap, line[a])
             B == LineBits(heap, line[b])
         IN  /\ LineIn(heap, line[a], w) /\ LineIn(heap, line[b], w)
             /\ WithinLine(w, A) /\ WithinLine(w, B)
             /\ LinesSeen[a] = Pixels(w, A) /\ LinesSeen[b] = Pixels(w, B)
             /\ LinesSeen[a].width = w /\ w \in Nat \ {0}
<1>1. NON_NULL(line[a]) /\ NON_NULL(line[b]) /\ Width(line[a]) = Width(line[b])
  BY DEF MATCHING, Width
<1>2. PICK w, A, B : w = Width(line[a]) /\ A = LineBits(heap, line[a]) /\ B = LineBits(heap, line[b])
  OBVIOUS
<1>3. /\ LineIn(heap, line[a], w) /\ WithinLine(w, A) /\ LinesSeen[a] = Pixels(w, A)
      /\ LinesSeen[a].width = w /\ w \in Nat \ {0}
  BY <1>1, <1>2, WholeLineIsDrawn
<1>4. LineIn(heap, line[b], w) /\ WithinLine(w, B) /\ LinesSeen[b] = Pixels(w, B)
  BY <1>1, <1>2, WholeLineIsDrawn
<1> QED BY <1>2, <1>3, <1>4

LEMMA BelowIsDrawnOn ==
  ASSUME IInv, NEW out \in Lines, line[out] = NoLine, NEW a \in Lines, NEW b \in Lines, NEW c \in Lines,
         BelowWithOpacity(out, a, b, line[c].opacity), MATCHING(line[a], line[b])
  PROVE  IF P!Opacity(LinesSeen[c]).width # LinesSeen[a].width THEN P!Fails
         ELSE P!MakesOrLeaves(out, P!Over(LinesSeen[a], LinesSeen[b], P!Opacity(LinesSeen[c]).opaque),
                              { P!Incomplete(P!NoOpacity) })
<1>1. PICK p : p = line[c].opacity
  OBVIOUS
<1>2. PICK fails, o :
         /\ o = image_line_below_with_opacity(Begin(fails), line[a], line[b], p)
         /\ Called(o, p = 0 \/ heap[p].size # Width(line[a]))
         /\ line' = [line EXCEPT ![out] = o.line] /\ UNCHANGED image
  BY <1>1 DEF BelowWithOpacity, Writes, Outcomes
<1>3. PICK l, m, w, A, B : /\ l = line[a] /\ m = line[b] /\ w = Width(line[a])
                           /\ A = LineBits(heap, line[a]) /\ B = LineBits(heap, line[b])
  OBVIOUS
<1>4. /\ LineIn(heap, l, w) /\ LineIn(heap, m, w) /\ WithinLine(w, A) /\ WithinLine(w, B)
      /\ LinesSeen[a] = Pixels(w, A) /\ LinesSeen[b] = Pixels(w, B)
      /\ LinesSeen[a].width = w /\ w \in Nat \ {0}
  BY <1>3, MatchingAreDrawn
<1>5. p \in 0 .. MaxVectors /\ (p = 0 \/ heap[p] # NULL) /\ Good(heap)
  BY <1>1, OpacityOfLine DEF IInv, Sound
<1>6. PICK lost : Called(o, lost)
  BY <1>2
<1>7. P!Opacity(LinesSeen[c]) = OpacityIn(heap, p)
  BY <1>1, MaskIsSeen
<1>8. CASE p # 0 /\ heap[p].size = w
  <2>1. p \in Pointers /\ OfSize(heap[p], w)
    BY <1>5, <1>8, PointersAreNotZero DEF Good, OfSize
  <2>2. PICK O : O = Bits(heap[p])
    OBVIOUS
  <2>3. O \subseteq 0 .. w - 1
    BY <2>1, <2>2, BitsAreBelow
  <2>4. P!Opacity(LinesSeen[c]).width = w /\ P!Opacity(LinesSeen[c]).opaque = O
    BY <1>7, <1>8, <2>2 DEF OpacityIn
  <2>5. Running(Begin(fails)) /\ Begin(fails).heap = heap
    BY BeginRuns
  <2>6. PICK C : C = BelowBits(heap, l, m, p, w)
    OBVIOUS
  <2>7. o = image_line_below_with_opacity(Begin(fails), l, m, p)
    BY <1>2, <1>3
  <2>8. /\ Draws(heap, o.r, o.line, w, C)
        /\ o.code = "ERR_NONE" => o.line.msb # 0 /\ o.line.lsb # 0
    BY <1>4, <2>1, <2>5, <2>6, <2>7, BelowDraws
  <2>9. C = OverBits(A, B, O, w)
    <3>1. \A i \in Part : A[i] = Bits(heap[l[i]]) /\ B[i] = Bits(heap[m[i]])
      BY <1>3 DEF LineBits
    <3>2. A["opacity"] = Bits(heap[l.opacity])
      <4>1. l \in ImageLine
        BY <1>4 DEF LineIn
      <4> QED BY <3>1, <4>1, PartsOfLine DEF Part
    <3> QED BY <2>2, <2>6, <3>1, <3>2 DEF BelowBits, OverBits
  <2>10. P!Over(LinesSeen[a], LinesSeen[b], O) = Pixels(w, C)
    <3>1. WithinLine(w, A) /\ WithinLine(w, B)
      BY <1>4
    <3>2. O \subseteq 0 .. w - 1 => P!Over(Pixels(w, A), Pixels(w, B), O) = Pixels(w, C)
      BY <2>9, <3>1, OverIsDrawn
    <3> QED BY <1>4, <2>3, <3>2
  <2>11. Ends(o)
    <3>1. Work(heap, Begin(fails), {}, { w })
      BY <1>5, BeginWorks
    <3>2. PICK T : Makes(heap, Begin(fails), {}, o, T, { w }) /\ Exact({}, o, T)
      BY <1>4, <1>5, <2>1, <2>7, <3>1, BelowMakes
    <3> QED BY <3>2, MakesEnds
  <2>12. PICK left : left = { P!Incomplete(P!NoOpacity) }
    OBVIOUS
  <2>13. NON_NULL(o.line) \/ o.code # "ERR_NONE" \/ Seen(o.r.heap, o.line) \in left
    BY <2>8, <2>12, LeftIsSeen DEF Draws
  <2>14. P!MakesOrLeaves(out, Pixels(w, C), left)
    BY <1>2, <1>6, <2>8, <2>11, <2>13, MadeOrLeft
  <2> QED BY <1>4, <2>4, <2>10, <2>12, <2>14
<1>9. CASE p = 0 \/ heap[p].size # w
  <2>1. Work(heap, Begin(fails), {}, Nat)
    BY <1>5, BeginWorks
  <2>2. PICK T : Makes(heap, Begin(fails), {}, o, T, Nat) /\ o.code = "ERR_MEM"
    <3>1. o = image_line_below_with_opacity(Begin(fails), l, m, p)
      BY <1>2, <1>3
    <3> QED BY <1>4, <1>5, <1>9, <2>1, <3>1, BelowIsRefused
  <2>3. o.line = NoLine /\ Same(heap, o.r.heap)
    BY <1>5, <2>2, WorkIsGood DEF Makes
  <2>4. /\ RowsSeen' = RowsSeen
        /\ \A other \in Lines \ { out } : LinesSeen'[other] = LinesSeen[other]
        /\ LinesSeen'[out] = Seen(o.r.heap, o.line) /\ LinesSeen[out] = P!Empty
    BY <1>2, <1>6, <2>3, OthersStay
  <2>5. LinesSeen' = LinesSeen
    BY <2>3, <2>4, NoLineIsSeen, OneLineWritten
  <2>6. P!Fails
    BY <1>2, <2>2, <2>4, <2>5 DEF Called, P!Fails
  <2>7. P!Opacity(LinesSeen[c]).width # w
    BY <1>4, <1>7, <1>9 DEF OpacityIn
  <2> QED BY <1>4, <2>6, <2>7
<1> QED BY <1>8, <1>9

LEMMA BelowIsDrawn ==
  ASSUME IInv, NEW out \in Lines, line[out] = NoLine, NEW a \in Lines, NEW b \in Lines, NEW c \in Lines,
         BelowWithOpacity(out, a, b, line[c].opacity)
  PROVE  P!Below(out, a, b, c)
<1>1. MATCHING(line[a], line[b]) <=> P!Match(LinesSeen[a], LinesSeen[b])
  BY LinesMatch
<1>2. CASE MATCHING(line[a], line[b])
  <2>1. IF P!Opacity(LinesSeen[c]).width # LinesSeen[a].width THEN P!Fails
        ELSE P!MakesOrLeaves(out, P!Over(LinesSeen[a], LinesSeen[b], P!Opacity(LinesSeen[c]).opaque),
                             { P!Incomplete(P!NoOpacity) })
    BY <1>2, BelowIsDrawnOn
  <2> QED BY <1>1, <1>2, <2>1 DEF P!Below
<1>3. CASE ~MATCHING(line[a], line[b])
  BY <1>1, <1>3, RefusedIsSeen DEF BelowWithOpacity, P!Below
<1> QED BY <1>2, <1>3

LEMMA JoinIsDrawnOn ==
  ASSUME IInv, NEW out \in Lines, line[out] = NoLine, NEW a \in Lines, NEW b \in Lines,
         NEW start \in Starts, JoinLines(out, a, b, start),
         MATCHING(line[a], line[b]) /\ start \in 0 .. Width(line[a]) - 1
  PROVE  P!Makes(out, P!Joined(LinesSeen[a], LinesSeen[b], start))
<1>1. PICK fails, o :
         /\ o = image_line_join(Begin(fails), line[a], line[b], start) /\ Called(o, FALSE)
         /\ line' = [line EXCEPT ![out] = o.line] /\ UNCHANGED image
  BY DEF JoinLines, Writes, Outcomes
<1>2. PICK l, m, w, A, B : /\ l = line[a] /\ m = line[b] /\ w = Width(line[a])
                           /\ A = LineBits(heap, line[a]) /\ B = LineBits(heap, line[b])
  OBVIOUS
<1>3. /\ LineIn(heap, l, w) /\ LineIn(heap, m, w) /\ WithinLine(w, A) /\ WithinLine(w, B)
      /\ LinesSeen[a] = Pixels(w, A) /\ LinesSeen[b] = Pixels(w, B) /\ w \in Nat \ {0}
  BY <1>2, MatchingAreDrawn
<1>4. Running(Begin(fails)) /\ Begin(fails).heap = heap
  BY BeginRuns
<1>5. PICK C : C = [i \in Part |-> JoinedBits(A[i], B[i], start)]
  OBVIOUS
<1>6. start \in 0 .. w - 1 /\ start \in Int
  BY <1>2, SizesAssumption
<1>7. o = image_line_join(Begin(fails), l, m, start)
  BY <1>1, <1>2
<1>8. Draws(heap, o.r, o.line, w, C)
  <2>1. DrawsWhole(heap, o, w, [i \in Part |-> JoinedBits(Bits(heap[l[i]]), Bits(heap[m[i]]), start)])
    BY <1>3, <1>4, <1>6, <1>7, JoinDraws
  <2>2. C = [i \in Part |-> JoinedBits(Bits(heap[l[i]]), Bits(heap[m[i]]), start)]
    BY <1>2, <1>5 DEF LineBits
  <2> QED BY <2>1, <2>2 DEF DrawsWhole
<1>9. Ends(o)
  <2>1. Good(heap)
    BY DEF IInv, Sound
  <2>2. Work(heap, Begin(fails), {}, { w })
    BY <2>1, BeginWorks
  <2> QED BY <1>3, <1>6, <1>7, <2>1, <2>2, JoinMakes, MakesEnds
<1>10. PICK q : o = valid(q)
  BY <1>7 DEF image_line_join, do_image_line
<1>11. P!Joined(LinesSeen[a], LinesSeen[b], start) = Pixels(w, C)
  BY <1>3, <1>5, <1>6, JoinIsDrawn
<1> QED BY <1>1, <1>8, <1>9, <1>10, <1>11, MadeIsDrawn

(* A line or a row with no vector of its own among those that change         *)
SameBut(H, h, Q) == \A p \in Pointers : p \notin Q => h[p] = H[p]

LEMMA BesideStays ==
  ASSUME NEW H, NEW h, NEW Q, SameBut(H, h, Q), NEW m, Owned(H, m), PartsOf(m) \cap Q \subseteq { 0 }
  PROVE  Seen(h, m) = Seen(H, m)
<1>1. m \in ImageLine
  BY DEF Owned
<1>2. \A i \in Part : m[i] # 0 => m[i] \in Pointers /\ m[i] \notin Q
  BY <1>1, PartsOfLine, PointersAreNotZero DEF Part
<1>3. \A i \in Part : m[i] # 0 => h[m[i]] = H[m[i]]
  BY <1>2 DEF SameBut
<1> QED BY <1>1, <1>3, SeenStays

LEMMA BesideALine ==
  ASSUME IInv, NEW out \in Lines, NEW h, SameBut(heap, h, PartsOf(line[out]))
  PROVE  /\ \A other \in Lines \ { out } : Seen(h, line[other]) = Seen(heap, line[other])
         /\ \A y \in DOMAIN image.content : Seen(h, image.content[y]) = Seen(heap, image.content[y])
<1>1. Owners(heap, line, image.content)
  BY DEF IInv, Sound
<1>2. line[out] \in ImageLine
  BY <1>1 DEF Owners, Owned
<1>3. ASSUME NEW other \in Lines \ { out }
      PROVE  Seen(h, line[other]) = Seen(heap, line[other])
  <2>1. Owned(heap, line[other]) /\ line[other] \in ImageLine /\ Disjoint(line[other], line[out])
    BY <1>1 DEF Owners, Owned
  <2>2. PartsOf(line[other]) \cap PartsOf(line[out]) \subseteq { 0 }
    BY <1>2, <2>1, DisjointParts
  <2>3. PICK m, Q : m = line[other] /\ Q = PartsOf(line[out])
    OBVIOUS
  <2>4. SameBut(heap, h, Q)
    BY <2>3
  <2>5. Owned(heap, m) /\ PartsOf(m) \cap Q \subseteq { 0 }
    BY <2>1, <2>2, <2>3
  <2>6. Seen(h, m) = Seen(heap, m)
    BY <2>4, <2>5, BesideStays
  <2> QED BY <2>3, <2>6
<1>4. ASSUME NEW y \in DOMAIN image.content
      PROVE  Seen(h, image.content[y]) = Seen(heap, image.content[y])
  <2>1. Owned(heap, image.content[y]) /\ image.content[y] \in ImageLine
        /\ Disjoint(line[out], image.content[y])
    BY <1>1 DEF Owners, Owned
  <2>2. PartsOf(image.content[y]) \cap PartsOf(line[out]) \subseteq { 0 }
    BY <1>2, <2>1, DisjointParts
  <2>3. PICK m, Q : m = image.content[y] /\ Q = PartsOf(line[out])
    OBVIOUS
  <2>4. SameBut(heap, h, Q)
    BY <2>3
  <2>5. Owned(heap, m) /\ PartsOf(m) \cap Q \subseteq { 0 }
    BY <2>1, <2>2, <2>3
  <2>6. Seen(h, m) = Seen(heap, m)
    BY <2>4, <2>5, BesideStays
  <2> QED BY <2>3, <2>6
<1> QED BY <1>3, <1>4

LEMMA BesideARow ==
  ASSUME IInv, NEW y \in DOMAIN image.content,
         NEW h, SameBut(heap, h, PartsOf(image.content[y]))
  PROVE  /\ \A l \in Lines : Seen(h, line[l]) = Seen(heap, line[l])
         /\ \A z \in DOMAIN image.content : z # y => Seen(h, image.content[z]) = Seen(heap, image.content[z])
<1>1. Owners(heap, line, image.content)
  BY DEF IInv, Sound
<1>2. image.content[y] \in ImageLine
  BY <1>1 DEF Owners, Owned
<1>3. ASSUME NEW l \in Lines
      PROVE  Seen(h, line[l]) = Seen(heap, line[l])
  <2>1. Owned(heap, line[l]) /\ line[l] \in ImageLine /\ Disjoint(line[l], image.content[y])
    BY <1>1 DEF Owners, Owned
  <2>2. PartsOf(line[l]) \cap PartsOf(image.content[y]) \subseteq { 0 }
    BY <1>2, <2>1, DisjointParts
  <2>3. PICK m, Q : m = line[l] /\ Q = PartsOf(image.content[y])
    OBVIOUS
  <2>4. SameBut(heap, h, Q)
    BY <2>3
  <2>5. Owned(heap, m) /\ PartsOf(m) \cap Q \subseteq { 0 }
    BY <2>1, <2>2, <2>3
  <2>6. Seen(h, m) = Seen(heap, m)
    BY <2>4, <2>5, BesideStays
  <2> QED BY <2>3, <2>6
<1>4. ASSUME NEW z \in DOMAIN image.content, z # y
      PROVE  Seen(h, image.content[z]) = Seen(heap, image.content[z])
  <2>1. Owned(heap, image.content[z]) /\ image.content[z] \in ImageLine
        /\ Disjoint(image.content[z], image.content[y])
    BY <1>1, <1>4 DEF Owners, Owned
  <2>2. PartsOf(image.content[z]) \cap PartsOf(image.content[y]) \subseteq { 0 }
    BY <1>2, <2>1, DisjointParts
  <2>3. PICK m, Q : m = image.content[z] /\ Q = PartsOf(image.content[y])
    OBVIOUS
  <2>4. SameBut(heap, h, Q)
    BY <2>3
  <2>5. Owned(heap, m) /\ PartsOf(m) \cap Q \subseteq { 0 }
    BY <2>1, <2>2, <2>3
  <2>6. Seen(h, m) = Seen(heap, m)
    BY <2>4, <2>5, BesideStays
  <2> QED BY <2>3, <2>6
<1> QED BY <1>3, <1>4

LEMMA WordFits ==
  ASSUME NEW w \in Nat \ {0}, NEW index \in 0 .. 2
  PROVE  index < forced_size(w) <=> 32 * index < w
BY SMT DEF forced_size, CHUNK_SIZE

LEMMA WordIsDrawnOn ==
  ASSUME IInv, NEW out \in Lines, NEW index \in 0 .. 2, NEW msb \in Words, NEW lsb \in Words,
         image_line_set_word(out, index, msb, lsb), NON_NULL(line[out]), index < forced_size(Width(line[out]))
  PROVE  P!Draws(out, P!WithWord(LinesSeen[out], index, msb, lsb))
<1>1. PICK l, w, B : l = line[out] /\ w = Width(line[out]) /\ B = LineBits(heap, line[out])
  OBVIOUS
<1>2. Shows(heap, l, w, B) /\ LinesSeen[out] = Pixels(w, B) /\ w \in Nat \ {0}
  BY <1>1, WholeLineIsDrawn
<1>3. Good(heap) /\ Owned(heap, l)
  BY <1>1 DEF IInv, Sound, Owners
<1>4. index \in Chunks(w)
  <2>1. forced_size(w) \in Nat
    BY <1>2, 0 \in 0 .. w - 1, BitHasChunk
  <2> QED BY <1>1, <2>1 DEF Chunks
<1>5. msb \in SUBSET Places /\ lsb \in SUBSET Places
  BY SizesAssumption
<1>6. PICK h : h = Worded(heap, l, index, msb, lsb)
  OBVIOUS
<1>7. heap' = h /\ line' = line /\ image' = image /\ result' = "ERR_NONE"
  <2>1. [Begin({}) EXCEPT !.heap = Worded(@, l, index, msb, lsb)].heap = h
    BY <1>6 DEF Begin
  <2> QED BY <1>1, <2>1 DEF image_line_set_word, Called
<1>8. PICK C : C = WordedBits(B, w, index, msb, lsb)
  OBVIOUS
<1>9. Shows(h, l, w, C) /\ SameBut(heap, h, PartsOf(l))
  <2>1. Shows(h, l, w, C) /\ \A p \in Pointers : p \notin PartsOf(l) => h[p] = heap[p]
    BY <1>2, <1>3, <1>4, <1>5, <1>6, <1>8, WordShows
  <2> QED BY <2>1 DEF SameBut
<1>10. /\ \A other \in Lines \ { out } : Seen(h, line[other]) = Seen(heap, line[other])
       /\ \A y \in DOMAIN image.content : Seen(h, image.content[y]) = Seen(heap, image.content[y])
  BY <1>1, <1>9, BesideALine
<1>11. RowsSeen' = RowsSeen /\ \A other \in Lines \ { out } : LinesSeen'[other] = LinesSeen[other]
  BY <1>7, <1>10, WhatIsSeen
<1>12. LinesSeen'[out] = Pixels(w, C)
  <2>1. Seen(h, l) = Pixels(w, C)
    BY <1>9, ShownIsSeen
  <2> QED BY <1>1, <1>7, <2>1, WhatIsSeen
<1>13. P!WithWord(LinesSeen[out], index, msb, lsb) = Pixels(w, C)
  BY <1>2, <1>8, WordIsDrawn
<1>14. LinesSeen' = [LinesSeen EXCEPT ![out] = Pixels(w, C)]
  BY <1>11, <1>12, OneLineWritten
<1> QED BY <1>7, <1>11, <1>13, <1>14 DEF P!Draws

LEMMA FreeIsDrawn ==
  ASSUME IInv, NEW out \in Lines, FreeLine(out)
  PROVE  P!Draws(out, P!Empty)
<1>1. PICK r : r = image_line_free(Begin({}), line[out])
  OBVIOUS
<1>2. heap' = r.heap /\ line' = [line EXCEPT ![out] = NoLine] /\ image' = image /\ result' = "ERR_NONE"
  <2>1. PICK o \in { Done(r, NoLine, "ERR_NONE") } :
          Called(o, FALSE) /\ line' = [line EXCEPT ![out] = o.line] /\ image' = image
    BY <1>1 DEF FreeLine, Writes
  <2>2. o.r = r /\ o.line = NoLine /\ o.code = "ERR_NONE"
    BY <2>1 DEF Done
  <2> QED BY <2>1, <2>2 DEF Called
<1>3. PICK h : h = Without(heap, PartsOf(line[out]))
  OBVIOUS
<1>4. heap' = h
  BY <1>1, <1>2, <1>3, FreedHeap DEF image_line_free, Begin
<1>5. SameBut(heap, h, PartsOf(line[out]))
  BY <1>3 DEF Without, SameBut
<1>6. /\ \A other \in Lines \ { out } : Seen(h, line[other]) = Seen(heap, line[other])
      /\ \A y \in DOMAIN image.content : Seen(h, image.content[y]) = Seen(heap, image.content[y])
  BY <1>5, BesideALine
<1>7. line = [l \in Lines |-> line[l]]
  BY DEF IInv, Sound
<1>8. line'[out] = NoLine /\ \A other \in Lines \ { out } : line'[other] = line[other]
  BY <1>2, <1>7
<1>9. RowsSeen' = RowsSeen /\ \A other \in Lines \ { out } : LinesSeen'[other] = LinesSeen[other]
  BY <1>2, <1>4, <1>6, <1>8, WhatIsSeen
<1>10. LinesSeen'[out] = P!Empty
  BY <1>8, NoLineIsSeen, WhatIsSeen
<1>11. LinesSeen' = [LinesSeen EXCEPT ![out] = P!Empty]
  BY <1>9, <1>10, OneLineWritten
<1> QED BY <1>2, <1>9, <1>11 DEF P!Draws

LEMMA NoRows ==
  /\ image = NoImage => RowsSeen = [y \in {} |-> P!Empty]
  /\ image' = NoImage => RowsSeen' = [y \in {} |-> P!Empty]
<1>1. DOMAIN NoImage.content = {}
  BY DEF NoImage
<1> QED BY <1>1 DEF RowsSeen

LEMMA PictureFreed ==
  ASSUME IInv, FreeImage
  PROVE  P!Shows([y \in {} |-> P!Empty]) /\ LinesSeen' = LinesSeen
<1>1. PICK r : r = bit_vector_free(Begin({}), PartsOfImage(image.content))
  OBVIOUS
<1>2. heap' = r.heap /\ image' = NoImage /\ line' = line /\ result' = "ERR_NONE"
  <2>1. image_free(Begin({}), image).r = r /\ image_free(Begin({}), image).image = NoImage
    BY <1>1 DEF image_free
  <2>2. SetImage([r |-> r, code |-> "ERR_NONE"], NoImage)
    BY <2>1 DEF FreeImage
  <2> QED BY <2>2 DEF SetImage, Called
<1>3. PICK h, Q : Q = PartsOfImage(image.content) /\ h = Without(heap, Q)
  OBVIOUS
<1>4. heap' = h
  BY <1>1, <1>2, <1>3, FreedHeap DEF Begin
<1>5. SameBut(heap, h, Q)
  BY <1>3 DEF Without, SameBut
<1>6. ASSUME NEW l \in Lines
      PROVE  Seen(h, line[l]) = Seen(heap, line[l])
  <2>1. Owners(heap, line, image.content)
    BY DEF IInv, Sound
  <2>2. Owned(heap, line[l]) /\ line[l] \in ImageLine
    BY <2>1 DEF Owners, Owned
  <2>3. ASSUME NEW y \in DOMAIN image.content
        PROVE  PartsOf(line[l]) \cap PartsOf(image.content[y]) \subseteq { 0 }
    <3>1. image.content[y] \in ImageLine /\ Disjoint(line[l], image.content[y])
      BY <2>1 DEF Owners, Owned
    <3> QED BY <2>2, <3>1, DisjointParts
  <2>4. PartsOf(line[l]) \cap Q \subseteq { 0 }
    BY <1>3, <2>3 DEF PartsOfImage
  <2> QED BY <1>5, <2>2, <2>4, BesideStays
<1>7. LinesSeen' = LinesSeen
  BY <1>2, <1>4, <1>6, WhatIsSeen
<1>8. RowsSeen' = [y \in {} |-> P!Empty]
  BY <1>2, NoRows
<1> QED BY <1>2, <1>7, <1>8 DEF P!Shows

LEMMA PictureMade ==
  ASSUME IInv, NEW width \in Widths, NEW height \in Heights, CreateImage(width, height), image = NoImage
  PROVE  \/ P!Shows([y \in 0 .. height - 1 |-> P!BlankLine(width)]) /\ LinesSeen' = LinesSeen
         \/ P!FailsForMemory
<1>1. PICK fails, o :
         o = image_create(Begin(fails), width, height) /\ SetImage(o, o.image)
  BY DEF CreateImage
<1>2. width \in Nat \ {0} /\ height \in Nat /\ Good(heap)
  BY SizesAssumption DEF IInv, Sound
<1>3. Running(Begin(fails)) /\ Begin(fails).heap = heap
  BY BeginRuns
<1>4. heap' = o.r.heap /\ image' = o.image /\ line' = line /\ result' = o.code /\ short' = o.r.failed
  BY <1>1 DEF SetImage, Called
<1>5. /\ Same(heap, o.r.heap)
      /\ o.code # "ERR_NONE" => o.code = "ERR_MEM" /\ o.image = NoImage /\ o.r.failed
  <2>1. Work(heap, Begin(fails), {}, {})
    BY <1>2, BeginWorks
  <2>2. PICK T : ImageMade(heap, o, T, width)
    BY <1>1, <1>2, <2>1, CreateImageMakes
  <2> QED BY <2>2, ImageIsMade DEF IInv, ImageMade
<1>6. LinesSeen' = LinesSeen
  <2>1. \A l \in Lines : Owned(heap, line[l])
    BY DEF IInv, Sound, Owners
  <2>2. \A l \in Lines : Seen(o.r.heap, line[l]) = Seen(heap, line[l])
    BY <1>5, <2>1, UsedIsSeen
  <2> QED BY <1>4, <2>2, WhatIsSeen
<1>7. \/ o.image = NoImage /\ o.code # "ERR_NONE"
      \/ /\ o.code = "ERR_NONE"
         /\ o.image.content = [y \in 0 .. height - 1 |-> o.image.content[y]]
         /\ \A y \in 0 .. height - 1 : Shows(o.r.heap, o.image.content[y], width, NoBits)
  BY <1>1, <1>2, <1>3, CreateImageDraws
<1>8. CASE o.code # "ERR_NONE"
  <2>1. o.code = "ERR_MEM" /\ o.image = NoImage /\ o.r.failed
    BY <1>5, <1>8
  <2>2. RowsSeen' = RowsSeen
    BY <1>4, <2>1, NoRows
  <2>3. short'
    BY <1>4, <2>1, Zenon
  <2> QED BY <1>4, <1>6, <2>1, <2>2, <2>3 DEF P!FailsForMemory, P!Fails
<1>9. CASE /\ o.code = "ERR_NONE"
           /\ o.image.content = [y \in 0 .. height - 1 |-> o.image.content[y]]
           /\ \A y \in 0 .. height - 1 : Shows(o.r.heap, o.image.content[y], width, NoBits)
  <2>1. DOMAIN image'.content = 0 .. height - 1
    BY <1>4, <1>9
  <2>2. ASSUME NEW y \in 0 .. height - 1
        PROVE  Seen(o.r.heap, o.image.content[y]) = P!BlankLine(width)
    <3>1. Shows(o.r.heap, o.image.content[y], width, NoBits)
      BY <1>9
    <3> QED BY <3>1, ShownIsSeen, BlankIsDrawn
  <2>3. RowsSeen' = [y \in 0 .. height - 1 |-> P!BlankLine(width)]
    BY <1>4, <2>1, <2>2, WhatIsSeen
  <2> QED BY <1>4, <1>6, <1>9, <2>3 DEF P!Shows
<1> QED BY <1>7, <1>8, <1>9

LEMMA RowIsWhole ==
  ASSUME IInv, NEW y \in DOMAIN image.content, NEW a \in Lines, MATCHING(image.content[y], line[a])
  PROVE  LET w == Width(line[a])
             B == LineBits(heap, line[a])
         IN  /\ LinesSeen[a] = Pixels(w, B) /\ Shows(heap, line[a], w, B)
             /\ Shows(heap, image.content[y], w, LineBits(heap, image.content[y]))
<1>1. PICK l, w, B : l = image.content[y] /\ w = Width(line[a]) /\ B = LineBits(heap, line[a])
  OBVIOUS
<1>2. NON_NULL(l) /\ NON_NULL(line[a]) /\ Width(l) = w
  BY <1>1 DEF MATCHING, Width
<1>3. Good(heap) /\ Owned(heap, l)
  BY <1>1 DEF IInv, Sound, Owners
<1>4. Shows(heap, l, w, LineBits(heap, l))
  BY <1>2, <1>3, WholeIsSeen
<1>5. LinesSeen[a] = Pixels(w, B) /\ Shows(heap, line[a], w, B)
  BY <1>1, <1>2, WholeLineIsDrawn
<1> QED BY <1>1, <1>4, <1>5

LEMMA LineIsSet ==
  ASSUME IInv, NEW y \in 0 .. image.height, NEW a \in Lines, image_set_line(y, a),
         y < image.height, MATCHING(image.content[y], line[a])
  PROVE  P!Shows([RowsSeen EXCEPT ![y] = LinesSeen[a]]) /\ LinesSeen' = LinesSeen
<1>1. y \in DOMAIN image.content
  BY DEF IInv, Sound, IsImage
<1>2. PICK l, m, w, B : l = image.content[y] /\ m = line[a] /\ w = Width(line[a]) /\ B = LineBits(heap, line[a])
  OBVIOUS
<1>3. LinesSeen[a] = Pixels(w, B) /\ Shows(heap, m, w, B) /\ Shows(heap, l, w, LineBits(heap, l))
  BY <1>1, <1>2, RowIsWhole
<1>4. PICK h : h = CopiedOver(heap, l, m)
  OBVIOUS
<1>5. heap' = h /\ line' = line /\ image' = image /\ result' = "ERR_NONE"
  <2>1. [Begin({}) EXCEPT !.heap = CopiedOver(@, l, m)].heap = h
    BY <1>4 DEF Begin
  <2> QED BY <1>2, <2>1 DEF image_set_line, SetImage, Called
<1>6. Good(heap) /\ Owned(heap, l)
  BY <1>1, <1>2 DEF IInv, Sound, Owners
<1>7. Shows(h, l, w, B) /\ SameBut(heap, h, PartsOf(l))
  <2>1. Shows(h, l, w, B) /\ \A p \in Pointers : p \notin PartsOf(l) => h[p] = heap[p]
    BY <1>3, <1>4, <1>6, CopyShows
  <2> QED BY <2>1 DEF SameBut
<1>8. /\ \A k \in Lines : Seen(h, line[k]) = Seen(heap, line[k])
      /\ \A z \in DOMAIN image.content : z # y => Seen(h, image.content[z]) = Seen(heap, image.content[z])
  BY <1>1, <1>2, <1>7, BesideARow
<1>9. LinesSeen' = LinesSeen
  BY <1>5, <1>8, WhatIsSeen
<1>10. Seen(h, l) = LinesSeen[a]
  BY <1>3, <1>7, ShownIsSeen
<1>11. RowsSeen' = [RowsSeen EXCEPT ![y] = LinesSeen[a]]
  BY <1>1, <1>2, <1>5, <1>8, <1>10, WhatIsSeen
<1> QED BY <1>5, <1>9, <1>11 DEF P!Shows

LEMMA LineIsOwned ==
  ASSUME IInv, NEW y \in 0 .. image.height, NEW a \in Lines, image_own_line_content(y, a),
         y < image.height, MATCHING(image.content[y], line[a])
  PROVE  /\ P!Shows([RowsSeen EXCEPT ![y] = LinesSeen[a]])
         /\ LinesSeen' = [LinesSeen EXCEPT ![a] = P!Empty]
<1>1. y \in DOMAIN image.content
  BY DEF IInv, Sound, IsImage
<1>2. PICK r : r = bit_vector_free(Begin({}), PartsOf(image.content[y]))
  OBVIOUS
<1>3. PICK h : h = Without(heap, PartsOf(image.content[y]))
  OBVIOUS
<1>4. r.heap = h
  BY <1>2, <1>3, FreedHeap DEF Begin
<1>5. /\ heap' = h /\ image' = [image EXCEPT !.content[y] = line[a]]
      /\ line' = [line EXCEPT ![a] = NoLine] /\ result' = "ERR_NONE"
  BY <1>2, <1>4 DEF image_own_line_content, MakesRoom, image_line_free, Called
<1>6. SameBut(heap, h, PartsOf(image.content[y]))
  BY <1>3 DEF Without, SameBut
<1>7. /\ \A k \in Lines : Seen(h, line[k]) = Seen(heap, line[k])
      /\ \A z \in DOMAIN image.content : z # y => Seen(h, image.content[z]) = Seen(heap, image.content[z])
  BY <1>1, <1>6, BesideARow
<1>8. line = [l \in Lines |-> line[l]] /\ image = [height |-> image.height, content |-> image.content]
      /\ image.content = [z \in DOMAIN image.content |-> image.content[z]]
  BY DEF IInv, Sound, IsImage
<1>9. LinesSeen' = [LinesSeen EXCEPT ![a] = P!Empty]
  <2>1. line'[a] = NoLine /\ \A k \in Lines : k # a => line'[k] = line[k]
    BY <1>5, <1>8
  <2>2. LinesSeen'[a] = P!Empty
    BY <2>1, NoLineIsSeen, WhatIsSeen
  <2>3. \A k \in Lines \ { a } : LinesSeen'[k] = LinesSeen[k]
    BY <1>5, <1>7, <2>1, WhatIsSeen
  <2> QED BY <2>2, <2>3, OneLineWritten
<1>10. RowsSeen' = [RowsSeen EXCEPT ![y] = LinesSeen[a]]
  <2>1. image'.content = [image.content EXCEPT ![y] = line[a]]
    BY <1>5, <1>8
  <2>2. /\ DOMAIN image'.content = DOMAIN image.content
        /\ image'.content[y] = line[a]
        /\ \A z \in DOMAIN image.content : z # y => image'.content[z] = image.content[z]
    BY <1>1, <1>8, <2>1
  <2>3. Seen(h, line[a]) = LinesSeen[a]
    BY <1>7, WhatIsSeen
  <2>4. PICK C : C = image'.content
    OBVIOUS
  <2>5. RowsSeen' = [z \in DOMAIN C |-> Seen(h, C[z])]
    BY <1>5, <2>4, WhatIsSeen
  <2>6. RowsSeen = [z \in DOMAIN image.content |-> Seen(heap, image.content[z])]
    BY WhatIsSeen
  <2> QED BY <1>1, <1>7, <2>2, <2>3, <2>4, <2>5, <2>6
<1> QED BY <1>5, <1>9, <1>10 DEF P!Shows

-----------------------------------------------------------------------------
(* A call of Image is the call of Picture with its arguments                 *)
LEMMA CallsOnALine ==
  ASSUME IInv, Proper, InRange, NEW out \in Lines, line[out] = NoLine, NEW a \in Lines
  PROVE  /\ \A by \in Shifts :
              ShiftLine(out, a, by) /\ call' = << "image_line_shift", out, a, by >>
                => P!image_line_shift(out, a, by)
         /\ \A index \in Indexes, width \in Widths :
              /\ ExtractLine(out, a, index, width)
              /\ call' = << "image_line_extract_wrap_ext", out, a, index, width >>
            => P!image_line_extract_wrap_ext(out, a, index, width)
         /\ \A map \in Palettes :
              MapColors(out, a, map) /\ call' = << "image_line_map_colors", out, a, map >>
                => P!image_line_map_colors(out, a, map)
<1>1. P!IsDrawn(LinesSeen[a]) <=> NON_NULL(line[a])
  BY WholeIsDrawn
<1>2. ASSUME NEW by \in Shifts, ShiftLine(out, a, by), call' = << "image_line_shift", out, a, by >>
      PROVE  P!image_line_shift(out, a, by)
  <2>1. CASE NON_NULL(line[a])
    <3>1. P!Makes(out, P!Shifted(LinesSeen[a], by))
      BY <1>2, <2>1, ShiftIsDrawnOn
    <3> QED BY <1>1, <1>2, <2>1, <3>1 DEF P!image_line_shift
  <2>2. CASE ~NON_NULL(line[a])
    <3>1. P!Refuses
      BY <1>2, <2>2, RefusedIsSeen DEF ShiftLine
    <3> QED BY <1>1, <1>2, <2>2, <3>1 DEF P!image_line_shift
  <2> QED BY <2>1, <2>2
<1>3. ASSUME NEW index \in Indexes, NEW width \in Widths, ExtractLine(out, a, index, width),
             call' = << "image_line_extract_wrap_ext", out, a, index, width >>
      PROVE  P!image_line_extract_wrap_ext(out, a, index, width)
  <2>1. CASE NON_NULL(line[a])
    <3>1. P!Makes(out, P!Extracted(LinesSeen[a], index, width))
      BY <1>3, <2>1, ExtractIsDrawnOn
    <3> QED BY <1>1, <1>3, <2>1, <3>1 DEF P!image_line_extract_wrap_ext
  <2>2. CASE ~NON_NULL(line[a])
    <3>1. P!Refuses
      BY <1>3, <2>2, RefusedIsSeen DEF ExtractLine
    <3> QED BY <1>1, <1>3, <2>2, <3>1 DEF P!image_line_extract_wrap_ext
  <2> QED BY <2>1, <2>2
<1>4. ASSUME NEW map \in Palettes, MapColors(out, a, map), call' = << "image_line_map_colors", out, a, map >>
      PROVE  P!image_line_map_colors(out, a, map)
  <2>1. CASE NON_NULL(line[a])
    <3>1. PICK made : made = P!Recoloured(LinesSeen[a], map)
      OBVIOUS
    <3>2. P!MakesOrLeaves(out, made, { P!Empty, P!Incomplete(P!NoOpacity), P!Incomplete(P!Opacity(made)) })
      BY <1>4, <2>1, <3>1, MapIsDrawnOn
    <3> QED BY <1>1, <1>4, <2>1, <3>1, <3>2 DEF P!image_line_map_colors
  <2>2. CASE ~NON_NULL(line[a])
    <3>1. P!Refuses
      BY <1>4, <2>2, RefusedIsSeen DEF MapColors
    <3> QED BY <1>1, <1>4, <2>2, <3>1 DEF P!image_line_map_colors
  <2> QED BY <2>1, <2>2
<1> QED BY <1>2, <1>3, <1>4

LEMMA CallsOnTwoLines ==
  ASSUME IInv, NEW out \in Lines, line[out] = NoLine, NEW a \in Lines, NEW b \in Lines
  PROVE  /\ image_line_below(out, a, b) /\ call' = << "image_line_below", out, a, b >>
              => P!image_line_below(out, a, b)
         /\ \A c \in Lines :
              /\ BelowWithOpacity(out, a, b, line[c].opacity)
              /\ call' = << "image_line_below_with_opacity", out, a, b, c >>
            => P!image_line_below_with_opacity(out, a, b, c)
         /\ \A start \in Starts :
              JoinLines(out, a, b, start) /\ call' = << "image_line_join", out, a, b, start >>
                => P!image_line_join(out, a, b, start)
<1>1. P!Match(LinesSeen[a], LinesSeen[b]) <=> MATCHING(line[a], line[b])
  BY LinesMatch
<1>2. ASSUME image_line_below(out, a, b), call' = << "image_line_below", out, a, b >>
      PROVE  P!image_line_below(out, a, b)
  <2>1. CASE MATCHING(line[a], line[b])
    <3>1. BelowWithOpacity(out, a, b, line[b].opacity)
      BY <1>2, <2>1 DEF image_line_below
    <3>2. P!Below(out, a, b, b)
      BY <3>1, BelowIsDrawn
    <3> QED BY <1>2, <3>2 DEF P!image_line_below
  <2>2. CASE ~MATCHING(line[a], line[b])
    <3>1. P!Refuses
      BY <1>2, <2>2, RefusedIsSeen DEF image_line_below
    <3>2. P!Below(out, a, b, b)
      BY <1>1, <2>2, <3>1 DEF P!Below
    <3> QED BY <1>2, <3>2 DEF P!image_line_below
  <2> QED BY <2>1, <2>2
<1>3. ASSUME NEW c \in Lines, BelowWithOpacity(out, a, b, line[c].opacity),
             call' = << "image_line_below_with_opacity", out, a, b, c >>
      PROVE  P!image_line_below_with_opacity(out, a, b, c)
  <2>1. P!Below(out, a, b, c)
    BY <1>3, BelowIsDrawn
  <2> QED BY <1>3, <2>1 DEF P!image_line_below_with_opacity
<1>4. ASSUME NEW start \in Starts, JoinLines(out, a, b, start), call' = << "image_line_join", out, a, b, start >>
      PROVE  P!image_line_join(out, a, b, start)
  <2>1. P!Match(LinesSeen[a], LinesSeen[b]) => LinesSeen[a].width = Width(line[a])
    BY <1>1, MatchingAreDrawn
  <2>2. CASE MATCHING(line[a], line[b]) /\ start \in 0 .. Width(line[a]) - 1
    <3>1. P!Makes(out, P!Joined(LinesSeen[a], LinesSeen[b], start))
      BY <1>4, <2>2, JoinIsDrawnOn
    <3> QED BY <1>1, <1>4, <2>1, <2>2, <3>1 DEF P!image_line_join
  <2>3. CASE ~(MATCHING(line[a], line[b]) /\ start \in 0 .. Width(line[a]) - 1)
    <3>1. P!Refuses
      BY <1>4, <2>3, RefusedIsSeen DEF JoinLines
    <3> QED BY <1>1, <1>4, <2>1, <2>3, <3>1 DEF P!image_line_join
  <2> QED BY <2>2, <2>3
<1> QED BY <1>2, <1>3, <1>4

LEMMA CallsOnItself ==
  ASSUME IInv, NEW out \in Lines
  PROVE  /\ FreeLine(out) /\ call' = << "image_line_free", out >> => P!image_line_free(out)
         /\ \A width \in Widths :
              line[out] = NoLine /\ CreateLine(out, width) /\ call' = << "image_line_create", out, width >>
                => P!image_line_create(out, width)
         /\ \A index \in 0 .. 2, msb \in Words, lsb \in Words :
              /\ image_line_set_word(out, index, msb, lsb)
              /\ call' = << "image_line_set_word", out, index, msb, lsb >>
            => P!image_line_set_word(out, index, msb, lsb)
<1>1. FreeLine(out) /\ call' = << "image_line_free", out >> => P!image_line_free(out)
  BY FreeIsDrawn DEF P!image_line_free
<1>2. ASSUME NEW width \in Widths, line[out] = NoLine, CreateLine(out, width),
             call' = << "image_line_create", out, width >>
      PROVE  P!image_line_create(out, width)
  <2>1. P!Makes(out, P!BlankLine(width))
    BY <1>2, CreateIsDrawn
  <2> QED BY <1>2, <2>1 DEF P!image_line_create
<1>3. ASSUME NEW index \in 0 .. 2, NEW msb \in Words, NEW lsb \in Words,
             image_line_set_word(out, index, msb, lsb),
             call' = << "image_line_set_word", out, index, msb, lsb >>
      PROVE  P!image_line_set_word(out, index, msb, lsb)
  <2>1. P!IsDrawn(LinesSeen[out]) <=> NON_NULL(line[out])
    BY WholeIsDrawn
  <2>2. NON_NULL(line[out]) =>
          (index < forced_size(Width(line[out])) <=> 32 * index < LinesSeen[out].width)
    <3>1. NON_NULL(line[out]) => LinesSeen[out].width = Width(line[out]) /\ Width(line[out]) \in Nat \ {0}
      BY WholeLineIsDrawn
    <3> QED BY <3>1, WordFits
  <2>3. CASE NON_NULL(line[out]) /\ index < forced_size(Width(line[out]))
    <3>1. P!Draws(out, P!WithWord(LinesSeen[out], index, msb, lsb))
      BY <1>3, <2>3, WordIsDrawnOn
    <3>2. P!IsDrawn(LinesSeen[out]) /\ 32 * index < LinesSeen[out].width
      BY <2>1, <2>2, <2>3
    <3> QED BY <1>3, <3>1, <3>2 DEF P!image_line_set_word
  <2>4. CASE ~(NON_NULL(line[out]) /\ index < forced_size(Width(line[out])))
    <3>1. P!Refuses
      BY <1>3, <2>4, RefusedIsSeen DEF image_line_set_word
    <3>2. ~(P!IsDrawn(LinesSeen[out]) /\ 32 * index < LinesSeen[out].width)
      BY <2>1, <2>2, <2>4
    <3> QED BY <1>3, <3>1, <3>2 DEF P!image_line_set_word
  <2> QED BY <2>3, <2>4
<1> QED BY <1>1, <1>2, <1>3

LEMMA DrawsALine ==
  ASSUME NEW out \in Lines
  PROVE  /\ P!image_line_free(out) => P!DrawLine
         /\ \A width \in Widths : P!image_line_create(out, width) => P!DrawLine
         /\ \A index \in 0 .. 2, msb \in Words, lsb \in Words :
              P!image_line_set_word(out, index, msb, lsb) => P!DrawLine
         /\ \A a \in Lines :
              /\ \A by \in Shifts : P!image_line_shift(out, a, by) => P!DrawLine
              /\ \A index \in Indexes, width \in Widths :
                   P!image_line_extract_wrap_ext(out, a, index, width) => P!DrawLine
              /\ \A map \in Palettes : P!image_line_map_colors(out, a, map) => P!DrawLine
              /\ \A b \in Lines :
                   /\ P!image_line_below(out, a, b) => P!DrawLine
                   /\ \A c \in Lines : P!image_line_below_with_opacity(out, a, b, c) => P!DrawLine
                   /\ \A start \in Starts : P!image_line_join(out, a, b, start) => P!DrawLine
BY Zenon DEF P!DrawLine

LEMMA LineCallIsDrawn ==
  ASSUME IInv, Proper, InRange, NEW out \in Lines, LineCall(out)
  PROVE  P!DrawLine
<1>1. FreeLine(out) /\ call' = << "image_line_free", out >> => P!DrawLine
  BY CallsOnItself, DrawsALine
<1>2. \A width \in Widths :
        line[out] = NoLine /\ CreateLine(out, width) /\ call' = << "image_line_create", out, width >>
          => P!DrawLine
  BY CallsOnItself, DrawsALine
<1>3. \A index \in 0 .. 2, msb \in Words, lsb \in Words :
        /\ image_line_set_word(out, index, msb, lsb)
        /\ call' = << "image_line_set_word", out, index, msb, lsb >>
      => P!DrawLine
  BY CallsOnItself, DrawsALine
<1>4. ASSUME line[out] = NoLine, NEW a \in Lines
      PROVE  /\ \A by \in Shifts :
                  ShiftLine(out, a, by) /\ call' = << "image_line_shift", out, a, by >>
                    => P!DrawLine
             /\ \A index \in Indexes, width \in Widths :
                  /\ ExtractLine(out, a, index, width)
                  /\ call' = << "image_line_extract_wrap_ext", out, a, index, width >>
                => P!DrawLine
             /\ \A map \in Palettes :
                  MapColors(out, a, map) /\ call' = << "image_line_map_colors", out, a, map >>
                    => P!DrawLine
  BY <1>4, CallsOnALine, DrawsALine
<1>5. ASSUME line[out] = NoLine, NEW a \in Lines, NEW b \in Lines
      PROVE  /\ image_line_below(out, a, b) /\ call' = << "image_line_below", out, a, b >>
                  => P!DrawLine
             /\ \A c \in Lines :
                  /\ BelowWithOpacity(out, a, b, line[c].opacity)
                  /\ call' = << "image_line_below_with_opacity", out, a, b, c >>
                => P!DrawLine
             /\ \A start \in Starts :
                  JoinLines(out, a, b, start) /\ call' = << "image_line_join", out, a, b, start >>
                    => P!DrawLine
  BY <1>5, CallsOnTwoLines, DrawsALine
<1> QED BY <1>1, <1>2, <1>3, <1>4, <1>5, Zenon DEF LineCall

LEMMA ImageCallIsDrawn ==
  ASSUME IInv, ImageCall
  PROVE  P!DrawPicture
<1>1. ASSUME NEW width \in Widths, NEW height \in Heights, image = NoImage, CreateImage(width, height),
             call' = << "image_create", width, height >>
      PROVE  P!image_create(width, height)
  <2>1. \/ P!Shows([y \in 0 .. height - 1 |-> P!BlankLine(width)]) /\ LinesSeen' = LinesSeen
        \/ P!FailsForMemory
    BY <1>1, PictureMade
  <2> QED BY <1>1, <2>1 DEF P!image_create
<1>2. FreeImage /\ call' = << "image_free" >> => P!image_free
  BY PictureFreed DEF P!image_free
<1>3. ASSUME NEW y \in 0 .. image.height, NEW a \in Lines
      PROVE  /\ y \in { 0 } \cup { k + 1 : k \in DOMAIN RowsSeen }
             /\ image_set_line(y, a) /\ call' = << "image_set_line", y, a >> => P!image_set_line(y, a)
             /\ image_own_line_content(y, a) /\ call' = << "image_own_line_content", y, a >>
                  => P!image_own_line_content(y, a)
  <2>1. P!CanTake(y, a) <=> y < image.height /\ MATCHING(image.content[y], line[a])
    BY RowMatches
  <2>2. y \in { 0 } \cup { k + 1 : k \in DOMAIN RowsSeen }
    <3>1. DOMAIN RowsSeen = 0 .. image.height - 1 /\ image.height \in Nat
      BY WhatIsSeen DEF IInv, Sound, IsImage
    <3>2. y = 0 \/ (y - 1 \in 0 .. image.height - 1 /\ (y - 1) + 1 = y)
      BY <3>1
    <3> QED BY <3>1, <3>2
  <2>3. ASSUME image_set_line(y, a), call' = << "image_set_line", y, a >>
        PROVE  P!image_set_line(y, a)
    <3>1. CASE y < image.height /\ MATCHING(image.content[y], line[a])
      <4>1. P!Shows([RowsSeen EXCEPT ![y] = LinesSeen[a]]) /\ LinesSeen' = LinesSeen
        BY <2>3, <3>1, LineIsSet
      <4> QED BY <2>1, <2>3, <3>1, <4>1 DEF P!image_set_line
    <3>2. CASE ~(y < image.height /\ MATCHING(image.content[y], line[a]))
      <4>1. P!Refuses
        BY <2>3, <3>2, RefusedIsSeen DEF image_set_line
      <4> QED BY <2>1, <2>3, <3>2, <4>1 DEF P!image_set_line
    <3> QED BY <3>1, <3>2
  <2>4. ASSUME image_own_line_content(y, a), call' = << "image_own_line_content", y, a >>
        PROVE  P!image_own_line_content(y, a)
    <3>1. CASE y < image.height /\ MATCHING(image.content[y], line[a])
      <4>1. /\ P!Shows([RowsSeen EXCEPT ![y] = LinesSeen[a]])
            /\ LinesSeen' = [LinesSeen EXCEPT ![a] = P!Empty]
        BY <2>4, <3>1, LineIsOwned
      <4> QED BY <2>1, <2>4, <3>1, <4>1 DEF P!image_own_line_content
    <3>2. CASE ~(y < image.height /\ MATCHING(image.content[y], line[a]))
      <4>1. P!Refuses
        BY <2>4, <3>2, RefusedIsSeen DEF image_own_line_content
      <4> QED BY <2>1, <2>4, <3>2, <4>1 DEF P!image_own_line_content
    <3> QED BY <3>1, <3>2
  <2> QED BY <2>2, <2>3, <2>4
<1> QED BY <1>1, <1>2, <1>3, Zenon DEF ImageCall, P!DrawPicture

Drawn == P!Next \/ UNCHANGED << call, result, short, LinesSeen, RowsSeen >>

LEMMA NextIsDrawn == IInv /\ Proper /\ InRange /\ [Next]_vars => Drawn
<1>1. ASSUME IInv, UNCHANGED vars PROVE Drawn
  BY <1>1, WhatIsSeen DEF vars, Drawn
<1>2. ASSUME IInv, Proper, InRange, ImageCall PROVE Drawn
  BY <1>2, ImageCallIsDrawn DEF Drawn, P!Next
<1>3. ASSUME IInv, Proper, InRange, NEW out \in Lines, LineCall(out) PROVE Drawn
  BY <1>3, LineCallIsDrawn DEF Drawn, P!Next
<1> QED BY <1>1, <1>2, <1>3 DEF Next

-----------------------------------------------------------------------------
(* The lines drawn keep to the widths that were asked for                    *)
LEMMA NotDrawn == ~P!IsDrawn(P!Empty) /\ \A opacity : ~P!IsDrawn(P!Incomplete(opacity))
BY DEF P!IsDrawn, P!Empty, P!Incomplete

LEMMA WordKeepsTheWidth ==
  ASSUME NEW l \in Lines, NEW index, NEW msb, NEW lsb
  PROVE  P!WithWord(LinesSeen[l], index, msb, lsb).width = LinesSeen[l].width
<1>1. PICK s : s = LinesSeen[l]
  OBVIOUS
<1>2. "width" \in DOMAIN s
  <2>1. s = Seen(heap, line[l])
    BY <1>1, WhatIsSeen
  <2> QED BY <2>1 DEF Seen
<1>3. \A f : [s EXCEPT !.pixel = f].width = s.width
  BY <1>2
<1> QED BY <1>1, <1>3 DEF P!WithWord

LEMMA WidthsOfWhatIsMade ==
  /\ \A width : P!BlankLine(width).width = width
  /\ \A l, by : P!Shifted(l, by).width = l.width
  /\ \A l, index, width : P!Extracted(l, index, width).width = width
  /\ \A l, map : P!Recoloured(l, map).width = l.width
  /\ \A l, m, mask : P!Over(l, m, mask).width = l.width
  /\ \A l, m, start : P!Joined(l, m, start).width = l.width
<1>1. \A w, pixel : P!Drawn(w, pixel).width = w
  BY DEF P!Drawn
<1> QED BY <1>1 DEF P!BlankLine, P!Shifted, P!Extracted, P!Recoloured, P!Over, P!Joined

LEMMA StaysProper ==
  ASSUME Proper, LinesSeen' = LinesSeen
  PROVE  Proper'
BY DEF Proper, P!IsDrawn

LEMMA NothingDrawn ==
  ASSUME Proper, P!Refuses \/ P!Fails \/ P!FailsForMemory
  PROVE  Proper'
<1>1. LinesSeen' = LinesSeen
  BY DEF P!Refuses, P!Fails, P!FailsForMemory
<1> QED BY <1>1, StaysProper

LEMMA DrawsProper ==
  ASSUME Proper, NEW out \in Lines, NEW made, P!IsDrawn(made) => made.width \in Widths,
         LinesSeen' = [LinesSeen EXCEPT ![out] = made]
  PROVE  Proper'
<1>1. LinesSeen = [l \in Lines |-> LinesSeen[l]]
  BY DEF LinesSeen
<1>2. \A l \in Lines : LinesSeen'[l] = LinesSeen[l] \/ LinesSeen'[l] = made
  BY <1>1
<1>3. \A l \in Lines : P!IsDrawn(LinesSeen'[l]) => LinesSeen'[l].width \in Widths
  BY <1>2 DEF Proper
<1> QED BY <1>3 DEF Proper, P!IsDrawn

LEMMA MakesProper ==
  ASSUME Proper, NEW out \in Lines, NEW made, P!IsDrawn(made) => made.width \in Widths
  PROVE  /\ P!Draws(out, made) => Proper'
         /\ P!Makes(out, made) => Proper'
<1>1. ASSUME P!Draws(out, made) PROVE Proper'
  <2>1. LinesSeen' = [LinesSeen EXCEPT ![out] = made]
    BY <1>1 DEF P!Draws
  <2> QED BY <2>1, DrawsProper
<1> QED BY <1>1, NothingDrawn DEF P!Makes

LEMMA LeavesProper ==
  ASSUME Proper, NEW out \in Lines, NEW made, P!IsDrawn(made) => made.width \in Widths,
         NEW left, \A l \in left : ~P!IsDrawn(l), P!MakesOrLeaves(out, made, left)
  PROVE  Proper'
<1>1. CASE P!Makes(out, made)
  BY <1>1, MakesProper
<1>2. ASSUME NEW l \in left, P!Draws(out, l) PROVE Proper'
  BY <1>2, MakesProper
<1> QED BY <1>1, <1>2 DEF P!MakesOrLeaves

LEMMA LineProper ==
  ASSUME Proper, NEW out \in Lines
  PROVE  /\ P!image_line_free(out) => Proper'
         /\ \A width \in Widths : P!image_line_create(out, width) => Proper'
         /\ \A index \in 0 .. 2, msb \in Words, lsb \in Words :
              P!image_line_set_word(out, index, msb, lsb) => Proper'
<1>1. P!image_line_free(out) => Proper'
  BY NotDrawn, MakesProper DEF P!image_line_free
<1>2. ASSUME NEW width \in Widths, P!image_line_create(out, width) PROVE Proper'
  <2>1. P!BlankLine(width).width \in Widths
    BY WidthsOfWhatIsMade
  <2> QED BY <1>2, <2>1, MakesProper DEF P!image_line_create
<1>3. ASSUME NEW index \in 0 .. 2, NEW msb \in Words, NEW lsb \in Words,
             P!image_line_set_word(out, index, msb, lsb)
      PROVE  Proper'
  <2>1. CASE P!IsDrawn(LinesSeen[out]) /\ P!Draws(out, P!WithWord(LinesSeen[out], index, msb, lsb))
    <3>1. P!WithWord(LinesSeen[out], index, msb, lsb).width \in Widths
      BY <2>1, WordKeepsTheWidth DEF Proper
    <3> QED BY <2>1, <3>1, MakesProper
  <2> QED BY <1>3, <2>1, NothingDrawn DEF P!image_line_set_word
<1> QED BY <1>1, <1>2, <1>3

LEMMA MadeFromOneProper ==
  ASSUME Proper, NEW out \in Lines, NEW a \in Lines
  PROVE  /\ \A by \in Shifts : P!image_line_shift(out, a, by) => Proper'
         /\ \A index \in Indexes, width \in Widths : P!image_line_extract_wrap_ext(out, a, index, width) => Proper'
         /\ \A map \in Palettes : P!image_line_map_colors(out, a, map) => Proper'
<1>1. P!IsDrawn(LinesSeen[a]) => LinesSeen[a].width \in Widths
  BY DEF Proper
<1>2. ASSUME NEW by \in Shifts, P!image_line_shift(out, a, by) PROVE Proper'
  <2>1. P!IsDrawn(LinesSeen[a]) => P!Shifted(LinesSeen[a], by).width \in Widths
    BY <1>1, WidthsOfWhatIsMade
  <2> QED BY <1>2, <2>1, MakesProper, NothingDrawn DEF P!image_line_shift
<1>3. ASSUME NEW index \in Indexes, NEW width \in Widths, P!image_line_extract_wrap_ext(out, a, index, width)
      PROVE  Proper'
  <2>1. P!Extracted(LinesSeen[a], index, width).width \in Widths
    BY WidthsOfWhatIsMade
  <2> QED BY <1>3, <2>1, MakesProper, NothingDrawn DEF P!image_line_extract_wrap_ext
<1>4. ASSUME NEW map \in Palettes, P!image_line_map_colors(out, a, map) PROVE Proper'
  <2>1. CASE ~P!IsDrawn(LinesSeen[a])
    BY <1>4, <2>1, NothingDrawn DEF P!image_line_map_colors
  <2>2. CASE P!IsDrawn(LinesSeen[a])
    <3>1. PICK made : made = P!Recoloured(LinesSeen[a], map)
      OBVIOUS
    <3>2. P!MakesOrLeaves(out, made, { P!Empty, P!Incomplete(P!NoOpacity), P!Incomplete(P!Opacity(made)) })
      BY <1>4, <2>2, <3>1 DEF P!image_line_map_colors
    <3>3. made.width \in Widths
      BY <1>1, <2>2, <3>1, WidthsOfWhatIsMade
    <3>4. \A l \in { P!Empty, P!Incomplete(P!NoOpacity), P!Incomplete(P!Opacity(made)) } : ~P!IsDrawn(l)
      BY NotDrawn
    <3> QED BY <3>2, <3>3, <3>4, LeavesProper
  <2> QED BY <2>1, <2>2
<1> QED BY <1>2, <1>3, <1>4

LEMMA MadeFromTwoProper ==
  ASSUME Proper, NEW out \in Lines, NEW a \in Lines, NEW b \in Lines
  PROVE  /\ P!image_line_below(out, a, b) => Proper'
         /\ \A c \in Lines : P!image_line_below_with_opacity(out, a, b, c) => Proper'
         /\ \A start \in Starts : P!image_line_join(out, a, b, start) => Proper'
<1>1. P!Match(LinesSeen[a], LinesSeen[b]) => LinesSeen[a].width \in Widths
  BY DEF Proper, P!Match
<1>2. ASSUME NEW c \in Lines, P!Below(out, a, b, c) PROVE Proper'
  <2>1. PICK made : made = P!Over(LinesSeen[a], LinesSeen[b], P!Opacity(LinesSeen[c]).opaque)
    OBVIOUS
  <2>2. \/ P!Refuses \/ P!Fails
        \/ P!Match(LinesSeen[a], LinesSeen[b]) /\ P!MakesOrLeaves(out, made, { P!Incomplete(P!NoOpacity) })
    BY <1>2, <2>1 DEF P!Below
  <2>3. CASE P!Match(LinesSeen[a], LinesSeen[b]) /\ P!MakesOrLeaves(out, made, { P!Incomplete(P!NoOpacity) })
    <3>1. made.width \in Widths
      BY <1>1, <2>1, <2>3, WidthsOfWhatIsMade
    <3>2. \A l \in { P!Incomplete(P!NoOpacity) } : ~P!IsDrawn(l)
      BY NotDrawn
    <3> QED BY <2>3, <3>1, <3>2, LeavesProper
  <2> QED BY <2>2, <2>3, NothingDrawn
<1>3. ASSUME NEW start \in Starts, P!image_line_join(out, a, b, start) PROVE Proper'
  <2>1. P!Match(LinesSeen[a], LinesSeen[b]) => P!Joined(LinesSeen[a], LinesSeen[b], start).width \in Widths
    BY <1>1, WidthsOfWhatIsMade
  <2> QED BY <1>3, <2>1, MakesProper, NothingDrawn DEF P!image_line_join
<1> QED BY <1>2, <1>3 DEF P!image_line_below, P!image_line_below_with_opacity

LEMMA PictureProper ==
  ASSUME Proper, P!DrawPicture
  PROVE  Proper'
<1>1. ASSUME NEW width \in Widths, NEW height \in Heights, P!image_create(width, height)
      PROVE  Proper'
  BY <1>1, StaysProper, NothingDrawn DEF P!image_create
<1>2. P!image_free => Proper'
  BY StaysProper DEF P!image_free
<1>3. ASSUME NEW y, NEW a \in Lines, P!image_set_line(y, a) PROVE Proper'
  BY <1>3, StaysProper, NothingDrawn DEF P!image_set_line
<1>4. ASSUME NEW y, NEW a \in Lines, P!image_own_line_content(y, a) PROVE Proper'
  <2>1. P!Refuses \/ LinesSeen' = [LinesSeen EXCEPT ![a] = P!Empty]
    BY <1>4 DEF P!image_own_line_content
  <2> QED BY <2>1, NotDrawn, NothingDrawn, DrawsProper
<1> QED BY <1>1, <1>2, <1>3, <1>4 DEF P!DrawPicture

LEMMA ProperLasts ==
  ASSUME Proper, Drawn
  PROVE  Proper'
<1>1. CASE UNCHANGED << call, result, short, LinesSeen, RowsSeen >>
  BY <1>1, StaysProper
<1>2. CASE P!DrawPicture
  BY <1>2, PictureProper
<1>3. CASE P!DrawLine
  BY <1>3, LineProper, MadeFromOneProper, MadeFromTwoProper, Zenon DEF P!DrawLine
<1> QED BY <1>1, <1>2, <1>3 DEF Drawn, P!Next

LEMMA InitIsProper == Init => Proper
<1> SUFFICES ASSUME Init, NEW l \in Lines PROVE ~P!IsDrawn(LinesSeen[l])
  BY DEF Proper
<1>1. line[l] = NoLine
  BY DEF Init
<1>2. LinesSeen[l] = P!Empty
  BY <1>1, NoLineIsSeen, WhatIsSeen
<1> QED BY <1>2, NotDrawn

-----------------------------------------------------------------------------
LEMMA CreatedWhole ==
  ASSUME NEW r, Running(r), NEW w \in Nat \ {0}, NEW height \in Nat, NEW o, o = image_create(r, w, height)
  PROVE  \A y \in DOMAIN o.image.content : NON_NULL(o.image.content[y])
<1>1. PICK c, h : c = o.image.content /\ h = o.r.heap
  OBVIOUS
<1>2. \/ o.image = NoImage
      \/ /\ c = [y \in 0 .. height - 1 |-> c[y]]
         /\ \A y \in 0 .. height - 1 : Shows(h, c[y], w, NoBits)
  <2>1. \/ o.image = NoImage
        \/ /\ o.image.content = [y \in 0 .. height - 1 |-> o.image.content[y]]
           /\ \A y \in 0 .. height - 1 : Shows(o.r.heap, o.image.content[y], w, NoBits)
    BY CreateImageDraws
  <2> QED BY <1>1, <2>1
<1>3. CASE o.image = NoImage
  BY <1>1, <1>3 DEF NoImage
<1>4. CASE /\ c = [y \in 0 .. height - 1 |-> c[y]]
           /\ \A y \in 0 .. height - 1 : Shows(h, c[y], w, NoBits)
  <2>1. DOMAIN c = 0 .. height - 1
    BY <1>4
  <2> QED BY <1>1, <1>4, <2>1, ShownIsSeen
<1> QED BY <1>2, <1>3, <1>4

(* No row of an image ever lacks a part: an image of which one cannot be     *)
(* made is given up, and only a whole line can be given to one.  So          *)
(* image_get_pixel never reads a vector that is not there.                   *)
RowsAreWhole == \A y \in DOMAIN image.content : NON_NULL(image.content[y])

THEOREM RowsStayWhole == Spec => []RowsAreWhole
<1>1. Init => RowsAreWhole
  BY DEF Init, NoImage, RowsAreWhole
<1>2. IInv /\ RowsAreWhole /\ [Next]_vars => RowsAreWhole'
  <2> SUFFICES ASSUME IInv, RowsAreWhole, [Next]_vars PROVE RowsAreWhole'
    OBVIOUS
  <2>1. CASE image' = image
    BY <2>1 DEF RowsAreWhole, NON_NULL, PartsOf
  <2>2. ASSUME image = NoImage, NEW width \in Widths, NEW height \in Heights, CreateImage(width, height)
        PROVE  RowsAreWhole'
    <3>1. PICK fails, o :
             o = image_create(Begin(fails), width, height) /\ SetImage(o, o.image)
      BY <2>2 DEF CreateImage
    <3>2. width \in Nat \ {0} /\ height \in Nat
      BY SizesAssumption
    <3>3. Running(Begin(fails))
      BY BeginRuns
    <3>4. PICK r : r = Begin(fails) /\ Running(r) /\ o = image_create(r, width, height)
      BY <3>1, <3>3
    <3>5. \A y \in DOMAIN o.image.content : NON_NULL(o.image.content[y])
      BY <3>2, <3>4, CreatedWhole, Zenon
    <3>6. image' = o.image
      BY <3>1 DEF SetImage
    <3> QED BY <3>5, <3>6 DEF RowsAreWhole, NON_NULL, PartsOf
  <2>3. ASSUME FreeImage
        PROVE  RowsAreWhole'
    <3>1. image_free(Begin({}), image).image = NoImage
      BY DEF image_free
    <3>2. image' = NoImage
      BY <2>3, <3>1 DEF FreeImage, SetImage
    <3> QED BY <3>2 DEF NoImage, RowsAreWhole
  <2>4. ASSUME NEW y \in 0 .. image.height, NEW a \in Lines, image_set_line(y, a)
        PROVE  image' = image
    BY <2>4 DEF image_set_line, SetImage, Refused
  <2>5. ASSUME NEW y \in 0 .. image.height, NEW a \in Lines, image_own_line_content(y, a)
        PROVE  RowsAreWhole'
    <3>1. CASE image' = [image EXCEPT !.content[y] = line[a]] /\ NON_NULL(line[a])
      <4>1. image'.content = [image.content EXCEPT ![y] = line[a]]
        BY <3>1 DEF IInv, Sound, IsImage
      <4>2. ASSUME NEW z \in DOMAIN image'.content
            PROVE  0 \notin PartsOf(image'.content[z])
        <5>1. z \in DOMAIN image.content /\ (image'.content[z] = line[a] \/ image'.content[z] = image.content[z])
          BY <4>1, <4>2
        <5>2. NON_NULL(image.content[z])
          BY <5>1 DEF RowsAreWhole
        <5> QED BY <3>1, <5>1, <5>2 DEF NON_NULL
      <4> QED BY <4>2 DEF RowsAreWhole, NON_NULL, PartsOf
    <3> QED BY <2>1, <2>5, <3>1 DEF image_own_line_content, Refused, MATCHING
  <2>6. CASE ImageCall
    BY <2>1, <2>2, <2>3, <2>4, <2>5, <2>6 DEF ImageCall
  <2>7. ASSUME NEW out \in Lines, LineCall(out)
        PROVE  image' = image
    BY <2>7, Zenon DEF LineCall, FreeLine, CreateLine, ShiftLine, ExtractLine, MapColors, BelowWithOpacity,
         image_line_below, JoinLines, image_line_set_word, Writes, Refused
  <2>8. CASE UNCHANGED vars
    BY <2>1, <2>8 DEF vars
  <2> QED BY <2>1, <2>6, <2>7, <2>8 DEF Next
<1> QED BY <1>1, <1>2, Invariance, PTL DEF Spec

(* Wherever the sizes stay within a size_t, a call draws what Picture's      *)
(* function of its name says with the same arguments, or answers as it says  *)
(* and draws nothing: image_line_below lays its second line over the first,  *)
(* image_line_join takes the first up to the start, a refusal is one exactly *)
(* where a line is not whole, the widths differ or the place is outside, and *)
(* a call that returns ERR_NONE has drawn its line.  Only two functions may  *)
(* leave it incomplete instead, and only where memory has run out            *)
THEOREM PictureDrawn ==
  ASSUME InRange
  PROVE  Spec => DrawsThePicture
<1>1. Init => IInv /\ Proper
  BY InitIsSound, InitIsProper
<1>2. IInv /\ Proper /\ [Next]_vars =>
        Proper' /\ [P!Next]_<< call, result, short, LinesSeen, RowsSeen >>
  BY NextIsDrawn, ProperLasts DEF Drawn
<1>3. Spec => []Proper
  BY <1>1, <1>2, Invariance, PTL DEF Spec
<1> QED BY <1>2, <1>3, Invariance, PTL DEF Spec, DrawsThePicture, P!Spec
=============================================================================
