--------------------------- MODULE BusData_proofs ---------------------------
(***************************************************************************)
(* What the bus guarantees its clients, for buses, components, sizes and   *)
(* numbers of allocations and stores of any size.                          *)
(*                                                                         *)
(* Its structure: to any client, that no address points past its array; to *)
(* a careful one, that the bus is exactly what the components say and      *)
(* points only into live memory.                                           *)
(*                                                                         *)
(* Its bytes, to a careful client: a store is read back, reaches no other  *)
(* component, and goes astray only as a word at the end of one.  This      *)
(* rests on the structure, which a load or store does not change.          *)
(***************************************************************************)
EXTENDS BusData, TLAPS

(* One call, whatever the client's habits.                                  *)
Operation(c) ==
  \/ \E size \in Sizes : component_create(c, size)
  \/ \E old \in Components : component_shared(c, old)
  \/ mem_free(c) \/ component_free(c)
  \/ bus_unplug(c)
  \/ \E offset \in Addrs : bus_remap(c, offset)
  \/ \E s, e \in Addrs : bus_plug(c, s, e)
  \/ \E s, e, offset \in Addrs : bus_forced_plug(c, s, e, offset)

LEMMA ClientsCall ==
  /\ \A c \in Components : AnyCall(c) => Operation(c)
  /\ \A c \in Components : CarefulCall(c) => Operation(c)
BY DEF AnyCall, CarefulCall, Operation

-----------------------------------------------------------------------------
(* Mapping a range that fits keeps the bus well-typed and within bounds.    *)
LEMMA MappedFits ==
  ASSUME TypeOK, MappedInBounds, NEW c \in Components, Backed(c),
         NEW s \in Addrs, NEW e \in Addrs, NEW offset \in Nat, Fits(c, s, e, offset)
  PROVE  /\ Mapped(c, s, e, offset) \in [Addrs -> [block : 0 .. MaxBlocks, at : Nat]]
         /\ \A a \in Addrs : \/ Mapped(c, s, e, offset)[a] = NULL
                             \/ PointsInside(Mapped(c, s, e, offset)[a])
<1>1. mem[c] \in 1 .. used /\ mem[c] \in 0 .. MaxBlocks /\ length[mem[c]] \in Nat
  BY BusAssumption DEF TypeOK, Backed, Blocks
<1>2. ASSUME NEW a \in Addrs
      PROVE  /\ Mapped(c, s, e, offset)[a] \in [block : 0 .. MaxBlocks, at : Nat]
             /\ \/ Mapped(c, s, e, offset)[a] = NULL
                \/ PointsInside(Mapped(c, s, e, offset)[a])
  <2>1. CASE a \in s .. e
    <3>1. Mapped(c, s, e, offset)[a] = [block |-> mem[c], at |-> offset + (a - s)]
      BY <2>1 DEF Mapped
    <3>2. offset + (a - s) \in Nat /\ offset + (a - s) < length[mem[c]]
      BY <1>1, <2>1, BusAssumption DEF Fits, Addrs
    <3> QED BY <1>1, <3>1, <3>2 DEF PointsInside
  <2>2. CASE a \notin s .. e
    <3>1. Mapped(c, s, e, offset)[a] = bus[a]
      BY <2>2 DEF Mapped
    <3> QED BY <3>1 DEF TypeOK, MappedInBounds
  <2> QED BY <2>1, <2>2
<1> QED BY <1>2 DEF Mapped

LEMMA NullIsACell == NULL \in [block : 0 .. MaxBlocks, at : Nat]
BY BusAssumption DEF NULL

(* Every call keeps the types and the bounds.                               *)
LEMMA OperationKeepsBounds ==
  ASSUME TypeOK, MappedInBounds, NEW c \in Components, Operation(c)
  PROVE  TypeOK' /\ MappedInBounds'
<1>0. 0 \in Addrs /\ Top \in Nat /\ MaxBlocks \in Nat /\ Sizes \subseteq Nat
  BY BusAssumption DEF Addrs
<1>1. CASE \E size \in Sizes : component_create(c, size)
  <2>1. PICK size \in Sizes : component_create(c, size)
    BY <1>1
  <2>2. CASE CreateEmpty(c)
    BY <1>0, <2>2 DEF CreateEmpty, SetRange, TypeOK, MappedInBounds, PointsInside, Codes
  <2>3. CASE Allocate(c, size)
    <3>1. used + 1 \in Blocks /\ used' = used + 1 /\ bus' = bus /\ size \in Nat
      BY <1>0, <2>3 DEF Allocate, TypeOK, Blocks
    <3>2. \A b \in 1 .. used : b \in Blocks /\ length'[b] = length[b]
      BY <1>0, <2>3 DEF Allocate, TypeOK, Blocks
    <3>3. MappedInBounds'
      <4> SUFFICES ASSUME NEW a \in Addrs, bus[a] # NULL
                   PROVE  PointsInside(bus[a])'
        BY <3>1 DEF MappedInBounds
      <4>1. bus[a].block \in 1 .. used /\ bus[a].at < length[bus[a].block]
        BY DEF MappedInBounds, PointsInside
      <4> QED BY <3>1, <3>2, <4>1 DEF PointsInside, TypeOK
    <3>4. TypeOK'
      BY <1>0, <2>3, <3>1 DEF Allocate, SetRange, TypeOK, Codes
    <3> QED BY <3>3, <3>4
  <2>4. CASE NoStruct(c)
    BY <1>0, <2>4 DEF NoStruct, TypeOK, MappedInBounds, PointsInside, Codes
  <2>5. CASE NoArray(c)
    <3>1. used' = used + 1 /\ used + 1 \in 0 .. MaxBlocks
      BY <1>0, <2>5 DEF NoArray, TypeOK
    <3>2. TypeOK'
      BY <1>0, <2>5, <3>1 DEF NoArray, TypeOK, Codes
    <3>3. MappedInBounds'
      BY <2>5, <3>1 DEF NoArray, TypeOK, MappedInBounds, PointsInside
    <3> QED BY <3>2, <3>3
  <2> QED BY <2>1, <2>2, <2>3, <2>4, <2>5 DEF component_create
<1>2. CASE \E old \in Components : component_shared(c, old)
  BY <1>0, <1>2 DEF component_shared, SetRange, TypeOK, MappedInBounds, PointsInside, Codes
<1>3. CASE mem_free(c) \/ component_free(c)
  <2>1. arrays' \subseteq structs' /\ structs' \subseteq 1 .. used
    BY <1>3 DEF mem_free, component_free, TypeOK
  <2>2. /\ mem' \in [Components -> 0 .. MaxBlocks]
        /\ start' \in [Components -> Addrs] /\ end' \in [Components -> Addrs]
    <3>1. CASE mem_free(c)
      BY <3>1 DEF mem_free, TypeOK
    <3>2. CASE component_free(c)
      BY <1>0, <3>2 DEF component_free, SetRange, TypeOK
    <3> QED BY <1>3, <3>1, <3>2
  <2>3. UNCHANGED << bus, length, used, result >>
    BY <1>3 DEF mem_free, component_free
  <2> QED BY <2>1, <2>2, <2>3 DEF TypeOK, MappedInBounds, PointsInside
<1>4. CASE bus_unplug(c)
  BY <1>0, <1>4, NullIsACell
     DEF bus_unplug, Cleared, SetRange, memories, TypeOK, MappedInBounds, PointsInside, Codes
<1>5. ASSUME NEW s \in Addrs, NEW e \in Addrs, NEW offset \in Nat,
             bus_forced_plug(c, s, e, offset)
      PROVE  TypeOK' /\ MappedInBounds'
  <2>1. CASE bus' = Mapped(c, s, e, offset) /\ Backed(c) /\ Fits(c, s, e, offset)
    <3>1. /\ bus' \in [Addrs -> [block : 0 .. MaxBlocks, at : Nat]]
          /\ \A a \in Addrs : bus'[a] = NULL \/ PointsInside(bus'[a])
      BY <2>1, MappedFits
    <3>2. UNCHANGED memories /\ result' \in Codes
          /\ start' \in [Components -> Addrs] /\ end' \in [Components -> Addrs]
      BY <1>0, <1>5 DEF bus_forced_plug, SetRange, TypeOK, Codes
    <3> QED BY <3>1, <3>2 DEF memories, TypeOK, MappedInBounds, PointsInside
  <2>2. CASE UNCHANGED bus
    BY <1>0, <1>5, <2>2
       DEF bus_forced_plug, SetRange, memories, TypeOK, MappedInBounds, PointsInside, Codes
  <2> QED BY <1>5, <2>1, <2>2 DEF bus_forced_plug
<1>6. CASE \E offset \in Addrs : bus_remap(c, offset)
  <2>1. PICK offset \in Addrs : bus_remap(c, offset)
    BY <1>6
  <2>2. offset \in Nat /\ start[c] \in Addrs /\ end[c] \in Addrs
    BY DEF Addrs, TypeOK
  <2>3. CASE bus' = Mapped(c, start[c], end[c], offset) /\ Backed(c)
             /\ Fits(c, start[c], end[c], offset)
    BY <2>1, <2>2, <2>3, MappedFits
       DEF bus_remap, memories, TypeOK, MappedInBounds, PointsInside, Codes
  <2>4. CASE UNCHANGED bus
    BY <2>1, <2>4 DEF bus_remap, memories, TypeOK, MappedInBounds, PointsInside, Codes
  <2> QED BY <2>1, <2>3, <2>4 DEF bus_remap
<1>7. CASE \E s, e \in Addrs : bus_plug(c, s, e)
  <2>1. PICK s \in Addrs, e \in Addrs : bus_plug(c, s, e)
    BY <1>7
  <2>2. CASE bus_forced_plug(c, s, e, 0)
    BY <1>5, <2>2
  <2>3. CASE UNCHANGED << bus, start, end, memories >> /\ result' = "ERR_ADDRESS"
    BY <2>3 DEF memories, TypeOK, MappedInBounds, PointsInside, Codes
  <2> QED BY <2>1, <2>2, <2>3 DEF bus_plug
<1>8. CASE \E s, e, offset \in Addrs : bus_forced_plug(c, s, e, offset)
  BY <1>5, <1>8 DEF Addrs
<1> QED BY <1>1, <1>2, <1>3, <1>4, <1>6, <1>7, <1>8 DEF Operation

LEMMA InitInBounds == Init => TypeOK /\ MappedInBounds
BY BusAssumption, NullIsACell DEF Init, TypeOK, MappedInBounds, Addrs, Blocks, Codes

LEMMA UnchangedInBounds ==
  ASSUME TypeOK, MappedInBounds, UNCHANGED vars
  PROVE  TypeOK' /\ MappedInBounds'
BY DEF vars, memories, TypeOK, MappedInBounds, PointsInside

(* The types, under any calls in any order.                                 *)
THEOREM TypeCorrect == Spec => []TypeOK
<1>1. TypeOK /\ MappedInBounds /\ [Next]_vars => TypeOK' /\ MappedInBounds'
  BY ClientsCall, OperationKeepsBounds, UnchangedInBounds DEF Next
<1> QED BY InitInBounds, <1>1, PTL DEF Spec

(* No address ever points past the end of the array it was mapped to.       *)
THEOREM NothingOutOfBounds == Spec => []MappedInBounds
<1>1. TypeOK /\ MappedInBounds /\ [Next]_vars => TypeOK' /\ MappedInBounds'
  BY ClientsCall, OperationKeepsBounds, UnchangedInBounds DEF Next
<1> QED BY InitInBounds, <1>1, PTL DEF Spec

-----------------------------------------------------------------------------
(***************************************************************************)
(* The careful client.  That its mapping is exact is inductive together    *)
(* with this: every memory_t has its array, and what is plugged has both.  *)
(***************************************************************************)
SoundPlugs ==
  /\ structs = arrays
  /\ \A c \in Components : IsPlugged(c) => mem[c] \in arrays

CarefulInv == TypeOK /\ MappedInBounds /\ SoundPlugs /\ ExactMapping

(* What is plugged is not NULL on the bus.                                  *)
LEMMA PluggedIsMapped ==
  ASSUME CarefulInv, NEW d \in Components, IsPlugged(d), NEW a \in Span(d)
  PROVE  a \in Addrs /\ bus[a] # NULL /\ bus[a].block = mem[d]
<1>1. start[d] \in 0 .. Top /\ end[d] \in 0 .. Top /\ Top \in Nat
  BY BusAssumption DEF CarefulInv, TypeOK, Addrs
<1>2. a \in Addrs
  BY <1>1 DEF Span, Addrs
<1>3. mem[d] # 0
  BY DEF CarefulInv, SoundPlugs, TypeOK
<1>4. bus[a] = [block |-> mem[d], at |-> bus[start[d]].at + (a - start[d])]
  BY DEF CarefulInv, ExactMapping, MappedInOrder
<1> QED BY <1>2, <1>3, <1>4 DEF NULL

LEMMA StartsItsSpan ==
  ASSUME CarefulInv, NEW d \in Components, IsPlugged(d)
  PROVE  start[d] \in Span(d)
<1>1. start[d] \in 0 .. Top /\ end[d] \in 0 .. Top /\ Top \in Nat
  BY BusAssumption DEF CarefulInv, TypeOK, Addrs
<1> QED BY <1>1 DEF IsPlugged, Span

(* Where neither the bus nor a plugged component changes.                   *)
LEMMA StillExact ==
  ASSUME ExactMapping, bus' = bus,
         \A d \in Components : /\ IsPlugged(d)' <=> IsPlugged(d)
                               /\ IsPlugged(d) => /\ start'[d] = start[d] /\ end'[d] = end[d]
                                                  /\ mem'[d] = mem[d]
  PROVE  ExactMapping'
<1>1. RangesDisjoint'
  BY DEF ExactMapping, RangesDisjoint, Span
<1>2. MappedInOrder'
  BY DEF ExactMapping, MappedInOrder, Span
<1>3. NothingElse'
  BY DEF ExactMapping, NothingElse, Span
<1> QED BY <1>1, <1>2, <1>3 DEF ExactMapping

(* Mapping a component where nothing is, or over its own range.             *)
LEMMA MappingIsExact ==
  ASSUME CarefulInv, NEW c \in Components,
         NEW s \in Addrs, NEW e \in Addrs, NEW offset \in Nat, s < e,
         \A a \in s .. e : bus[a] = NULL \/ (IsPlugged(c) /\ a \in Span(c)),
         IsPlugged(c) => s = start[c] /\ e = end[c],
         bus' = Mapped(c, s, e, offset), mem' = mem, SetRange(c, s, e)
  PROVE  ExactMapping'
<1>1. start' = [start EXCEPT ![c] = s] /\ end' = [end EXCEPT ![c] = e]
  BY DEF SetRange
<1>2. start'[c] = s /\ end'[c] = e /\ IsPlugged(c)' /\ Span(c)' = s .. e
  BY <1>1 DEF IsPlugged, Span, CarefulInv, TypeOK
<1>3. \A d \in Components \ { c } :
        start'[d] = start[d] /\ end'[d] = end[d] /\ (IsPlugged(d)' <=> IsPlugged(d))
        /\ Span(d)' = Span(d)
  BY <1>1 DEF IsPlugged, Span, CarefulInv, TypeOK
<1>4. ASSUME NEW d \in Components \ { c }, IsPlugged(d), NEW a \in Span(d)
      PROVE  a \notin s .. e /\ a \in Addrs /\ bus'[a] = bus[a]
  <2>1. a \in Addrs /\ bus[a] # NULL
    BY <1>4, PluggedIsMapped
  <2>2. ~(IsPlugged(c) /\ a \in Span(c))
    BY <1>4 DEF CarefulInv, ExactMapping, RangesDisjoint
  <2> QED BY <2>1, <2>2 DEF Mapped
<1>5. RangesDisjoint'
  <2> SUFFICES ASSUME NEW d \in Components, NEW f \in Components, d # f,
                      IsPlugged(d)', IsPlugged(f)'
               PROVE  Span(d)' \cap Span(f)' = {}
    BY DEF RangesDisjoint
  <2>1. CASE d # c /\ f # c
    BY <1>3, <2>1 DEF CarefulInv, ExactMapping, RangesDisjoint
  <2>2. CASE d = c
    BY <1>2, <1>3, <1>4, <2>2
  <2>3. CASE f = c
    BY <1>2, <1>3, <1>4, <2>3
  <2> QED BY <2>1, <2>2, <2>3
<1>6. \A a \in s .. e : bus'[a] = [block |-> mem[c], at |-> offset + (a - s)]
  BY BusAssumption DEF Mapped, Addrs
<1>7. MappedInOrder'
  <2> SUFFICES ASSUME NEW d \in Components, IsPlugged(d)', NEW a \in Span(d)'
               PROVE  bus'[a] = [block |-> mem'[d],
                                 at |-> bus'[start'[d]].at + (a - start'[d])]
    BY DEF MappedInOrder
  <2>1. CASE d = c
    <3>1. s \in s .. e /\ s \in Nat
      BY BusAssumption DEF Addrs
    <3>2. bus'[s] = [block |-> mem[c], at |-> offset + (s - s)] /\ offset + (s - s) = offset
      BY <1>6, <3>1
    <3>3. bus'[s].at = offset
      BY <3>2
    <3> QED BY <1>2, <1>6, <2>1, <3>3
  <2>2. CASE d # c
    <3>1. IsPlugged(d) /\ a \in Span(d) /\ start'[d] = start[d]
      BY <1>3, <2>2
    <3>2. start[d] \in Span(d)
      BY <3>1, StartsItsSpan
    <3>3. bus'[a] = bus[a] /\ bus'[start[d]] = bus[start[d]]
      BY <1>4, <2>2, <3>1, <3>2
    <3>4. bus[a] = [block |-> mem[d], at |-> bus[start[d]].at + (a - start[d])]
      BY <3>1 DEF CarefulInv, ExactMapping, MappedInOrder
    <3> QED BY <3>1, <3>3, <3>4
  <2> QED BY <2>1, <2>2
<1>8. NothingElse'
  <2> SUFFICES ASSUME NEW a \in Addrs, bus'[a] # NULL
               PROVE  \E d \in Components : IsPlugged(d)' /\ a \in Span(d)'
    BY DEF NothingElse
  <2>1. CASE a \in s .. e
    BY <1>2, <2>1
  <2>2. CASE a \notin s .. e
    <3>1. bus[a] # NULL
      BY <2>2 DEF Mapped
    <3>2. PICK d \in Components : IsPlugged(d) /\ a \in Span(d)
      BY <3>1 DEF CarefulInv, ExactMapping, NothingElse
    <3>3. d # c
      BY <2>2, <3>2 DEF Span
    <3> QED BY <1>3, <3>2, <3>3
  <2> QED BY <2>1, <2>2
<1> QED BY <1>5, <1>7, <1>8 DEF ExactMapping

(* Unplugging clears a component's own range and no other.                  *)
LEMMA UnplugIsExact ==
  ASSUME CarefulInv, NEW c \in Components, IsPlugged(c), bus_unplug(c)
  PROVE  ExactMapping'
<1>1. start' = [start EXCEPT ![c] = 0] /\ end' = [end EXCEPT ![c] = 0] /\ mem' = mem
      /\ bus' = Cleared(c)
  BY DEF bus_unplug, SetRange, memories
<1>2. ~IsPlugged(c)'
  BY <1>1 DEF IsPlugged, CarefulInv, TypeOK
<1>3. \A d \in Components \ { c } :
        start'[d] = start[d] /\ end'[d] = end[d] /\ (IsPlugged(d)' <=> IsPlugged(d))
        /\ Span(d)' = Span(d)
  BY <1>1 DEF IsPlugged, Span, CarefulInv, TypeOK
<1>4. \A a \in Addrs : a \in Span(c) <=> start[c] <= a /\ a <= end[c]
  BY BusAssumption DEF Span, Addrs, CarefulInv, TypeOK
<1>5. \A a \in Addrs : bus'[a] = IF a \in Span(c) THEN NULL ELSE bus[a]
  BY <1>1, <1>4 DEF Cleared
<1>6. ASSUME NEW d \in Components \ { c }, IsPlugged(d), NEW a \in Span(d)
      PROVE  a \in Addrs /\ bus'[a] = bus[a]
  <2>1. a \in Addrs
    BY <1>6, PluggedIsMapped
  <2>2. a \notin Span(c)
    BY <1>6 DEF CarefulInv, ExactMapping, RangesDisjoint
  <2> QED BY <1>5, <2>1, <2>2
<1>7. RangesDisjoint'
  BY <1>2, <1>3 DEF CarefulInv, ExactMapping, RangesDisjoint
<1>8. MappedInOrder'
  <2> SUFFICES ASSUME NEW d \in Components, IsPlugged(d)', NEW a \in Span(d)'
               PROVE  bus'[a] = [block |-> mem'[d],
                                 at |-> bus'[start'[d]].at + (a - start'[d])]
    BY DEF MappedInOrder
  <2>1. d # c
    BY <1>2
  <2>2. IsPlugged(d) /\ a \in Span(d) /\ start'[d] = start[d]
    BY <1>3, <2>1
  <2>3. start[d] \in Span(d)
    BY <2>2, StartsItsSpan
  <2>4. bus'[a] = bus[a] /\ bus'[start[d]] = bus[start[d]]
    BY <1>6, <2>1, <2>2, <2>3
  <2>5. bus[a] = [block |-> mem[d], at |-> bus[start[d]].at + (a - start[d])]
    BY <2>2 DEF CarefulInv, ExactMapping, MappedInOrder
  <2> QED BY <1>1, <2>2, <2>4, <2>5
<1>9. NothingElse'
  <2> SUFFICES ASSUME NEW a \in Addrs, bus'[a] # NULL
               PROVE  \E d \in Components : IsPlugged(d)' /\ a \in Span(d)'
    BY DEF NothingElse
  <2>1. a \notin Span(c) /\ bus[a] # NULL
    BY <1>5
  <2>2. PICK d \in Components : IsPlugged(d) /\ a \in Span(d)
    BY <2>1 DEF CarefulInv, ExactMapping, NothingElse
  <2> QED BY <1>3, <2>1, <2>2
<1> QED BY <1>7, <1>8, <1>9 DEF ExactMapping

(* Calls on a component that is not plugged, and stays so.                  *)
LEMMA UnpluggedCallIsExact ==
  ASSUME CarefulInv, NEW c \in Components, ~IsPlugged(c), ~IsPlugged(c)', bus' = bus,
         \A d \in Components \ { c } : /\ start'[d] = start[d] /\ end'[d] = end[d]
                                       /\ mem'[d] = mem[d]
  PROVE  ExactMapping' /\ (\A d \in Components : IsPlugged(d)' => d # c /\ IsPlugged(d))
<1>1. \A d \in Components \ { c } : IsPlugged(d)' <=> IsPlugged(d)
  BY DEF IsPlugged
<1> QED BY <1>1, StillExact DEF CarefulInv

LEMMA CarefulCallKeeps ==
  ASSUME CarefulInv, NEW c \in Components, CarefulCall(c)
  PROVE  SoundPlugs' /\ ExactMapping'
<1>0. TypeOK /\ MappedInBounds /\ SoundPlugs /\ ExactMapping
  BY DEF CarefulInv
<1>1. ASSUME ~IsPlugged(c), NEW size \in Sizes, component_create(c, size)
      PROVE  SoundPlugs' /\ ExactMapping'
  <2>1. /\ bus' = bus /\ ~IsPlugged(c)'
        /\ \A d \in Components \ { c } : /\ start'[d] = start[d] /\ end'[d] = end[d]
                                         /\ mem'[d] = mem[d]
    BY <1>0, <1>1 DEF component_create, CreateEmpty, Allocate, NoStruct, NoArray, SetRange,
                      IsPlugged, TypeOK
  <2>2. structs' = arrays' /\ arrays \subseteq arrays'
    BY <1>0, <1>1 DEF component_create, CreateEmpty, Allocate, NoStruct, NoArray, SoundPlugs
  <2> QED BY <1>0, <1>1, <2>1, <2>2, UnpluggedCallIsExact DEF SoundPlugs
<1>2. ASSUME ~IsPlugged(c), NEW old \in Components, component_shared(c, old)
      PROVE  SoundPlugs' /\ ExactMapping'
  <2>1. /\ bus' = bus /\ ~IsPlugged(c)'
        /\ \A d \in Components \ { c } : /\ start'[d] = start[d] /\ end'[d] = end[d]
                                         /\ mem'[d] = mem[d]
    BY <1>0, <1>2 DEF component_shared, SetRange, IsPlugged, TypeOK
  <2>2. structs' = structs /\ arrays' = arrays
    BY <1>2 DEF component_shared
  <2> QED BY <1>0, <1>2, <2>1, <2>2, UnpluggedCallIsExact DEF SoundPlugs
<1>3. ASSUME Plain(c), NEW s \in Addrs, NEW e \in Addrs, NEW offset \in Nat, Free(s, e),
             bus_forced_plug(c, s, e, offset)
      PROVE  SoundPlugs' /\ ExactMapping'
  <2>1. ~IsPlugged(c) /\ Backed(c) /\ mem' = mem /\ structs' = structs /\ arrays' = arrays
    BY <1>0, <1>3 DEF Plain, SoundPlugs, Backed, bus_forced_plug, memories
  <2>2. CASE bus' = Mapped(c, s, e, offset) /\ SetRange(c, s, e)
    <3>1. \A d \in Components \ { c } : IsPlugged(d)' <=> IsPlugged(d)
      BY <1>0, <2>2 DEF SetRange, IsPlugged, TypeOK
    <3>2. SoundPlugs'
      BY <1>0, <2>1, <3>1 DEF SoundPlugs, Backed
    <3>3. s < e /\ \A a \in s .. e : bus[a] = NULL
      BY <1>3 DEF Free
    <3>4. ExactMapping'
      BY <2>1, <2>2, <3>3, MappingIsExact
    <3> QED BY <3>2, <3>4
  <2>3. CASE bus' = bus /\ SetRange(c, 0, 0)
    <3>1. /\ ~IsPlugged(c)'
          /\ \A d \in Components \ { c } : /\ start'[d] = start[d] /\ end'[d] = end[d]
                                           /\ mem'[d] = mem[d]
      BY <1>0, <2>1, <2>3 DEF SetRange, IsPlugged, TypeOK
    <3> QED BY <1>0, <2>1, <2>3, <3>1, UnpluggedCallIsExact DEF SoundPlugs
  <2> QED BY <1>3, <2>1, <2>2, <2>3 DEF bus_forced_plug
<1>4. ASSUME Plain(c), NEW s \in Addrs, NEW e \in Addrs, bus_plug(c, s, e)
      PROVE  SoundPlugs' /\ ExactMapping'
  <2>1. CASE Free(s, e) /\ bus_forced_plug(c, s, e, 0)
    BY <1>3, <1>4, <2>1
  <2>2. CASE UNCHANGED << bus, start, end, memories >>
    <3>1. ~IsPlugged(c) /\ ~IsPlugged(c)'
      BY <1>4, <2>2 DEF Plain, IsPlugged
    <3>2. structs' = structs /\ arrays' = arrays /\ mem' = mem /\ bus' = bus
          /\ start' = start /\ end' = end
      BY <2>2 DEF memories
    <3> QED BY <1>0, <3>1, <3>2, UnpluggedCallIsExact DEF SoundPlugs
  <2> QED BY <1>4, <2>1, <2>2 DEF bus_plug
<1>5. ASSUME IsPlugged(c), NEW offset \in Addrs, bus_remap(c, offset)
      PROVE  SoundPlugs' /\ ExactMapping'
  <2>1. mem' = mem /\ structs' = structs /\ arrays' = arrays /\ start' = start /\ end' = end
    BY <1>5 DEF bus_remap, memories
  <2>2. SoundPlugs'
    BY <1>0, <2>1 DEF SoundPlugs, IsPlugged
  <2>3. CASE bus' = Mapped(c, start[c], end[c], offset)
    <3>1. start[c] \in Addrs /\ end[c] \in Addrs /\ offset \in Nat
      BY <1>0 DEF TypeOK, Addrs
    <3>2. start[c] < end[c] /\ \A a \in start[c] .. end[c] : a \in Span(c)
      BY <1>5 DEF IsPlugged, Span
    <3>3. SetRange(c, start[c], end[c])
      BY <1>0, <2>1 DEF SetRange, TypeOK
    <3>4. ExactMapping'
      BY <1>5, <2>1, <2>3, <3>1, <3>2, <3>3, MappingIsExact
    <3> QED BY <2>2, <3>4
  <2>4. CASE bus' = bus
    BY <1>0, <2>1, <2>2, <2>4, StillExact DEF IsPlugged
  <2> QED BY <1>5, <2>3, <2>4 DEF bus_remap
<1>6. ASSUME IsPlugged(c), bus_unplug(c)
      PROVE  SoundPlugs' /\ ExactMapping'
  <2>1. \A d \in Components : IsPlugged(d)' => IsPlugged(d)
    BY <1>0, <1>6 DEF bus_unplug, SetRange, IsPlugged, TypeOK
  <2>2. mem' = mem /\ structs' = structs /\ arrays' = arrays
    BY <1>6 DEF bus_unplug, memories
  <2> QED BY <1>0, <1>6, <2>1, <2>2, UnplugIsExact DEF SoundPlugs
<1>7. ASSUME Plain(c), ~IsShared(c), component_free(c)
      PROVE  SoundPlugs' /\ ExactMapping'
  <2>1. /\ bus' = bus /\ ~IsPlugged(c) /\ ~IsPlugged(c)'
        /\ \A d \in Components \ { c } : /\ start'[d] = start[d] /\ end'[d] = end[d]
                                         /\ mem'[d] = mem[d]
    BY <1>0, <1>7 DEF component_free, Plain, SetRange, IsPlugged, TypeOK
  <2>2. structs' = arrays' /\ arrays' = arrays \ { mem[c] }
    BY <1>0, <1>7 DEF component_free, SoundPlugs
  <2>3. \A d \in Components \ { c } : mem[d] # mem[c]
    BY <1>7 DEF IsShared
  <2> QED BY <1>0, <2>1, <2>2, <2>3, UnpluggedCallIsExact DEF SoundPlugs
<1> QED BY <1>1, <1>2, <1>3, <1>4, <1>5, <1>6, <1>7 DEF CarefulCall, Addrs

LEMMA InitCareful == Init => CarefulInv
<1> SUFFICES ASSUME Init PROVE CarefulInv
  OBVIOUS
<1>1. \A c \in Components : ~IsPlugged(c)
  BY DEF Init, IsPlugged
<1>2. ExactMapping
  BY <1>1 DEF Init, ExactMapping, RangesDisjoint, MappedInOrder, NothingElse
<1>3. SoundPlugs
  BY <1>1 DEF Init, SoundPlugs
<1> QED BY <1>2, <1>3, InitInBounds DEF CarefulInv

LEMMA CarefulStep == CarefulInv /\ [CarefulNext]_vars => CarefulInv'
<1>1. ASSUME CarefulInv, NEW c \in Components, CarefulCall(c)
      PROVE  CarefulInv'
  BY <1>1, ClientsCall, OperationKeepsBounds, CarefulCallKeeps DEF CarefulInv
<1>2. ASSUME CarefulInv, UNCHANGED vars
      PROVE  CarefulInv'
  <2>1. TypeOK' /\ MappedInBounds'
    BY <1>2, UnchangedInBounds DEF CarefulInv
  <2>2. SoundPlugs' /\ ExactMapping'
    BY <1>2, StillExact DEF CarefulInv, SoundPlugs, IsPlugged, vars, memories
  <2> QED BY <2>1, <2>2 DEF CarefulInv
<1> QED BY <1>1, <1>2 DEF CarefulNext

(* For a careful client the bus is exactly what the components say.         *)
THEOREM MappingStaysExact == CarefulSpec => []ExactMapping
<1>1. CarefulInv => ExactMapping
  BY DEF CarefulInv
<1> QED BY InitCareful, CarefulStep, <1>1, PTL DEF CarefulSpec

(* And no address points into freed memory.                                 *)
THEOREM NothingDangles == CarefulSpec => []MappedIsLive
<1>1. CarefulInv => MappedIsLive
  <2> SUFFICES ASSUME CarefulInv, NEW a \in Addrs, bus[a] # NULL
               PROVE  bus[a].block \in arrays
    BY DEF MappedIsLive
  <2>1. PICK d \in Components : IsPlugged(d) /\ a \in Span(d)
    BY DEF CarefulInv, ExactMapping, NothingElse
  <2>2. bus[a].block = mem[d]
    BY <2>1, PluggedIsMapped
  <2> QED BY <2>1, <2>2 DEF CarefulInv, SoundPlugs
<1> QED BY InitCareful, CarefulStep, <1>1, PTL DEF CarefulSpec

-----------------------------------------------------------------------------
(* Arrays are as long as some size, so that every plugged byte is a cell.   *)
LengthsFit == \A b \in Blocks : length[b] <= MaxLength

(* Until the next call, what was stored successfully is there.              *)
StoredIsThere ==
  stored # NothingStored /\ result = "ERR_NONE" /\ ~crashed =>
    /\ \A a \in DOMAIN stored : a \in Addrs /\ bus[a] # NULL
    /\ (\A x, y \in DOMAIN stored : x # y => bus[x] # bus[y]) =>
         \A a \in DOMAIN stored : memory[bus[a]] = stored[a]

DataInv ==
  /\ CarefulInv /\ LengthsFit
  /\ DOMAIN memory = Cells
  /\ StoredIsThere /\ OnlyWordsAtAnEndGoAstray

-----------------------------------------------------------------------------
LEMMA PluggedIsACell ==
  ASSUME CarefulInv, LengthsFit, NEW a \in Addrs, bus[a] # NULL
  PROVE  /\ bus[a] \in Cells
         /\ \E c \in Components : IsPlugged(c) /\ a \in Span(c) /\ bus[a].block = mem[c]
<1>1. PICK c \in Components : IsPlugged(c) /\ a \in Span(c)
  BY DEF CarefulInv, ExactMapping, NothingElse
<1>2. bus[a].block = mem[c]
  BY <1>1, PluggedIsMapped
<1>3. /\ bus[a] \in [block : 0 .. MaxBlocks, at : Nat]
      /\ bus[a].block \in 1 .. used /\ bus[a].at < length[bus[a].block]
  BY DEF CarefulInv, TypeOK, MappedInBounds, PointsInside
<1>4. bus[a].block \in Blocks /\ MaxLength \in Nat
  BY <1>3, BusAssumption, DataAssumption DEF CarefulInv, TypeOK, Blocks
<1>5. length[bus[a].block] \in Nat /\ length[bus[a].block] <= MaxLength
  BY <1>4 DEF CarefulInv, TypeOK, LengthsFit
<1>6. bus[a].at \in 0 .. MaxLength - 1
  BY <1>3, <1>4, <1>5
<1> QED BY <1>1, <1>2, <1>3, <1>4, <1>6 DEF Cells

(* A load or store leaves the invariant of the mapping alone.               *)
LEMMA AccessKeepsTheMapping ==
  ASSUME CarefulInv, LengthsFit, UNCHANGED << bus, start, end, memories >>, result' \in Codes
  PROVE  CarefulInv' /\ LengthsFit'
<1>1. TypeOK' /\ MappedInBounds'
  BY DEF CarefulInv, TypeOK, MappedInBounds, PointsInside, memories
<1>2. SoundPlugs' /\ ExactMapping'
  BY StillExact DEF CarefulInv, SoundPlugs, IsPlugged, memories
<1>3. LengthsFit'
  BY DEF LengthsFit, memories
<1> QED BY <1>1, <1>2, <1>3 DEF CarefulInv

LEMMA CallKeepsLengths ==
  ASSUME CarefulInv, LengthsFit, CarefulNext
  PROVE  LengthsFit'
<1>1. PICK c \in Components : Operation(c)
  BY ClientsCall DEF CarefulNext
<1>2. CASE \E size \in Sizes : component_create(c, size)
  <2>1. PICK size \in Sizes : component_create(c, size)
    BY <1>2
  <2>2. size <= MaxLength /\ length \in [Blocks -> Nat]
    BY DataAssumption DEF CarefulInv, TypeOK
  <2>3. length' = length \/ length' = [length EXCEPT ![used + 1] = size]
    BY <2>1 DEF component_create, CreateEmpty, Allocate, NoStruct, NoArray
  <2> QED BY <2>2, <2>3 DEF LengthsFit
<1>3. CASE \E old \in Components : component_shared(c, old)
  BY <1>3 DEF component_shared, LengthsFit
<1>4. CASE mem_free(c) \/ component_free(c)
  BY <1>4 DEF mem_free, component_free, LengthsFit
<1>5. CASE bus_unplug(c)
  BY <1>5 DEF bus_unplug, memories, LengthsFit
<1>6. CASE \E offset \in Addrs : bus_remap(c, offset)
  BY <1>6 DEF bus_remap, memories, LengthsFit
<1>7. CASE \E s, e \in Addrs : bus_plug(c, s, e)
  BY <1>7 DEF bus_plug, bus_forced_plug, memories, LengthsFit
<1>8. CASE \E s, e, offset \in Addrs : bus_forced_plug(c, s, e, offset)
  BY <1>8 DEF bus_forced_plug, memories, LengthsFit
<1> QED BY <1>1, <1>2, <1>3, <1>4, <1>5, <1>6, <1>7, <1>8 DEF Operation

-----------------------------------------------------------------------------
LEMMA InitHolds == DataInit => DataInv
<1> SUFFICES ASSUME DataInit PROVE DataInv
  OBVIOUS
<1>1. CarefulInv
  BY InitCareful DEF DataInit
<1>2. LengthsFit
  BY DataAssumption DEF DataInit, Init, LengthsFit
<1>3. DOMAIN memory = Cells /\ stored = NothingStored /\ crashed = FALSE
  BY DEF DataInit
<1> QED BY <1>1, <1>2, <1>3 DEF DataInv, StoredIsThere, OnlyWordsAtAnEndGoAstray

LEMMA ByteStoreKeepsInv ==
  ASSUME DataInv, NEW a \in Addrs, NEW v \in Bytes, bus_write(a, v),
         UNCHANGED << bus, start, end, memories >>
  PROVE  DataInv'
<1>1. CarefulInv' /\ LengthsFit'
  BY AccessKeepsTheMapping DEF DataInv, bus_write, Store, Codes
<1>2. stored' = [x \in { a } |-> v] /\ crashed' = FALSE /\ bus' = bus
  BY DEF bus_write, Store
<1>3. CASE bus[a] = NULL
  <2>1. memory' = memory /\ result' = "ERR_BAD_PARAMETER"
    BY <1>3 DEF bus_write, Store
  <2> QED BY <1>1, <1>2, <2>1 DEF DataInv, StoredIsThere, OnlyWordsAtAnEndGoAstray
<1>4. CASE bus[a] # NULL
  <2>1. memory' = [memory EXCEPT ![bus[a]] = v]
    BY <1>4 DEF bus_write, Store
  <2>2. bus[a] \in Cells
    BY <1>4, PluggedIsACell DEF DataInv
  <2>3. memory'[bus[a]] = v /\ DOMAIN memory' = Cells
    BY <2>1, <2>2 DEF DataInv
  <2>4. StoredIsThere'
    BY <1>2, <1>4, <2>3 DEF StoredIsThere
  <2> QED BY <1>1, <1>2, <2>3, <2>4 DEF DataInv, OnlyWordsAtAnEndGoAstray
<1> QED BY <1>3, <1>4

LEMMA WordStoreKeepsInv ==
  ASSUME DataInv, NEW a \in Addrs, NEW low, NEW high, bus_write16(a, low, high),
         UNCHANGED << bus, start, end, memories >>
  PROVE  DataInv'
<1>1. CarefulInv' /\ LengthsFit'
  <2>1. result' \in Codes
    BY DEF DataInv, CarefulInv, TypeOK, bus_write16, Store, Codes
  <2> QED BY <2>1, AccessKeepsTheMapping DEF DataInv
<1>2. stored' = [x \in { a, a + 1 } |-> IF x = a THEN low ELSE high] /\ bus' = bus
      /\ start' = start /\ end' = end /\ mem' = mem
  BY DEF bus_write16, memories
<1>3. a \in Int /\ Top \in Nat /\ Addrs = 0 .. Top
  BY BusAssumption DEF Addrs
<1>4. CASE (bus[a] = NULL \/ (bus[a] # NULL /\ a = Top)) /\ memory' = memory /\ crashed' = FALSE
           /\ result' \in { "ERR_BAD_PARAMETER", "ERR_ADDRESS" }
  BY <1>1, <1>2, <1>4 DEF DataInv, StoredIsThere, OnlyWordsAtAnEndGoAstray
<1>5. CASE /\ bus[a] # NULL /\ a < Top /\ bus[a + 1] = NULL
           /\ crashed' = TRUE /\ memory' = [memory EXCEPT ![bus[a]] = low]
  <2>1. PICK c \in Components : IsPlugged(c) /\ a \in Span(c)
    BY <1>5, PluggedIsACell DEF DataInv
  <2>2. \A d \in Components : IsPlugged(d) => a + 1 \notin Span(d)
    BY <1>5, PluggedIsMapped DEF DataInv
  <2>3. start[c] \in Int /\ end[c] \in Int
    BY <1>3 DEF DataInv, CarefulInv, TypeOK
  <2>4. a = end[c]
    BY <1>3, <2>1, <2>2, <2>3 DEF Span
  <2>5. DOMAIN stored' = { end[c], end[c] + 1 }
    BY <1>2, <2>4
  <2>6. OnlyWordsAtAnEndGoAstray'
    BY <1>2, <2>1, <2>2, <2>4, <2>5 DEF OnlyWordsAtAnEndGoAstray, IsPlugged, Span
  <2> QED BY <1>1, <1>5, <2>6 DEF DataInv, StoredIsThere
<1>6. CASE /\ bus[a] # NULL /\ a < Top /\ bus[a + 1] # NULL /\ crashed' = FALSE
           /\ memory' = [memory EXCEPT ![bus[a]] = low, ![bus[a + 1]] = high]
  <2>1. a + 1 \in Addrs /\ a + 1 # a
    BY <1>3, <1>6
  <2>2. bus[a] \in Cells /\ bus[a + 1] \in Cells
    BY <1>6, <2>1, PluggedIsACell DEF DataInv
  <2>3. DOMAIN memory' = Cells /\ memory'[bus[a + 1]] = high
        /\ (bus[a] # bus[a + 1] => memory'[bus[a]] = low)
    BY <1>6, <2>2 DEF DataInv
  <2>4. DOMAIN stored' = { a, a + 1 } /\ stored'[a] = low /\ stored'[a + 1] = high
    BY <1>2, <2>1
  <2>5. StoredIsThere'
    BY <1>2, <1>6, <2>1, <2>3, <2>4 DEF StoredIsThere
  <2> QED BY <1>1, <1>6, <2>3, <2>5 DEF DataInv, OnlyWordsAtAnEndGoAstray
<1> QED BY <1>4, <1>5, <1>6 DEF bus_write16, Store

LEMMA StepKeepsInv == DataInv /\ [DataNext]_<< vars, dataVars >> => DataInv'
<1> SUFFICES ASSUME DataInv, [DataNext]_<< vars, dataVars >> PROVE DataInv'
  OBVIOUS
<1>1. CASE Access
  <2>1. CASE \E a \in Addrs, v \in Bytes : bus_write(a, v)
    BY <1>1, <2>1, ByteStoreKeepsInv DEF Access
  <2>2. CASE \E a \in Addrs, w \in Words : bus_write16(a, w.low, w.high)
    BY <1>1, <2>2, WordStoreKeepsInv DEF Access
  <2> QED BY <1>1, <2>1, <2>2 DEF Access
<1>2. CASE Call
  <2>1. CarefulInv'
    BY <1>2, CarefulStep DEF Call, DataInv
  <2>2. LengthsFit'
    BY <1>2, CallKeepsLengths DEF Call, DataInv
  <2>3. memory' = memory /\ stored' = NothingStored /\ crashed' = crashed /\ ~crashed
    BY <1>2 DEF Call
  <2> QED BY <2>1, <2>2, <2>3 DEF DataInv, StoredIsThere, OnlyWordsAtAnEndGoAstray
<1>3. CASE UNCHANGED << vars, dataVars >>
  <2>1. CarefulInv'
    BY <1>3, CarefulStep DEF DataInv
  <2>2. /\ UNCHANGED << bus, start, end, memories, result, memory, stored, crashed >>
    BY <1>3 DEF vars, dataVars
  <2>3. LengthsFit' /\ StoredIsThere'
    BY <2>2 DEF DataInv, LengthsFit, StoredIsThere, memories
  <2>4. OnlyWordsAtAnEndGoAstray'
    BY <2>2 DEF DataInv, OnlyWordsAtAnEndGoAstray, IsPlugged, Span
  <2> QED BY <2>1, <2>2, <2>3, <2>4 DEF DataInv
<1> QED BY <1>1, <1>2, <1>3 DEF DataNext

-----------------------------------------------------------------------------
(* What a successful store stored is read back, in bytes and in words, with *)
(* any components next to each other or sharing memory.                     *)
THEOREM StoresAreReadBack == DataSpec => []ReadsBackWhatItStored
<1>1. DataInv => ReadsBackWhatItStored
  <2> SUFFICES ASSUME DataInv, stored # NothingStored, result = "ERR_NONE", ~crashed
               PROVE  /\ (\A x, y \in DOMAIN stored : x # y => bus[x] # bus[y]) =>
                           \A a \in DOMAIN stored : bus_read(a) = stored[a]
                      /\ \A a \in DOMAIN stored : a + 1 \in DOMAIN stored =>
                           bus_read16(a) = [low |-> bus_read(a), high |-> bus_read(a + 1)]
    BY DEF ReadsBackWhatItStored
  <2>1. /\ \A a \in DOMAIN stored : a \in Addrs /\ bus[a] # NULL
        /\ (\A x, y \in DOMAIN stored : x # y => bus[x] # bus[y]) =>
             \A a \in DOMAIN stored : memory[bus[a]] = stored[a]
    BY DEF DataInv, StoredIsThere
  <2>2. \A a \in DOMAIN stored : a + 1 \in DOMAIN stored => a # Top
    BY <2>1, BusAssumption DEF Addrs
  <2> QED BY <2>1, <2>2 DEF bus_read, bus_read16
<1> QED BY InitHolds, StepKeepsInv, <1>1, PTL DEF DataSpec

(* A store goes astray only as a word at the last address of a component    *)
(* with nothing plugged behind it.                                          *)
THEOREM AstrayOnlyAtAnEnd == DataSpec => []OnlyWordsAtAnEndGoAstray
<1>1. DataInv => OnlyWordsAtAnEndGoAstray
  BY DEF DataInv
<1> QED BY InitHolds, StepKeepsInv, <1>1, PTL DEF DataSpec

(* A component's bytes change only by stores within its own range, or the   *)
(* range of one it shares its memory with.                                  *)
THEOREM StoresReachNoOtherComponent == DataSpec => StoresStayInTheirComponent
<1>1. DataInv /\ [DataNext]_<< vars, dataVars >> =>
        [\A c \in Components : \A cell \in Cells :
           mem[c] = cell.block /\ memory'[cell] # memory[cell] => StoredWithin(c)']_<< vars, dataVars >>
  <2> SUFFICES ASSUME DataInv, DataNext, NEW c \in Components, NEW cell \in Cells,
                      mem[c] = cell.block, memory'[cell] # memory[cell]
               PROVE  StoredWithin(c)'
    OBVIOUS
  <2>1. Access
    BY DEF DataNext, Call
  <2>2. PICK a \in Addrs : /\ a \in DOMAIN stored' /\ bus[a] # NULL /\ cell = bus[a]
    <3>1. CASE \E a \in Addrs, v \in Bytes : bus_write(a, v)
      <4>1. PICK a \in Addrs, v \in Bytes : bus_write(a, v)
        BY <3>1
      <4>2. bus[a] # NULL /\ memory' = [memory EXCEPT ![bus[a]] = v] /\ a \in DOMAIN stored'
        BY <4>1 DEF bus_write, Store
      <4> QED BY <4>2 DEF DataInv
    <3>2. CASE \E a \in Addrs, w \in Words : bus_write16(a, w.low, w.high)
      <4>1. PICK a \in Addrs, w \in Words : bus_write16(a, w.low, w.high)
        BY <3>2
      <4>2. DOMAIN stored' = { a, a + 1 }
        BY <4>1 DEF bus_write16
      <4>3. a \in Int /\ Top \in Nat /\ Addrs = 0 .. Top
        BY BusAssumption DEF Addrs
      <4>4. \/ bus[a] # NULL /\ memory' = [memory EXCEPT ![bus[a]] = w.low]
            \/ bus[a] # NULL /\ a < Top /\ bus[a + 1] # NULL
               /\ memory' = [memory EXCEPT ![bus[a]] = w.low, ![bus[a + 1]] = w.high]
        BY <4>1 DEF bus_write16, Store
      <4>5. cell = bus[a] \/ (cell = bus[a + 1] /\ bus[a + 1] # NULL /\ a < Top)
        BY <4>4 DEF DataInv
      <4>6. a < Top => a + 1 \in Addrs
        BY <4>3
      <4> QED BY <4>2, <4>4, <4>5, <4>6
    <3> QED BY <2>1, <3>1, <3>2 DEF Access
  <2>3. PICK d \in Components : IsPlugged(d) /\ a \in Span(d) /\ bus[a].block = mem[d]
    BY <2>2, PluggedIsACell DEF DataInv
  <2>4. start' = start /\ end' = end /\ mem' = mem
    BY <2>1 DEF Access, memories
  <2> QED BY <2>2, <2>3, <2>4 DEF StoredWithin, IsPlugged, Span
<1> QED BY InitHolds, StepKeepsInv, <1>1, PTL DEF DataSpec, StoresStayInTheirComponent
=============================================================================
