--------------------------- MODULE Gameboy_proofs ---------------------------
(***************************************************************************)
(* What gameboy_create and gameboy_free keep true of the bus wherever an   *)
(* allocation or the cartridge file makes creation stop, for every layout  *)
(* in which REG_IF is one of the registers: outside the work RAM and its   *)
(* echo no address points into freed memory, and nothing is left there in  *)
(* the end.  The registers can never be plugged, cpu_plug having put REG_IF *)
(* on the bus before them, and the proof needs it: gameboy_free unplugs    *)
(* the registers and what comes after them only if all of it was plugged.  *)
(***************************************************************************)
EXTENDS Gameboy, TLAPS

(* The components that are ever on the bus outside the work RAM             *)
Own == { "high_ram", "cartridge" }

(* Their memories are their own, and none is the cpu_t                      *)
Heap ==
  /\ used \in Nat \ {0} /\ arrays \subseteq 1 .. used /\ CPURegisters \in arrays
  /\ mem \in [Components -> 0 .. used]
  /\ \A c \in Components : mem[c] # CPURegisters
  /\ \A c \in Own, d \in Components : c # d /\ mem[c] = mem[d] => mem[c] = 0

OwnedBy(a, c) ==
  IsPlugged(c) /\ a \in Span(c) /\ bus[a].block = mem[c] /\ mem[c] \in arrays

(* Outside the work RAM an address is the cpu_t's or its component's        *)
Owned ==
  \A a \in Addrs \ WorkRAM :
    bus[a] = NULL \/ bus[a].block = CPURegisters \/ \E c \in Own : OwnedBy(a, c)

Sound ==
  /\ bus \in [Addrs -> [block : Nat, at : Int]]
  /\ start \in [Components -> Addrs] /\ end \in [Components -> Addrs]
  /\ Heap /\ Owned

(* No address is the cpu_t's                                                *)
Unpointed == \A a \in Addrs : bus[a].block # CPURegisters

(* At most those of IF and IE are                                           *)
OnlyTheFlags == \A a \in Addrs \ { RegIF, RegIE } : bus[a].block # CPURegisters

-----------------------------------------------------------------------------
(* Each call on its own: what it keeps, and what it leaves alone.           *)
LEMMA PartsAreComponents ==
  /\ Parts \subseteq Components /\ Own \subseteq Components
  /\ Area \in [Components -> Addrs \X Addrs]
  /\ \A c \in Components : First(c) \in Addrs /\ Last(c) \in Addrs
  /\ RegIF \in Addrs /\ RegIE \in Addrs /\ Top \in Nat /\ 0 \in Addrs
BY BusAssumption, LayoutAssumption DEF Parts, Own, First, Last, Addrs

(* component_create                                                         *)
LEMMA CreateKeepsSound ==
  ASSUME Sound, NEW c \in Components, NEW size, component_create(c, size),
         c \in Own => ~IsPlugged(c)
  PROVE  /\ Sound' /\ bus' = bus
         /\ \A d \in Components : IsPlugged(d)' => IsPlugged(d)
<1>0. 0 \in Addrs /\ Own \subseteq Components
  BY PartsAreComponents
<1>1. /\ bus' = bus
      /\ \A d \in Components \ { c } : start'[d] = start[d] /\ end'[d] = end[d]
      /\ \/ start'[c] = 0 /\ end'[c] = 0
         \/ start'[c] = start[c] /\ end'[c] = end[c]
      /\ start' \in [Components -> Addrs] /\ end' \in [Components -> Addrs]
      /\ \/ used' = used /\ arrays' = arrays /\ mem' = [mem EXCEPT ![c] = 0]
         \/ /\ used' = used + 1 /\ mem' = [mem EXCEPT ![c] = used + 1]
            /\ arrays' = arrays \/ arrays' = arrays \cup { used + 1 }
  <2> USE <1>0 DEF Sound, SetRange, memories
  <2>1. CASE CreateEmpty(c)
    BY <2>1 DEF CreateEmpty
  <2>2. CASE Allocate(c, size)
    BY <2>2 DEF Allocate
  <2>3. CASE NoStruct(c)
    BY <2>3 DEF NoStruct
  <2>4. CASE NoArray(c)
    BY <2>4 DEF NoArray
  <2> QED BY <2>1, <2>2, <2>3, <2>4 DEF component_create
<1>2. \A d \in Components : IsPlugged(d)' => IsPlugged(d)
  BY <1>1 DEF IsPlugged, Sound
<1>3. Heap'
  <2>0. used \in Nat \ {0} /\ arrays \subseteq 1 .. used /\ mem \in [Components -> 0 .. used]
    BY DEF Sound, Heap
  <2>1. CASE used' = used /\ arrays' = arrays /\ mem' = [mem EXCEPT ![c] = 0]
    BY <1>0, <2>1 DEF Sound, Heap, CPURegisters
  <2>2. CASE used' = used + 1 /\ mem' = [mem EXCEPT ![c] = used + 1]
    <3>1. arrays' \subseteq 1 .. used' /\ CPURegisters \in arrays'
      <4>1. CASE arrays' = arrays
        BY <2>0, <2>2, <4>1 DEF Sound, Heap
      <4>2. CASE arrays' = arrays \cup { used + 1 }
        BY <2>0, <2>2, <4>2 DEF Sound, Heap
      <4> QED BY <1>1, <2>0, <2>2, <4>1, <4>2
    <3>2. \A d \in Components : IF d = c THEN mem'[d] = used + 1 ELSE mem'[d] = mem[d]
      BY <2>0, <2>2
    <3>3. \A d \in Components : mem'[d] \in 0 .. used' /\ mem'[d] # CPURegisters
      BY <2>0, <2>2, <3>2 DEF Sound, Heap, CPURegisters
    <3>4. \A d \in Own, f \in Components : d # f /\ mem'[d] = mem'[f] => mem'[d] = 0
      BY <1>0, <2>0, <3>2 DEF Sound, Heap
    <3> QED BY <2>0, <2>2, <3>1, <3>3, <3>4 DEF Heap
  <2> QED BY <1>1, <2>1, <2>2
<1>4. ASSUME NEW a \in Addrs, NEW d \in Own, OwnedBy(a, d)
      PROVE  OwnedBy(a, d)'
  BY <1>0, <1>1, <1>4 DEF Sound, Heap, OwnedBy, IsPlugged, Span
<1>5. Owned'
  BY <1>1, <1>4 DEF Sound, Owned, NULL
<1> QED BY <1>1, <1>2, <1>3, <1>5 DEF Sound

(* bus_plug, of one of its own in its place or of any other inside the work *)
(* RAM: what is on the bus stays                                            *)
LEMMA PlugKeepsSound ==
  ASSUME Sound, NEW c \in Components, NEW s \in Addrs, NEW e \in Addrs, bus_plug(c, s, e),
         \/ c \in Own /\ ~IsPlugged(c)
         \/ c \notin Own /\ s .. e \subseteq WorkRAM
  PROVE  /\ Sound'
         /\ \A d \in Components \ { c } : IsPlugged(d)' = IsPlugged(d)
         /\ \A a \in Addrs : bus[a] # NULL => bus'[a] = bus[a]
         /\ (Unpointed => Unpointed') /\ (OnlyTheFlags => OnlyTheFlags')
<1>0. Own \subseteq Components /\ Top \in Nat /\ 0 \in Addrs
  BY PartsAreComponents
<1>1. /\ mem' = mem /\ used' = used /\ arrays' = arrays
      /\ start' \in [Components -> Addrs] /\ end' \in [Components -> Addrs]
      /\ \A d \in Components \ { c } : start'[d] = start[d] /\ end'[d] = end[d]
  BY <1>0 DEF Sound, bus_plug, bus_forced_plug, memories, SetRange
<1>2. \/ bus' = bus
      \/ /\ Free(s, e) /\ Backed(c) /\ bus' = Mapped(c, s, e, 0)
         /\ start'[c] = s /\ end'[c] = e
  BY DEF Sound, bus_plug, bus_forced_plug, SetRange
<1>3. ASSUME NEW a \in Addrs
      PROVE  \/ bus'[a] = bus[a]
             \/ /\ bus[a] = NULL /\ bus'[a] \in [block : { mem[c] }, at : Int]
                /\ a \in s .. e /\ s < e /\ Backed(c) /\ start'[c] = s /\ end'[c] = e
  BY <1>0, <1>2 DEF Mapped, Free, Addrs
<1>4. bus' \in [Addrs -> [block : Nat, at : Int]]
  <2>1. mem[c] \in Nat
    BY DEF Sound, Heap
  <2>2. \A a \in Addrs : bus'[a] \in [block : Nat, at : Int]
    BY <1>3, <2>1 DEF Sound
  <2> QED BY <1>2, <2>2 DEF Sound, Mapped
<1>5. Heap'
  BY <1>1 DEF Sound, Heap
<1>6. ASSUME NEW a \in Addrs, NEW d \in Own \ { c }, OwnedBy(a, d), bus'[a] = bus[a]
      PROVE  OwnedBy(a, d)'
  BY <1>0, <1>1, <1>6 DEF OwnedBy, IsPlugged, Span
<1>7. Owned'
  <2> SUFFICES ASSUME NEW a \in Addrs \ WorkRAM
               PROVE  (bus[a] = NULL \/ bus[a].block = CPURegisters \/ \E d \in Own : OwnedBy(a, d))'
    BY DEF Owned, WorkRAM, First, Last
  <2>1. CASE bus'[a] = bus[a]
    <3>1. \A d \in Own : OwnedBy(a, d) => d # c
      BY DEF OwnedBy
    <3> QED BY <2>1, <1>6, <3>1 DEF Sound, Owned, NULL
  <2>2. CASE bus'[a] # bus[a]
    <3>1. /\ bus'[a].block = mem[c] /\ a \in s .. e /\ s < e /\ mem[c] \in arrays
          /\ start'[c] = s /\ end'[c] = e
      BY <1>3, <2>2 DEF Backed
    <3>2. c \in Own
      BY <3>1
    <3>3. OwnedBy(a, c)'
      BY <1>1, <3>1 DEF OwnedBy, IsPlugged, Span
    <3> QED BY <3>2, <3>3
  <2> QED BY <2>1, <2>2
<1>8. (Unpointed => Unpointed') /\ (OnlyTheFlags => OnlyTheFlags')
  BY <1>3 DEF Unpointed, OnlyTheFlags, Sound, Heap
<1>9. \A d \in Components \ { c } : IsPlugged(d)' = IsPlugged(d)
  BY <1>1 DEF IsPlugged
<1> QED BY <1>1, <1>3, <1>4, <1>5, <1>7, <1>8, <1>9 DEF Sound

(* bus_unplug                                                               *)
LEMMA UnplugKeepsSound ==
  ASSUME Sound, NEW c \in Components, bus_unplug(c)
  PROVE  /\ Sound' /\ ~IsPlugged(c)'
         /\ \A d \in Components : IsPlugged(d)' => IsPlugged(d)
         /\ (Unpointed => Unpointed') /\ (OnlyTheFlags => OnlyTheFlags')
<1>0. Own \subseteq Components /\ 0 \in Addrs /\ Top \in Nat
  BY PartsAreComponents
<1>1. /\ mem' = mem /\ used' = used /\ arrays' = arrays
      /\ start' = [start EXCEPT ![c] = 0] /\ end' = [end EXCEPT ![c] = 0]
      /\ bus' = Cleared(c)
  BY DEF bus_unplug, memories, SetRange
<1>2. ASSUME NEW a \in Addrs
      PROVE  /\ bus'[a] = bus[a] \/ bus'[a] = NULL
             /\ start[c] <= a /\ a <= end[c] => bus'[a] = NULL
  BY <1>1 DEF Cleared
<1>3. bus' \in [Addrs -> [block : Nat, at : Int]]
  BY <1>1 DEF Sound, Cleared, NULL
<1>4. Heap'
  BY <1>1 DEF Sound, Heap
<1>5. start' \in [Components -> Addrs] /\ end' \in [Components -> Addrs]
  BY <1>0, <1>1 DEF Sound
<1>6. Owned'
  <2> SUFFICES ASSUME NEW a \in Addrs \ WorkRAM, bus'[a] # NULL, bus'[a].block # CPURegisters
               PROVE  \E d \in Own : OwnedBy(a, d)'
    BY DEF Owned, WorkRAM, First, Last
  <2>1. bus'[a] = bus[a] /\ ~(start[c] <= a /\ a <= end[c])
    BY <1>2
  <2>2. PICK d \in Own : OwnedBy(a, d)
    BY <2>1 DEF Sound, Owned
  <2>3. d # c
    BY <1>0, <2>1, <2>2 DEF OwnedBy, Span, Sound, Addrs
  <2>4. OwnedBy(a, d)'
    BY <1>0, <1>1, <2>1, <2>2, <2>3 DEF OwnedBy, IsPlugged, Span, Sound
  <2> QED BY <2>4
<1>7. (Unpointed => Unpointed') /\ (OnlyTheFlags => OnlyTheFlags')
  BY <1>2 DEF Unpointed, OnlyTheFlags, NULL, CPURegisters
<1>8. ~IsPlugged(c)' /\ \A d \in Components : IsPlugged(d)' => IsPlugged(d)
  BY <1>0, <1>1 DEF IsPlugged, Sound
<1> QED BY <1>3, <1>4, <1>5, <1>6, <1>7, <1>8 DEF Sound

(* component_free, of what is not plugged                                   *)
LEMMA FreeKeepsSound ==
  ASSUME Sound, NEW c \in Components, component_free(c), c \in Own => ~IsPlugged(c)
  PROVE  /\ Sound' /\ bus' = bus
         /\ \A d \in Components : IsPlugged(d)' => IsPlugged(d)
<1>0. Own \subseteq Components /\ 0 \in Addrs
  BY PartsAreComponents
<1>1. /\ bus' = bus /\ used' = used
      /\ arrays' = arrays \ { mem[c] } /\ mem' = [mem EXCEPT ![c] = 0]
      /\ start' = [start EXCEPT ![c] = 0] /\ end' = [end EXCEPT ![c] = 0]
  BY DEF component_free, SetRange
<1>2. start' \in [Components -> Addrs] /\ end' \in [Components -> Addrs]
  BY <1>0, <1>1 DEF Sound
<1>3. Heap'
  <2>1. \A d \in Components : IF d = c THEN mem'[d] = 0 ELSE mem'[d] = mem[d]
    BY <1>1 DEF Sound, Heap
  <2>2. mem' \in [Components -> 0 .. used'] /\ used' \in Nat \ {0}
    BY <1>1 DEF Sound, Heap
  <2>3. arrays' \subseteq 1 .. used' /\ CPURegisters \in arrays'
    BY <1>1 DEF Sound, Heap
  <2>4. \A d \in Components : mem'[d] # CPURegisters
    BY <2>1 DEF Sound, Heap, CPURegisters
  <2>5. \A d \in Own, f \in Components : d # f /\ mem'[d] = mem'[f] => mem'[d] = 0
    BY <1>0, <2>1 DEF Sound, Heap
  <2> QED BY <2>2, <2>3, <2>4, <2>5 DEF Heap
<1>4. ASSUME NEW a \in Addrs, NEW d \in Own, OwnedBy(a, d)
      PROVE  OwnedBy(a, d)'
  <2>1. d # c
    BY <1>4 DEF OwnedBy
  <2>2. mem[d] # mem[c] /\ mem'[d] = mem[d]
    BY <1>0, <1>1, <1>4, <2>1 DEF OwnedBy, Sound, Heap
  <2> QED BY <1>0, <1>1, <1>4, <2>1, <2>2 DEF OwnedBy, IsPlugged, Span, Sound
<1>5. Owned'
  BY <1>1, <1>4 DEF Sound, Owned, NULL
<1>6. \A d \in Components : IsPlugged(d)' => IsPlugged(d)
  BY <1>0, <1>1 DEF IsPlugged, Sound
<1> QED BY <1>1, <1>2, <1>3, <1>5, <1>6 DEF Sound

(* A call that changes neither the bus nor what the owned components say,   *)
(* nor frees their memories.                                                *)
LEMMA BesidesKeepsSound ==
  ASSUME Sound, bus' = bus, used' = used,
         start' \in [Components -> Addrs], end' \in [Components -> Addrs],
         mem' \in [Components -> 0 .. used],
         \A c \in Components : \E d \in Components \ Own : c \in Own \/ mem'[c] = mem[d],
         \A c \in Own : mem'[c] = mem[c] /\ start'[c] = start[c] /\ end'[c] = end[c],
         \E c \in Components \ Own : arrays' = arrays \/ arrays' = arrays \ { mem[c] }
  PROVE  Sound' /\ \A c \in Own : IsPlugged(c)' = IsPlugged(c)
<1>0. Own \subseteq Components
  BY PartsAreComponents
<1>1. arrays' \subseteq arrays /\ CPURegisters \in arrays'
      /\ \A c \in Own : mem[c] \in arrays => mem[c] \in arrays'
  <2> PICK c \in Components \ Own : arrays' = arrays \/ arrays' = arrays \ { mem[c] }
    OBVIOUS
  <2>1. CASE arrays' = arrays
    BY <2>1 DEF Sound, Heap
  <2>2. CASE arrays' = arrays \ { mem[c] }
    <3>1. \A d \in Own : mem[d] # mem[c] \/ mem[d] = 0
      BY <1>0 DEF Sound, Heap
    <3>2. 0 \notin arrays /\ mem[c] # CPURegisters /\ CPURegisters \in arrays
      BY DEF Sound, Heap
    <3> QED BY <2>2, <3>1, <3>2
  <2> QED BY <2>1, <2>2
<1>2. Heap'
  <2>1. used' \in Nat \ {0} /\ arrays' \subseteq 1 .. used' /\ CPURegisters \in arrays'
    BY <1>1 DEF Sound, Heap
  <2>2. \A c \in Components : mem'[c] # CPURegisters
    BY <1>0 DEF Sound, Heap
  <2>3. \A c \in Own, d \in Components : c # d /\ mem'[c] = mem'[d] => mem'[c] = 0
    <3> SUFFICES ASSUME NEW c \in Own, NEW d \in Components, c # d, mem'[c] = mem'[d]
                 PROVE  mem'[c] = 0
      OBVIOUS
    <3>1. CASE d \in Own
      BY <1>0, <3>1 DEF Sound, Heap
    <3>2. CASE d \notin Own
      <4> PICK f \in Components \ Own : mem'[d] = mem[f]
        BY <3>2
      <4> QED BY DEF Sound, Heap
    <3> QED BY <3>1, <3>2
  <2> QED BY <2>1, <2>2, <2>3 DEF Heap
<1>3. \A c \in Own : IsPlugged(c)' = IsPlugged(c) /\ \A a \in Addrs : OwnedBy(a, c) => OwnedBy(a, c)'
  BY <1>1 DEF OwnedBy, IsPlugged, Span
<1>4. Owned'
  BY <1>3 DEF Sound, Owned, NULL
<1> QED BY <1>2, <1>3, <1>4 DEF Sound

(* The echo shares the work RAM's memory, frees it and is copied            *)
LEMMA EchoKeepsSound ==
  ASSUME Sound, ShareEcho \/ mem_free("echo") \/ CopyEcho
  PROVE  Sound' /\ bus' = bus /\ \A c \in Own : IsPlugged(c)' = IsPlugged(c)
<1>0. { "echo", "echo_ram", "work_ram" } \subseteq Components \ Own /\ 0 \in Addrs
  BY PartsAreComponents DEF Parts, Own
<1>1. CASE ShareEcho
  <2>1. /\ UNCHANGED << bus, used, arrays >>
        /\ mem' = mem \/ mem' = [mem EXCEPT !["echo"] = mem["work_ram"]]
        /\ \/ UNCHANGED << start, end >>
           \/ start' = [start EXCEPT !["echo"] = 0] /\ end' = [end EXCEPT !["echo"] = 0]
    BY <1>1 DEF ShareEcho, component_shared, SetRange, memories
  <2>2. /\ start' \in [Components -> Addrs] /\ end' \in [Components -> Addrs]
        /\ \A c \in Own : start'[c] = start[c] /\ end'[c] = end[c]
    <3>1. CASE UNCHANGED << start, end >>
      BY <3>1 DEF Sound
    <3>2. CASE start' = [start EXCEPT !["echo"] = 0] /\ end' = [end EXCEPT !["echo"] = 0]
      BY <1>0, <3>2 DEF Sound
    <3> QED BY <2>1, <3>1, <3>2
  <2>3. /\ mem' \in [Components -> 0 .. used]
        /\ \A c \in Own : mem'[c] = mem[c]
        /\ \A c \in Components : \E d \in Components \ Own : c \in Own \/ mem'[c] = mem[d]
    <3>1. CASE mem' = mem
      BY <1>0, <3>1 DEF Sound, Heap
    <3>2. CASE mem' = [mem EXCEPT !["echo"] = mem["work_ram"]]
      BY <1>0, <3>2 DEF Sound, Heap
    <3> QED BY <2>1, <3>1, <3>2
  <2> QED BY <1>0, <2>1, <2>2, <2>3, BesidesKeepsSound
<1>2. CASE mem_free("echo")
  <2>1. /\ UNCHANGED << bus, used, mem, start, end >>
        /\ arrays' = arrays \/ arrays' = arrays \ { mem["echo"] }
    BY <1>2 DEF mem_free, SetRange, memories
  <2>2. /\ mem' \in [Components -> 0 .. used]
        /\ \A c \in Components : \E d \in Components \ Own : c \in Own \/ mem'[c] = mem[d]
    BY <1>0, <2>1 DEF Sound, Heap
  <2>3. \E c \in Components \ Own : arrays' = arrays \/ arrays' = arrays \ { mem[c] }
    BY <1>0, <2>1
  <2>4. start' \in [Components -> Addrs] /\ end' \in [Components -> Addrs]
    BY <2>1 DEF Sound
  <2> QED BY <2>1, <2>2, <2>3, <2>4, BesidesKeepsSound
<1>3. CASE CopyEcho
  <2>1. /\ UNCHANGED << bus, used, arrays >>
        /\ mem' = [mem EXCEPT !["echo_ram"] = mem["echo"]]
        /\ start' = [start EXCEPT !["echo_ram"] = start["echo"]]
        /\ end' = [end EXCEPT !["echo_ram"] = end["echo"]]
    BY <1>3 DEF CopyEcho, SetRange
  <2>2. /\ start' \in [Components -> Addrs] /\ end' \in [Components -> Addrs]
        /\ \A c \in Own : start'[c] = start[c] /\ end'[c] = end[c]
    BY <1>0, <2>1 DEF Sound
  <2>3. /\ mem' \in [Components -> 0 .. used]
        /\ \A c \in Own : mem'[c] = mem[c]
        /\ \A c \in Components : \E d \in Components \ Own : c \in Own \/ mem'[c] = mem[d]
    BY <1>0, <2>1 DEF Sound, Heap
  <2> QED BY <1>0, <2>1, <2>2, <2>3, BesidesKeepsSound
<1> QED BY <1>1, <1>2, <1>3

LEMMA ReadKeepsSound ==
  ASSUME Sound, ReadCartridge
  PROVE  Sound' /\ bus' = bus /\ \A c \in Components : IsPlugged(c)' = IsPlugged(c)
<1>1. UNCHANGED << bus, mem, used, arrays, start, end >>
  BY DEF ReadCartridge, memories
<1> QED BY <1>1 DEF Sound, Heap, Owned, OwnedBy, IsPlugged, Span, NULL

(* cpu_plug's stores into the bus                                           *)
LEMMA PointKeepsSound ==
  ASSUME Sound, PointRegisters([block |-> CPURegisters, at |-> 0], [block |-> CPURegisters, at |-> 1])
  PROVE  /\ Sound' /\ bus'[RegIF].block = CPURegisters
         /\ \A c \in Components : IsPlugged(c)' = IsPlugged(c)
         /\ Unpointed => OnlyTheFlags'
<1>0. RegIF \in Addrs /\ RegIE \in Addrs
  BY PartsAreComponents
<1>1. /\ UNCHANGED << mem, used, arrays, start, end >>
      /\ \A a \in Addrs : IF a \in { RegIF, RegIE } THEN bus'[a] \in [block : { CPURegisters }, at : Int]
                          ELSE bus'[a] = bus[a]
      /\ bus' \in [Addrs -> [block : Nat, at : Int]]
  BY <1>0 DEF Sound, PointRegisters, memories, CPURegisters
<1>2. Owned'
  BY <1>1 DEF Sound, Owned, OwnedBy, IsPlugged, Span, NULL
<1> QED BY <1>0, <1>1, <1>2 DEF Sound, Heap, IsPlugged, Unpointed, OnlyTheFlags

(* cpu_free's                                                               *)
LEMMA UnpointKeepsSound ==
  ASSUME Sound, PointRegisters(NULL, NULL)
  PROVE  /\ Sound' /\ \A c \in Components : IsPlugged(c)' = IsPlugged(c)
         /\ OnlyTheFlags => OnlyTheFlags' /\ Unpointed'
<1>0. RegIF \in Addrs /\ RegIE \in Addrs
  BY PartsAreComponents
<1>1. /\ UNCHANGED << mem, used, arrays, start, end >>
      /\ \A a \in Addrs : bus'[a] = IF a \in { RegIF, RegIE } THEN NULL ELSE bus[a]
      /\ bus' \in [Addrs -> [block : Nat, at : Int]]
  BY <1>0 DEF Sound, PointRegisters, memories, NULL
<1>2. Owned'
  BY <1>1 DEF Sound, Owned, OwnedBy, IsPlugged, Span, NULL
<1> QED BY <1>0, <1>1, <1>2 DEF Sound, Heap, IsPlugged, Unpointed, OnlyTheFlags, NULL, CPURegisters

-----------------------------------------------------------------------------
(* The steps of gameboy_create, up to the registers, and of gameboy_free     *)
LEMMA StepsOfCreate ==
  /\ Len(CreateSteps) = 24 /\ DOMAIN CreateSteps = 1 .. 24
  /\ CreateSteps[1].call = "create" /\ CreateSteps[1].c = "high_ram"
  /\ CreateSteps[2].call = "plug" /\ CreateSteps[2].c = "high_ram"
  /\ CreateSteps[3].call = "point"
  /\ CreateSteps[4].call = "create" /\ CreateSteps[4].c = "cartridge"
  /\ CreateSteps[5].call = "read"
  /\ CreateSteps[6].call = "plug" /\ CreateSteps[6].c = "cartridge"
  /\ CreateSteps[7].call = "create" /\ CreateSteps[7].c = "work_ram"
  /\ CreateSteps[8].call = "plug" /\ CreateSteps[8].c = "work_ram"
  /\ CreateSteps[9].call = "share"
  /\ CreateSteps[10].call = "plug" /\ CreateSteps[10].c = "echo"
  /\ CreateSteps[11].call = "mem_free" /\ CreateSteps[11].c = "echo"
  /\ CreateSteps[12].call = "copy"
  /\ CreateSteps[13].call = "create" /\ CreateSteps[13].c = "registers"
  /\ CreateSteps[14].call = "plug" /\ CreateSteps[14].c = "registers"
  /\ \A i \in { 1, 4, 5, 6, 7, 8, 9, 10, 13, 14 } : CreateSteps[i].checked
  /\ \A i \in { 2, 3, 11, 12 } : ~CreateSteps[i].checked
  /\ CreateSteps[1].in = "cpu_init"
  /\ CreateSteps[4].in = "cartridge_init" /\ CreateSteps[5].in = "cartridge_init"
  /\ \A i \in (1 .. 24) \ { 1, 4, 5 } : CreateSteps[i].in \in { "gameboy_create", "bootrom_init" }
  /\ \A i \in (1 .. 14) \ { 1, 4, 5 } : CreateSteps[i].in = "gameboy_create"
<1> USE DEF CreateSteps, CPUSteps, CartridgeSteps, CompInitAndPlug, EchoSteps, BootSteps,
            Tested, Untested, Step
<1>1. Len(CreateSteps) = 24
  OBVIOUS
<1>2. DOMAIN CreateSteps = 1 .. 24
  OBVIOUS
<1>3. /\ CreateSteps[1].call = "create" /\ CreateSteps[1].c = "high_ram"
      /\ CreateSteps[2].call = "plug" /\ CreateSteps[2].c = "high_ram"
      /\ CreateSteps[3].call = "point"
      /\ CreateSteps[4].call = "create" /\ CreateSteps[4].c = "cartridge"
      /\ CreateSteps[5].call = "read"
      /\ CreateSteps[6].call = "plug" /\ CreateSteps[6].c = "cartridge"
  OBVIOUS
<1>4. /\ CreateSteps[7].call = "create" /\ CreateSteps[7].c = "work_ram"
      /\ CreateSteps[8].call = "plug" /\ CreateSteps[8].c = "work_ram"
      /\ CreateSteps[9].call = "share"
      /\ CreateSteps[10].call = "plug" /\ CreateSteps[10].c = "echo"
  OBVIOUS
<1>5. /\ CreateSteps[11].call = "mem_free" /\ CreateSteps[11].c = "echo"
      /\ CreateSteps[12].call = "copy"
      /\ CreateSteps[13].call = "create" /\ CreateSteps[13].c = "registers"
      /\ CreateSteps[14].call = "plug" /\ CreateSteps[14].c = "registers"
  OBVIOUS
<1>6. /\ \A i \in { 1, 4, 5, 6, 7, 8, 9, 10, 13, 14 } : CreateSteps[i].checked
      /\ \A i \in { 2, 3, 11, 12 } : ~CreateSteps[i].checked
  OBVIOUS
<1>7. /\ CreateSteps[1].in = "cpu_init"
      /\ CreateSteps[4].in = "cartridge_init" /\ CreateSteps[5].in = "cartridge_init"
  OBVIOUS
<1>8. \A i \in (1 .. 24) \ { 1, 4, 5 } : CreateSteps[i].in \in { "gameboy_create", "bootrom_init" }
  OBVIOUS
<1>9. \A i \in (1 .. 14) \ { 1, 4, 5 } : CreateSteps[i].in = "gameboy_create"
  OBVIOUS
<1> HIDE DEF CreateSteps, CPUSteps, CartridgeSteps, CompInitAndPlug, EchoSteps, BootSteps,
             Tested, Untested, Step
<1> QED BY ONLY <1>1, <1>2, <1>3, <1>4, <1>5, <1>6, <1>7, <1>8, <1>9

LEMMA StepsOfFree ==
  ASSUME nb_components = 0
  PROVE  /\ cpu_bus =>
              /\ Len(FreeSteps) = 9
              /\ FreeSteps[1].call = "unplug" /\ FreeSteps[1].c = "echo_ram"
              /\ FreeSteps[2].call = "free" /\ FreeSteps[2].c = "echo_ram"
              /\ FreeSteps[3].call = "unplug" /\ FreeSteps[3].c = "high_ram"
              /\ FreeSteps[4].call = "unpoint"
              /\ FreeSteps[5].call = "free" /\ FreeSteps[5].c = "high_ram"
              /\ FreeSteps[6].call = "unplug" /\ FreeSteps[6].c = "bootrom"
              /\ FreeSteps[7].call = "free" /\ FreeSteps[7].c = "bootrom"
              /\ FreeSteps[8].call = "unplug" /\ FreeSteps[8].c = "cartridge"
              /\ FreeSteps[9].call = "free" /\ FreeSteps[9].c = "cartridge"
         /\ ~cpu_bus =>
              /\ Len(FreeSteps) = 7
              /\ FreeSteps[1].call = "unplug" /\ FreeSteps[1].c = "echo_ram"
              /\ FreeSteps[2].call = "free" /\ FreeSteps[2].c = "echo_ram"
              /\ FreeSteps[3].call = "free" /\ FreeSteps[3].c = "high_ram"
              /\ FreeSteps[4].call = "unplug" /\ FreeSteps[4].c = "bootrom"
              /\ FreeSteps[5].call = "free" /\ FreeSteps[5].c = "bootrom"
              /\ FreeSteps[6].call = "unplug" /\ FreeSteps[6].c = "cartridge"
              /\ FreeSteps[7].call = "free" /\ FreeSteps[7].c = "cartridge"
<1>1. CASE cpu_bus
  BY <1>1 DEF FreeSteps, cpu_free, UnplugThenFree, Untested, Step
<1>2. CASE ~cpu_bus
  BY <1>2 DEF FreeSteps, cpu_free, UnplugThenFree, Untested, Step
<1> QED BY <1>1, <1>2

-----------------------------------------------------------------------------
(* Where the running phase is, and what it has done by then.  Creation ends  *)
(* before it has plugged the registers.                                      *)
Creating ==
  /\ at \in 1 .. 14 /\ again \in BOOLEAN /\ outer \in BOOLEAN
  /\ again => at \notin { 2, 3, 11, 12 }
  /\ outer => at \in { 1, 4, 5 }
  /\ at <= 2 => ~IsPlugged("high_ram")
  /\ at <= 6 => ~IsPlugged("cartridge")
  /\ IF at > 3 THEN cpu_bus /\ bus[RegIF].block = CPURegisters
     ELSE ~cpu_bus /\ Unpointed

Freeing ==
  \/ /\ cpu_bus /\ at \in 1 .. 9
     /\ at > 3 => ~IsPlugged("high_ram")
     /\ at > 4 => Unpointed
     /\ at > 8 => ~IsPlugged("cartridge")
  \/ /\ ~cpu_bus /\ at \in 1 .. 7
     /\ ~IsPlugged("high_ram") /\ Unpointed
     /\ at > 6 => ~IsPlugged("cartridge")

Freed == Unpointed /\ ~IsPlugged("high_ram") /\ ~IsPlugged("cartridge")

IInv ==
  /\ Sound /\ OnlyTheFlags /\ nb_components = 0 /\ cpu_bus \in BOOLEAN
  /\ \/ phase = "create" /\ Creating
     \/ phase = "created" /\ Freeing
     \/ phase = "freed" /\ Freed

-----------------------------------------------------------------------------
(* What each step of gameboy_create leaves                                  *)
LEMMA CreateStepKeepsSound ==
  ASSUME Sound, OnlyTheFlags, Creating, nb_components = 0, cpu_bus \in BOOLEAN, Perform(Current)
  PROVE  /\ Sound' /\ OnlyTheFlags' /\ nb_components' = 0 /\ cpu_bus' \in BOOLEAN
         /\ at <= 1 => ~IsPlugged("high_ram")'
         /\ at <= 5 => ~IsPlugged("cartridge")'
         /\ at = 6 /\ result' # "ERR_NONE" => ~IsPlugged("cartridge")'
         /\ IF at >= 3 THEN cpu_bus' /\ bus'[RegIF].block = CPURegisters
            ELSE ~cpu_bus' /\ Unpointed'
         /\ at = 14 => result' # "ERR_NONE"
<1> DEFINE Kept == Sound' /\ OnlyTheFlags'
           Flags == /\ Unpointed => Unpointed'
                    /\ bus[RegIF].block = CPURegisters => bus'[RegIF].block = CPURegisters
           Stay(c) == ~IsPlugged(c) => ~IsPlugged(c)'
           Left == /\ Kept
                   /\ at <= 1 => ~IsPlugged("high_ram")'
                   /\ at <= 5 => ~IsPlugged("cartridge")'
                   /\ at = 6 /\ result' # "ERR_NONE" => ~IsPlugged("cartridge")'
                   /\ at >= 3 => bus'[RegIF].block = CPURegisters
                   /\ at < 3 => Unpointed'
                   /\ at = 14 => result' # "ERR_NONE"
<1>0. { "high_ram", "cartridge", "work_ram", "echo", "registers" } \subseteq Components
      /\ Own = { "high_ram", "cartridge" } /\ RegIF \in Addrs
      /\ \A c \in Components : First(c) \in Addrs /\ Last(c) \in Addrs
  BY PartsAreComponents DEF Own, Parts
<1>1. /\ at \in 1 .. 14
      /\ at <= 2 => ~IsPlugged("high_ram")
      /\ at <= 6 => ~IsPlugged("cartridge")
      /\ at > 3 => cpu_bus /\ bus[RegIF].block = CPURegisters
      /\ at <= 3 => ~cpu_bus /\ Unpointed
  BY DEF Creating
<1>2. nb_components' = 0
  <2>1. Current.call = "plug" => Current.c # "useless"
    BY <1>1, StepsOfCreate DEF Current
  <2> QED BY <2>1 DEF Perform
<1>3. cpu_bus' \in BOOLEAN /\ IF at >= 3 THEN cpu_bus' ELSE ~cpu_bus'
  <2>1. IF at = 3 THEN Current.call = "point" ELSE Current.call # "point"
    BY <1>1, StepsOfCreate DEF Current
  <2>2. cpu_bus' = (cpu_bus \/ Current.call = "point")
    BY DEF Perform
  <2>3. IF at >= 3 THEN cpu_bus \/ Current.call = "point" ELSE ~(cpu_bus \/ Current.call = "point")
    BY <1>1, <2>1
  <2> QED BY <2>2, <2>3
<1>4. ASSUME NEW c \in Components, component_create(c, MEM_SIZE(c)), c \in Own => ~IsPlugged(c)
      PROVE  Kept /\ Flags /\ Stay("high_ram") /\ Stay("cartridge")
  BY <1>0, <1>4, CreateKeepsSound DEF OnlyTheFlags, Unpointed
<1>5. ASSUME NEW c \in Components, bus_plug(c, First(c), Last(c)),
             \/ c \in Own /\ ~IsPlugged(c)
             \/ c \notin Own /\ First(c) .. Last(c) \subseteq WorkRAM
      PROVE  /\ Kept /\ Flags
             /\ c # "high_ram" => Stay("high_ram")
             /\ c # "cartridge" => Stay("cartridge")
  <2>1. First(c) \in Addrs /\ Last(c) \in Addrs
    BY <1>0
  <2>2. /\ Sound' /\ (Unpointed => Unpointed') /\ (OnlyTheFlags => OnlyTheFlags')
        /\ \A d \in Components \ { c } : IsPlugged(d)' = IsPlugged(d)
        /\ \A a \in Addrs : bus[a] # NULL => bus'[a] = bus[a]
    BY <1>5, <2>1, PlugKeepsSound
  <2>3. bus[RegIF].block = CPURegisters => bus'[RegIF].block = CPURegisters
    BY <1>0, <2>2 DEF NULL, CPURegisters
  <2> QED BY <1>0, <2>2, <2>3
<1>6. ASSUME at = 1
      PROVE  Left
  <2>1. Current.call = "create" /\ Current.c = "high_ram"
    BY <1>6, StepsOfCreate DEF Current
  <2>2. component_create("high_ram", MEM_SIZE("high_ram"))
    BY <2>1 DEF Perform
  <2>3. "high_ram" \in Own => ~IsPlugged("high_ram")
    BY <1>0, <1>1, <1>6
  <2>4. Kept /\ Flags /\ Stay("high_ram") /\ Stay("cartridge")
    BY <1>0, <1>4, <2>2, <2>3
  <2> QED BY <1>1, <1>6, <2>4
<1>7. ASSUME at = 2
      PROVE  Left
  <2>1. Current.call = "plug" /\ Current.c = "high_ram"
    BY <1>7, StepsOfCreate DEF Current
  <2>2. bus_plug("high_ram", First("high_ram"), Last("high_ram"))
    BY <2>1 DEF Perform, Plug
  <2>3. Kept /\ Flags /\ Stay("cartridge")
    BY <1>0, <1>1, <1>5, <1>7, <2>2
  <2> QED BY <1>1, <1>7, <2>3
<1>8. ASSUME at = 3
      PROVE  Left
  <2>1. Current.call = "point"
    BY <1>8, StepsOfCreate DEF Current
  <2>2. PointRegisters([block |-> CPURegisters, at |-> 0], [block |-> CPURegisters, at |-> 1])
    BY <2>1 DEF Perform
  <2> QED BY <1>0, <1>1, <1>8, <2>2, PointKeepsSound
<1>9. ASSUME at = 4
      PROVE  Left
  <2>1. Current.call = "create" /\ Current.c = "cartridge"
    BY <1>9, StepsOfCreate DEF Current
  <2>2. component_create("cartridge", MEM_SIZE("cartridge"))
    BY <2>1 DEF Perform
  <2>3. "cartridge" \in Own => ~IsPlugged("cartridge")
    BY <1>0, <1>1, <1>9
  <2>4. Kept /\ Flags /\ Stay("high_ram") /\ Stay("cartridge")
    BY <1>0, <1>4, <2>2, <2>3
  <2> QED BY <1>1, <1>9, <2>4
<1>10. ASSUME at = 5
      PROVE  Left
  <2>1. Current.call = "read"
    BY <1>10, StepsOfCreate DEF Current
  <2>2. ReadCartridge
    BY <2>1 DEF Perform
  <2>3. Kept /\ bus' = bus /\ ~IsPlugged("cartridge")'
    BY <1>0, <1>1, <1>10, <2>2, ReadKeepsSound DEF OnlyTheFlags
  <2> QED BY <1>1, <1>10, <2>3
<1>11. ASSUME at = 6
      PROVE  Left
  <2>1. Current.call = "plug" /\ Current.c = "cartridge"
    BY <1>11, StepsOfCreate DEF Current
  <2>2. bus_plug("cartridge", First("cartridge"), Last("cartridge"))
    BY <2>1 DEF Perform, Plug
  <2>3. result' # "ERR_NONE" => ~IsPlugged("cartridge")'
    <3>1. 0 \in Addrs /\ start \in [Components -> Addrs] /\ end \in [Components -> Addrs]
      BY PartsAreComponents DEF Sound
    <3> QED BY <1>0, <1>1, <1>11, <2>2, <3>1 DEF bus_plug, bus_forced_plug, SetRange, IsPlugged
  <2>4. Kept /\ Flags
    BY <1>0, <1>1, <1>5, <1>11, <2>2
  <2> QED BY <1>1, <1>11, <2>3, <2>4
<1>12. ASSUME at = 7
      PROVE  Left
  <2>1. Current.call = "create" /\ Current.c = "work_ram"
    BY <1>12, StepsOfCreate DEF Current
  <2>2. component_create("work_ram", MEM_SIZE("work_ram"))
    BY <2>1 DEF Perform
  <2>3. "work_ram" \in Own => ~IsPlugged("work_ram")
    BY <1>0, <1>1, <1>12
  <2>4. Kept /\ Flags /\ Stay("high_ram") /\ Stay("cartridge")
    BY <1>0, <1>4, <2>2, <2>3
  <2> QED BY <1>1, <1>12, <2>4
<1>13. ASSUME at = 8
      PROVE  Left
  <2>1. Current.call = "plug" /\ Current.c = "work_ram"
    BY <1>13, StepsOfCreate DEF Current
  <2>2. bus_plug("work_ram", First("work_ram"), Last("work_ram"))
    BY <2>1 DEF Perform, Plug
  <2>3. First("work_ram") .. Last("work_ram") \subseteq WorkRAM
    BY DEF WorkRAM
  <2>4. Kept /\ Flags
    BY <1>0, <1>5, <2>2, <2>3
  <2> QED BY <1>1, <1>13, <2>4
<1>14. ASSUME at = 9 \/ at = 11 \/ at = 12
      PROVE  Left
  <2>1. /\ Current.call \in { "share", "mem_free", "copy" }
        /\ Current.call = "mem_free" => Current.c = "echo"
    BY <1>14, StepsOfCreate DEF Current
  <2>2. ShareEcho \/ mem_free("echo") \/ CopyEcho
    BY <2>1 DEF Perform
  <2>3. Kept /\ bus' = bus
    BY <2>2, EchoKeepsSound DEF OnlyTheFlags
  <2> QED BY <1>1, <1>14, <2>3
<1>15. ASSUME at = 10
      PROVE  Left
  <2>1. Current.call = "plug" /\ Current.c = "echo"
    BY <1>15, StepsOfCreate DEF Current
  <2>2. bus_plug("echo", First("echo"), Last("echo"))
    BY <2>1 DEF Perform, Plug
  <2>3. First("echo") .. Last("echo") \subseteq WorkRAM
    BY DEF WorkRAM
  <2>4. Kept /\ Flags
    BY <1>0, <1>5, <2>2, <2>3
  <2> QED BY <1>1, <1>15, <2>4
<1>16. ASSUME at = 13
      PROVE  Left
  <2>1. Current.call = "create" /\ Current.c = "registers"
    BY <1>16, StepsOfCreate DEF Current
  <2>2. component_create("registers", MEM_SIZE("registers"))
    BY <2>1 DEF Perform
  <2>3. "registers" \in Own => ~IsPlugged("registers")
    BY <1>0, <1>1, <1>16
  <2>4. Kept /\ Flags /\ Stay("high_ram") /\ Stay("cartridge")
    BY <1>0, <1>4, <2>2, <2>3
  <2> QED BY <1>1, <1>16, <2>4
<1>17. ASSUME at = 14
      PROVE  Left
  <2>1. Current.call = "plug" /\ Current.c = "registers"
    BY <1>17, StepsOfCreate DEF Current
  <2>2. bus_plug("registers", First("registers"), Last("registers"))
    BY <2>1 DEF Perform, Plug
  <2>3. RegIF \in First("registers") .. Last("registers") /\ bus[RegIF] # NULL
    BY <1>1, <1>17, LayoutAssumption DEF NULL, CPURegisters
  <2>4. result' = "ERR_ADDRESS" /\ UNCHANGED << bus, start, end, memories >>
    BY <2>2, <2>3 DEF bus_plug, Free
  <2>5. Kept
    BY <2>4 DEF Sound, Heap, Owned, OwnedBy, IsPlugged, Span, NULL, memories, OnlyTheFlags
  <2> QED BY <1>1, <1>17, <2>4, <2>5
<1>18. Left
  BY <1>1, <1>6, <1>7, <1>8, <1>9, <1>10, <1>11, <1>12, <1>13, <1>14, <1>15, <1>16, <1>17
<1> QED BY <1>1, <1>2, <1>3, <1>18

(* Where gameboy_create goes from there                                     *)
LEMMA WhereCreateGoes ==
  ASSUME Creating, phase = "create", Pass \/ Repeat \/ Leave, at = 14 => result' # "ERR_NONE"
  PROVE  \/ phase' = "created" /\ at' = 1 /\ at \notin { 2, 3 }
         \/ /\ phase' = "create" /\ at' \in 1 .. 14 /\ again' \in BOOLEAN /\ outer' \in BOOLEAN
            /\ again' => at' \notin { 2, 3, 11, 12 }
            /\ outer' => at' \in { 1, 4, 5 }
            /\ at' <= 2 => at <= 1
            /\ at' <= 6 => at <= 5 \/ (at = 6 /\ result' # "ERR_NONE")
            /\ at' > 3 <=> at >= 3
<1>1. /\ at \in 1 .. 14 /\ again \in BOOLEAN /\ outer \in BOOLEAN
      /\ (again => at \notin { 2, 3, 11, 12 }) /\ (outer => at \in { 1, 4, 5 })
  BY DEF Creating
<1>2. /\ at \in { 2, 3, 11, 12 } => Passed
      /\ at \notin { 2, 3, 11, 12 } => (Passed <=> result' = "ERR_NONE")
      /\ Nested <=> at \in { 1, 4, 5 }
      /\ at # Len(CreateSteps)
  BY <1>1, StepsOfCreate DEF Passed, Current, Nested
<1>3. (at = 1 => Siblings = { 1 }) /\ (at \in { 4, 5 } => Siblings = { 4, 5 })
  BY StepsOfCreate DEF Siblings, Current
<1>4. /\ at = 1 => Max(Siblings) = 1 /\ Min(Siblings) = 1
      /\ at \in { 4, 5 } => Max(Siblings) = 5 /\ Min(Siblings) = 4
  BY <1>3 DEF Max, Min
<1>5. CASE Pass
  <2>1. ~again /\ Passed
    BY <1>5 DEF Pass
  <2>2. CASE outer /\ at = Max(Siblings)
    BY <1>1, <1>4, <1>5, <2>2 DEF Pass, Return
  <2>3. CASE ~(outer /\ at = Max(Siblings))
    <3>1. phase' = phase /\ at' = at + 1 /\ again' = FALSE /\ outer' = outer
      BY <1>2, <1>5, <2>3 DEF Pass, Go
    <3>2. at # 14 /\ (outer => at = 4)
      BY <1>1, <1>2, <1>4, <2>1, <2>3
    <3>3. phase' = "create" /\ again' \in BOOLEAN /\ ~again'
      BY <3>1
    <3>4. at' \in 1 .. 14 /\ at' = at + 1
      BY <1>1, <3>1, <3>2
    <3>5. outer' \in BOOLEAN /\ (outer' => at' \in { 1, 4, 5 })
      BY <1>1, <3>1, <3>2
    <3> QED BY <1>1, <3>3, <3>4, <3>5
  <2> QED BY <2>2, <2>3
<1>6. CASE Repeat
  <2>1. phase' = phase /\ at' = at /\ again' = TRUE /\ outer' = outer /\ ~Passed
    BY <1>6 DEF Repeat
  <2>2. at \notin { 2, 3, 11, 12 } /\ result' # "ERR_NONE"
    BY <1>2, <2>1
  <2> QED BY <1>1, <2>1, <2>2
<1>7. CASE Leave
  <2>1. at \notin { 2, 3, 11, 12 }
    BY <1>1, <1>7 DEF Leave
  <2>2. CASE \E code \in { result' } : Return(code)
    BY <2>1, <2>2 DEF Return
  <2>3. CASE ~outer /\ Nested /\ Go(Max(Siblings) + 1) /\ UNCHANGED outer
    <3>1. /\ at' \in { 2, 6 } /\ (at' = 2 => at = 1) /\ (at' = 6 => at \in { 4, 5 })
          /\ phase' = "create"
      BY <1>2, <1>4, <2>3 DEF Go
    <3>2. again' \in BOOLEAN /\ ~again' /\ outer' \in BOOLEAN /\ ~outer'
      BY <1>1, <2>3 DEF Go
    <3> QED BY <1>1, <3>1, <3>2
  <2>4. CASE Nested /\ Go(Min(Siblings)) /\ outer' = TRUE
    <3>1. /\ at' \in { 1, 4 } /\ (at' = 1 => at = 1) /\ (at' = 4 => at \in { 4, 5 })
          /\ phase' = "create"
      BY <1>2, <1>4, <2>4 DEF Go
    <3>2. again' \in BOOLEAN /\ ~again' /\ outer' \in BOOLEAN
      BY <1>1, <2>4 DEF Go
    <3> QED BY <1>1, <3>1, <3>2
  <2> QED BY <1>7, <2>2, <2>3, <2>4 DEF Leave
<1> QED BY <1>5, <1>6, <1>7

LEMMA CreateKeepsIInv ==
  ASSUME IInv, Create
  PROVE  IInv'
<1>1. /\ Sound /\ OnlyTheFlags /\ Creating /\ nb_components = 0 /\ cpu_bus \in BOOLEAN
      /\ phase = "create" /\ Perform(Current) /\ (Pass \/ Repeat \/ Leave)
  BY DEF IInv, Create
<1>2. /\ Sound' /\ OnlyTheFlags' /\ nb_components' = 0 /\ cpu_bus' \in BOOLEAN
      /\ at <= 1 => ~IsPlugged("high_ram")'
      /\ at <= 5 => ~IsPlugged("cartridge")'
      /\ at = 6 /\ result' # "ERR_NONE" => ~IsPlugged("cartridge")'
      /\ IF at >= 3 THEN cpu_bus' /\ bus'[RegIF].block = CPURegisters
         ELSE ~cpu_bus' /\ Unpointed'
      /\ at = 14 => result' # "ERR_NONE"
  BY <1>1, CreateStepKeepsSound
<1>3. at \in 1 .. 14
  BY <1>1 DEF Creating
<1>4. CASE phase' = "created" /\ at' = 1 /\ at \notin { 2, 3 }
  BY <1>2, <1>3, <1>4 DEF IInv, Freeing
<1>5. CASE /\ phase' = "create" /\ at' \in 1 .. 14 /\ again' \in BOOLEAN /\ outer' \in BOOLEAN
           /\ again' => at' \notin { 2, 3, 11, 12 }
           /\ outer' => at' \in { 1, 4, 5 }
           /\ at' <= 2 => at <= 1
           /\ at' <= 6 => at <= 5 \/ (at = 6 /\ result' # "ERR_NONE")
           /\ at' > 3 <=> at >= 3
  BY <1>2, <1>3, <1>5 DEF IInv, Creating
<1> QED BY <1>1, <1>2, <1>4, <1>5, WhereCreateGoes

(* What each step of gameboy_free leaves                                     *)
LEMMA FreeStepKeepsSound ==
  ASSUME Sound, OnlyTheFlags, Freeing, nb_components = 0, cpu_bus \in BOOLEAN,
         Perform(FreeSteps[at])
  PROVE  /\ Sound' /\ OnlyTheFlags'
         /\ (Unpointed => Unpointed') /\ (cpu_bus /\ at >= 4 => Unpointed')
         /\ IsPlugged("high_ram")' => IsPlugged("high_ram")
         /\ IsPlugged("cartridge")' => IsPlugged("cartridge")
         /\ cpu_bus /\ at = 3 => ~IsPlugged("high_ram")'
         /\ at = (IF cpu_bus THEN 8 ELSE 6) => ~IsPlugged("cartridge")'
         /\ nb_components' = 0 /\ cpu_bus' = cpu_bus
<1> PICK c : c = FreeSteps[at].c
  OBVIOUS
<1> DEFINE Kept ==
      /\ Sound' /\ OnlyTheFlags' /\ (Unpointed => Unpointed')
      /\ IsPlugged("high_ram")' => IsPlugged("high_ram")
      /\ IsPlugged("cartridge")' => IsPlugged("cartridge")
<1>0. /\ { "high_ram", "cartridge", "echo_ram", "bootrom" } \subseteq Components
      /\ Own = { "high_ram", "cartridge" }
  BY PartsAreComponents DEF Own, Parts
<1>1. /\ IF cpu_bus THEN at \in 1 .. 9 ELSE at \in 1 .. 7
      /\ cpu_bus /\ at > 3 => ~IsPlugged("high_ram")
      /\ cpu_bus /\ at > 4 => Unpointed
      /\ cpu_bus /\ at > 8 => ~IsPlugged("cartridge")
      /\ ~cpu_bus => ~IsPlugged("high_ram")
      /\ ~cpu_bus /\ at > 6 => ~IsPlugged("cartridge")
  BY DEF Freeing
<1>2. /\ FreeSteps[at].call \in { "unplug", "free", "unpoint" }
      /\ FreeSteps[at].call = "unpoint" <=> cpu_bus /\ at = 4
      /\ FreeSteps[at].call # "unpoint" => c \in Components
      /\ FreeSteps[at].call = "free" /\ c \in Own => ~IsPlugged(c)
      /\ cpu_bus /\ at = 3 => FreeSteps[at].call = "unplug" /\ c = "high_ram"
      /\ at = (IF cpu_bus THEN 8 ELSE 6) => FreeSteps[at].call = "unplug" /\ c = "cartridge"
  <2>1. CASE cpu_bus
    BY <1>0, <1>1, <2>1, StepsOfFree
  <2>2. CASE ~cpu_bus
    BY <1>0, <1>1, <2>2, StepsOfFree
  <2> QED BY <2>1, <2>2
<1>3. nb_components' = 0 /\ cpu_bus' = cpu_bus
  <2>1. FreeSteps[at].call # "plug" /\ FreeSteps[at].call # "point"
    BY <1>2
  <2>2. nb_components' = 0
    BY <2>1 DEF Perform
  <2>3. cpu_bus' = (cpu_bus \/ FreeSteps[at].call = "point")
    BY DEF Perform
  <2> QED BY <2>1, <2>2, <2>3
<1>4. CASE FreeSteps[at].call = "unplug"
  <2>1. c \in Components /\ bus_unplug(c)
    BY <1>2, <1>4 DEF Perform
  <2>2. Kept /\ ~IsPlugged(c)'
    BY <1>0, <2>1, UnplugKeepsSound
  <2> QED BY <1>1, <1>2, <1>3, <1>4, <2>2
<1>5. CASE FreeSteps[at].call = "free"
  <2>1. c \in Components /\ component_free(c) /\ (c \in Own => ~IsPlugged(c))
    BY <1>2, <1>5 DEF Perform
  <2>2. Kept /\ bus' = bus
    BY <1>0, <2>1, FreeKeepsSound DEF OnlyTheFlags, Unpointed
  <2> QED BY <1>1, <1>2, <1>3, <1>5, <2>2
<1>6. CASE FreeSteps[at].call = "unpoint"
  <2>1. cpu_bus /\ at = 4 /\ PointRegisters(NULL, NULL)
    BY <1>2, <1>6 DEF Perform
  <2>2. Kept /\ Unpointed'
    BY <1>0, <2>1, UnpointKeepsSound
  <2> QED BY <1>1, <1>2, <1>3, <1>6, <2>1, <2>2
<1> QED BY <1>2, <1>4, <1>5, <1>6

LEMMA FreeKeepsIInv ==
  ASSUME IInv, gameboy_free
  PROVE  IInv'
<1>1. /\ Sound /\ OnlyTheFlags /\ Freeing /\ nb_components = 0 /\ phase = "created"
      /\ Perform(FreeSteps[at]) /\ cpu_bus \in BOOLEAN
      /\ IF at < Len(FreeSteps)
         THEN at' = at + 1 /\ UNCHANGED phase
         ELSE at' = 1 /\ phase' = "freed"
  BY DEF IInv, gameboy_free
<1>2. /\ Sound' /\ OnlyTheFlags'
      /\ (Unpointed => Unpointed') /\ (cpu_bus /\ at >= 4 => Unpointed')
      /\ IsPlugged("high_ram")' => IsPlugged("high_ram")
      /\ IsPlugged("cartridge")' => IsPlugged("cartridge")
      /\ cpu_bus /\ at = 3 => ~IsPlugged("high_ram")'
      /\ at = (IF cpu_bus THEN 8 ELSE 6) => ~IsPlugged("cartridge")'
      /\ nb_components' = 0 /\ cpu_bus' = cpu_bus
  BY <1>1, FreeStepKeepsSound
<1>3. CASE cpu_bus
  <2>1. /\ at \in 1 .. 9
        /\ at > 3 => ~IsPlugged("high_ram")
        /\ at > 4 => Unpointed
        /\ at > 8 => ~IsPlugged("cartridge")
    BY <1>1, <1>3 DEF Freeing
  <2>2. Len(FreeSteps) = 9
    BY <1>1, <1>3, StepsOfFree
  <2>3. CASE at < 9
    <3>1. at' = at + 1 /\ phase' = phase
      BY <1>1, <2>2, <2>3
    <3>2. Freeing'
      BY <1>2, <1>3, <2>1, <2>3, <3>1 DEF Freeing
    <3> QED BY <1>1, <1>2, <3>1, <3>2 DEF IInv
  <2>4. CASE at = 9
    <3>1. phase' = "freed"
      BY <1>1, <2>2, <2>4
    <3>2. Freed'
      BY <1>2, <1>3, <2>1, <2>4 DEF Freed
    <3> QED BY <1>1, <1>2, <3>1, <3>2 DEF IInv
  <2> QED BY <2>1, <2>3, <2>4
<1>4. CASE ~cpu_bus
  <2>1. /\ at \in 1 .. 7
        /\ ~IsPlugged("high_ram") /\ Unpointed
        /\ at > 6 => ~IsPlugged("cartridge")
    BY <1>1, <1>4 DEF Freeing
  <2>2. Len(FreeSteps) = 7
    BY <1>1, <1>4, StepsOfFree
  <2>3. CASE at < 7
    <3>1. at' = at + 1 /\ phase' = phase
      BY <1>1, <2>2, <2>3
    <3>2. Freeing'
      BY <1>2, <1>4, <2>1, <2>3, <3>1 DEF Freeing
    <3> QED BY <1>1, <1>2, <3>1, <3>2 DEF IInv
  <2>4. CASE at = 7
    <3>1. phase' = "freed"
      BY <1>1, <2>2, <2>4
    <3>2. Freed'
      BY <1>2, <1>4, <2>1, <2>4 DEF Freed
    <3> QED BY <1>1, <1>2, <3>1, <3>2 DEF IInv
  <2> QED BY <2>1, <2>3, <2>4
<1> QED BY <1>1, <1>3, <1>4

LEMMA StartIsSound == Start => IInv
<1> SUFFICES ASSUME Start
             PROVE  IInv
  OBVIOUS
<1>1. 0 \in Addrs /\ Own \subseteq Components
  BY PartsAreComponents
<1>2. Sound /\ Unpointed /\ OnlyTheFlags /\ \A c \in Components : ~IsPlugged(c)
  BY <1>1 DEF Start, Sound, Heap, Owned, Unpointed, OnlyTheFlags, IsPlugged, NULL, CPURegisters
<1>3. { "high_ram", "cartridge" } \subseteq Components
  BY <1>1 DEF Own
<1>4. Creating
  <2>1. /\ phase = "create" /\ at = 1 /\ again = FALSE /\ outer = FALSE /\ cpu_bus = FALSE
        /\ at \in 1 .. 14
    BY DEF Start
  <2>2. again \in BOOLEAN /\ outer \in BOOLEAN /\ ~again /\ ~outer /\ ~cpu_bus
    BY <2>1
  <2> QED BY <1>2, <1>3, <2>1, <2>2 DEF Creating
<1> QED BY <1>2, <1>4 DEF Start, IInv

LEMMA NextKeepsIInv ==
  ASSUME IInv, [GameboyNext]_allVars
  PROVE  IInv'
<1>1. CASE GameboyNext
  BY <1>1, CreateKeepsIInv, FreeKeepsIInv DEF GameboyNext
<1>2. CASE UNCHANGED allVars
  BY <1>2 DEF allVars, control, vars, memories, IInv, Sound, Heap, Owned, OwnedBy, IsPlugged,
              Span, NULL, OnlyTheFlags, Unpointed, Creating, Freeing, Freed
<1> QED BY <1>1, <1>2

-----------------------------------------------------------------------------
(* The invariant of gameboy_create and gameboy_free                          *)
THEOREM Invariance == GameboySpec => []IInv
<1> QED BY StartIsSound, NextKeepsIInv, PTL DEF GameboySpec

(* Wherever creation stops and all through the free that follows, no address *)
(* outside the work RAM and its echo points into freed memory                *)
(* (gameboy_create, gameboy_free).                                           *)
THEOREM TheRestIsLive == GameboySpec => []RestOfTheBusIsLive
<1>1. IInv => RestOfTheBusIsLive
  BY DEF IInv, Sound, Heap, Owned, OwnedBy, RestOfTheBusIsLive
<1> QED BY <1>1, Invariance, PTL

(* And after it none of those addresses points anywhere (gameboy_free).      *)
THEOREM TheRestIsUnmapped == GameboySpec => []FreeUnmapsTheRest
<1>1. IInv => FreeUnmapsTheRest
  BY DEF IInv, Sound, Owned, OwnedBy, Freed, Unpointed, WorkRAM, FreeUnmapsTheRest, Own
<1> QED BY <1>1, Invariance, PTL

(* gameboy_create never gets past the plug of the registers, REG_IF being on *)
(* the bus by then, and so never counts its components (gameboy_create).     *)
THEOREM NeverAWholeGameboy ==
  GameboySpec => [](nb_components # GB_NB_COMPONENTS /\ (phase = "create" => at <= 14))
<1>1. IInv => nb_components # GB_NB_COMPONENTS /\ (phase = "create" => at <= 14)
  BY DEF IInv, Creating, GB_NB_COMPONENTS
<1> QED BY <1>1, Invariance, PTL

-----------------------------------------------------------------------------
(* With memory to be had and a sound file, only a plug, or the sharing of a  *)
(* work RAM without memory, fails, and its second call fails like the first. *)
Refuses(c) ==
  ~Free(First(c), Last(c)) \/ (Backed(c) /\ ~Fits(c, First(c), Last(c), 0))

Refused ==
  \/ at \in { 6, 8, 10, 14 } /\ Refuses(CreateSteps[at].c)
  \/ at = 9 /\ mem["work_ram"] = 0

Reported ==
  IF phase = "create" THEN ~outer /\ (again => Refused) ELSE error # "ERR_NONE"

LEMMA FailsAgain ==
  ASSUME Allocations = { "done" }, Reads = { "ERR_NONE" },
         Sound, Creating, phase = "create", Perform(Current),
         Current.checked => result' # "ERR_NONE" \/ Refused
  PROVE  Current.checked => Refused /\ result' # "ERR_NONE" /\ (at' = at => Refused')
<1>1. at \in 1 .. 14
  BY DEF Creating
<1>2. ASSUME at \in { 1, 4, 7, 13 }
      PROVE  result' = "ERR_NONE" /\ ~Refused
  <2>1. Current.call = "create"
    BY <1>2, StepsOfCreate DEF Current
  <2>2. component_create(Current.c, MEM_SIZE(Current.c))
    BY <2>1 DEF Perform
  <2> QED BY <1>2, <2>2 DEF component_create, CreateEmpty, Allocate, NoStruct, NoArray, Refused
<1>3. ASSUME at = 5
      PROVE  result' = "ERR_NONE" /\ ~Refused
  <2>1. Current.call = "read"
    BY <1>3, StepsOfCreate DEF Current
  <2> QED BY <1>3, <2>1 DEF Perform, ReadCartridge, Refused
<1>4. ASSUME at \in { 6, 8, 10, 14 }
      PROVE  Refused /\ result' # "ERR_NONE" /\ (at' = at => Refused')
  <2> PICK c : c = CreateSteps[at].c
    OBVIOUS
  <2>1. Current.call = "plug" /\ Current.c = c /\ c # "bootrom" /\ Current.checked
    BY <1>4, StepsOfCreate DEF Current
  <2>2. bus_plug(c, First(c), Last(c))
    BY <2>1 DEF Perform, Plug
  <2>3. Refuses(c)
    BY <1>4, <2>1, <2>2 DEF bus_plug, bus_forced_plug, Refused, Refuses
  <2>4. result' = "ERR_ADDRESS" /\ UNCHANGED << bus, memories >>
    BY <2>2, <2>3 DEF bus_plug, bus_forced_plug, Refuses
  <2>5. Refuses(c)'
    BY <2>3, <2>4 DEF Refuses, Free, Backed, Fits, memories, NULL, First, Last
  <2> QED BY <1>4, <2>3, <2>4, <2>5 DEF Refused
<1>5. ASSUME at = 9
      PROVE  Refused /\ result' # "ERR_NONE" /\ (at' = at => Refused')
  <2>1. Current.call = "share" /\ Current.checked
    BY <1>5, StepsOfCreate DEF Current
  <2>2. component_shared("echo", "work_ram")
    BY <2>1 DEF Perform, ShareEcho
  <2>3. mem["work_ram"] = 0 /\ result' = "ERR_BAD_PARAMETER" /\ mem' = mem
    BY <1>5, <2>1, <2>2 DEF component_shared, Refused
  <2> QED BY <1>5, <2>3 DEF Refused
<1>6. at \in { 2, 3, 11, 12 } => ~Current.checked
  BY StepsOfCreate DEF Current
<1> QED BY <1>1, <1>2, <1>3, <1>4, <1>5, <1>6

LEMMA CreateKeepsReported ==
  ASSUME Allocations = { "done" }, Reads = { "ERR_NONE" }, IInv, Reported, Create
  PROVE  Reported'
<1>1. /\ Sound /\ Creating /\ phase = "create" /\ Perform(Current) /\ (Pass \/ Repeat \/ Leave)
      /\ ~outer /\ (again => Refused)
  BY DEF IInv, Create, Reported
<1>2. at \in 1 .. 14 /\ again \in BOOLEAN /\ outer \in BOOLEAN /\ Len(CreateSteps) = 24
      /\ (again => Current.checked)
  BY <1>1, StepsOfCreate DEF Creating, Current
<1>3. CASE Pass
  <2>1. phase' = phase /\ again' = FALSE /\ outer' = outer
    BY <1>1, <1>2, <1>3 DEF Pass, Go
  <2> QED BY <1>1, <2>1 DEF Reported
<1>4. CASE Repeat
  <2>1. /\ phase' = phase /\ at' = at /\ outer' = outer
        /\ Current.checked /\ result' # "ERR_NONE"
    BY <1>4 DEF Repeat, Passed
  <2>2. Refused'
    BY <1>1, <2>1, FailsAgain
  <2> QED BY <1>1, <2>1, <2>2 DEF Reported
<1>5. CASE Leave
  <2>1. again
    BY <1>5 DEF Leave
  <2>2. Refused /\ result' # "ERR_NONE"
    BY <1>1, <1>2, <2>1, FailsAgain
  <2>3. ~Nested
    BY <2>2, <1>2, StepsOfCreate DEF Refused, Nested, Current
  <2>4. phase' = "created" /\ error' = result'
    BY <1>5, <2>3 DEF Leave, Return
  <2> QED BY <2>2, <2>4 DEF Reported
<1> QED BY <1>1, <1>3, <1>4, <1>5

(* Even when every allocation succeeds and the file is sound, gameboy_create *)
(* never returns ERR_NONE, for any such layout (gameboy_create, cpu_plug).   *)
THEOREM NeverReportsSuccess ==
  ASSUME Allocations = { "done" }, Reads = { "ERR_NONE" }
  PROVE  GameboySpec => [](phase # "create" => error # "ERR_NONE")
<1>1. Start => Reported
  BY DEF Start, Reported
<1>2. ASSUME IInv, Reported, [GameboyNext]_allVars
      PROVE  Reported'
  <2>1. CASE Create
    BY <1>2, <2>1, CreateKeepsReported
  <2>2. CASE gameboy_free
    BY <1>2, <2>2 DEF gameboy_free, Reported
  <2>3. CASE UNCHANGED allVars
    BY <1>2, <2>3 DEF allVars, control, vars, memories, Reported, Refused, Refuses, Free, Backed,
                      Fits, NULL, First, Last
  <2> QED BY <1>2, <2>1, <2>2, <2>3 DEF GameboyNext
<1>3. Reported => (phase # "create" => error # "ERR_NONE")
  BY DEF Reported
<1> QED BY <1>1, <1>2, <1>3, Invariance, PTL DEF GameboySpec
=============================================================================
