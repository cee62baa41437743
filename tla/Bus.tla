-------------------------------- MODULE Bus --------------------------------
(***************************************************************************)
(* The bus of bus.c with the components and memories plugged into it       *)
(* (component.c, memory.c), under any sequence of calls.  A bus entry is a *)
(* pointer into some memory's array, so what matters is which array, where *)
(* in it, and whether the array is still there.                            *)
(*                                                                         *)
(* A memory_t and its array are a block, numbered in the order of their    *)
(* allocation and never reused, so that a dangling pointer is visible.     *)
(*                                                                         *)
(* Definitions marked "fault" are plausible mistakes in the definition     *)
(* below them; nothing uses them but the check that each property can be   *)
(* broken.                                                                 *)
(***************************************************************************)
EXTENDS Integers

CONSTANTS
  Top,         (* the last address of the bus, BUS_SIZE - 1                 *)
  Components,
  Sizes,       (* the sizes components are created with                     *)
  MaxBlocks,   (* bound: blocks ever allocated                              *)
  Allocations  (* what an allocation may do, among "done", "no_struct"    *)
               (* and "no_array"                                            *)

ASSUME BusAssumption ==
  /\ Top \in Nat /\ MaxBlocks \in Nat /\ Sizes \subseteq Nat
  /\ Allocations \subseteq { "done", "no_struct", "no_array" }

Addrs  == 0 .. Top
Blocks == 1 .. MaxBlocks
NULL   == [block |-> 0, at |-> 0]

VARIABLES
  bus,           (* bus[a]: the cell an address points to, or NULL          *)
  mem,           (* component_t.mem: a block, or 0 for NULL                 *)
  start, end,    (* component_t.start and end                               *)
  length,        (* length[b]: bytes of block b's array                     *)
  used,          (* blocks allocated so far                                 *)
  structs,       (* blocks whose memory_t is allocated                      *)
  arrays,        (* blocks whose array is allocated                         *)
  result         (* what the last call returned                             *)

memories == << mem, length, used, structs, arrays >>
vars     == << bus, memories, start, end, result >>

Codes == { "ERR_NONE", "ERR_BAD_PARAMETER", "ERR_ADDRESS", "ERR_MEM",
           "ERR_IO", "ERR_NOT_IMPLEMENTED" }

TypeOK ==
  /\ bus \in [Addrs -> [block : 0 .. MaxBlocks, at : Nat]]
  /\ mem \in [Components -> 0 .. MaxBlocks]
  /\ start \in [Components -> Addrs] /\ end \in [Components -> Addrs]
  /\ length \in [Blocks -> Nat]
  /\ used \in 0 .. MaxBlocks
  /\ structs \subseteq 1 .. used /\ arrays \subseteq structs
  /\ result \in Codes

SetRange(c, s, e) == start' = [start EXCEPT ![c] = s] /\ end' = [end EXCEPT ![c] = e]

-----------------------------------------------------------------------------
(* component_create.  When the array cannot be had, mem keeps the address of *)
(* the memory_t just freed.                                                  *)
CreateEmpty(c) ==
  /\ mem' = [mem EXCEPT ![c] = 0] /\ SetRange(c, 0, 0)
  /\ result' = "ERR_NONE"
  /\ UNCHANGED << bus, length, used, structs, arrays >>

Allocate(c, size) ==
  /\ "done" \in Allocations /\ used < MaxBlocks
  /\ used' = used + 1
  /\ mem' = [mem EXCEPT ![c] = used + 1] /\ SetRange(c, 0, 0)
  /\ length' = [length EXCEPT ![used + 1] = size]
  /\ structs' = structs \cup { used + 1 } /\ arrays' = arrays \cup { used + 1 }
  /\ result' = "ERR_NONE"
  /\ UNCHANGED bus

NoStruct(c) ==
  /\ "no_struct" \in Allocations
  /\ mem' = [mem EXCEPT ![c] = 0]
  /\ result' = "ERR_MEM"
  /\ UNCHANGED << bus, start, end, length, used, structs, arrays >>

NoArray(c) ==
  /\ "no_array" \in Allocations /\ used < MaxBlocks
  /\ used' = used + 1
  /\ mem' = [mem EXCEPT ![c] = used + 1]
  /\ result' = "ERR_MEM"
  /\ UNCHANGED << bus, start, end, length, structs, arrays >>

component_create(c, size) ==
  IF size = 0 THEN CreateEmpty(c) ELSE Allocate(c, size) \/ NoStruct(c) \/ NoArray(c)

(* component_shared                                                          *)
component_shared(c, old) ==
  /\ IF mem[old] = 0
     THEN result' = "ERR_BAD_PARAMETER" /\ UNCHANGED << mem, start, end >>
     ELSE result' = "ERR_NONE" /\ SetRange(c, 0, 0) /\ mem' = [mem EXCEPT ![c] = mem[old]]
  /\ UNCHANGED << bus, length, used, structs, arrays >>

(* mem_free on a component's memory                                          *)
mem_free(c) ==
  /\ arrays' = arrays \ { mem[c] }
  /\ UNCHANGED << bus, mem, start, end, length, used, structs, result >>

(* component_free                                                            *)
ForgetsTheArray(c) ==                                                    \* fault
  /\ structs' = structs \ { mem[c] }
  /\ mem' = [mem EXCEPT ![c] = 0] /\ SetRange(c, 0, 0)
  /\ UNCHANGED << bus, arrays, length, used, result >>
component_free(c) ==
  /\ arrays' = arrays \ { mem[c] } /\ structs' = structs \ { mem[c] }
  /\ mem' = [mem EXCEPT ![c] = 0] /\ SetRange(c, 0, 0)
  /\ UNCHANGED << bus, length, used, result >>

-----------------------------------------------------------------------------
(* bus_remap's conditions on the component and on the range                  *)
Backed(c) == mem[c] \in arrays

ComparesGreater(c, s, e, offset) == s <= e /\ e - s + offset <= length[mem[c]]   \* fault
Fits(c, s, e, offset) == s <= e /\ e - s + offset < length[mem[c]]

Mapped(c, s, e, offset) ==
  [a \in Addrs |-> IF a \in s .. e THEN [block |-> mem[c], at |-> offset + (a - s)] ELSE bus[a]]

bus_remap(c, offset) ==
  /\ \/ ~Backed(c) /\ result' = "ERR_BAD_PARAMETER" /\ UNCHANGED bus
     \/ Backed(c) /\ Fits(c, start[c], end[c], offset) /\ result' = "ERR_NONE"
        /\ bus' = Mapped(c, start[c], end[c], offset)
     \/ Backed(c) /\ ~Fits(c, start[c], end[c], offset) /\ result' = "ERR_ADDRESS"
        /\ UNCHANGED bus
  /\ UNCHANGED << start, end, memories >>

(* bus_forced_plug: of bus_remap's errors only ERR_ADDRESS is looked at      *)
bus_forced_plug(c, s, e, offset) ==
  /\ \/ ~Backed(c) /\ SetRange(c, s, e) /\ result' = "ERR_NONE" /\ UNCHANGED bus
     \/ Backed(c) /\ Fits(c, s, e, offset) /\ SetRange(c, s, e) /\ result' = "ERR_NONE"
        /\ bus' = Mapped(c, s, e, offset)
     \/ Backed(c) /\ ~Fits(c, s, e, offset) /\ SetRange(c, 0, 0) /\ result' = "ERR_ADDRESS"
        /\ UNCHANGED bus
  /\ UNCHANGED memories

LooksAtBothEnds(s, e) == s < e /\ \A a \in { s, e } : bus[a] = NULL     \* fault
Free(s, e) == s < e /\ \A a \in s .. e : bus[a] = NULL

bus_plug(c, s, e) ==
  \/ Free(s, e) /\ bus_forced_plug(c, s, e, 0)
  \/ ~Free(s, e) /\ result' = "ERR_ADDRESS" /\ UNCHANGED << bus, start, end, memories >>

StopsBeforeTheEnd(c) ==                                                  \* fault
  [a \in Addrs |-> IF start[c] <= a /\ a < end[c] THEN NULL ELSE bus[a]]
Cleared(c) == [a \in Addrs |-> IF start[c] <= a /\ a <= end[c] THEN NULL ELSE bus[a]]

bus_unplug(c) ==
  /\ bus' = Cleared(c) /\ SetRange(c, 0, 0)
  /\ result' = "ERR_NONE"
  /\ UNCHANGED memories

-----------------------------------------------------------------------------
(* A bus and components zeroed, as the tests' INIT and the simulator have it *)
Init ==
  /\ bus = [a \in Addrs |-> NULL]
  /\ mem = [c \in Components |-> 0]
  /\ start = [c \in Components |-> 0] /\ end = [c \in Components |-> 0]
  /\ length = [b \in Blocks |-> 0]
  /\ used = 0 /\ structs = {} /\ arrays = {}
  /\ result = "ERR_NONE"

(* A component whose memory_t, if it names one, can be looked at.            *)
Usable(c) == mem[c] = 0 \/ mem[c] \in structs

(* A client that makes any call whatever on usable components.               *)
AnyCall(c) ==
  \/ \E size \in Sizes : component_create(c, size)
  \/ Usable(c) /\ bus_unplug(c)
  \/ Usable(c) /\ component_free(c)
  \/ mem[c] \in structs /\ mem_free(c)
  \/ Usable(c) /\ \E old \in Components : Usable(old) /\ component_shared(c, old)
  \/ Usable(c) /\ \E offset \in Addrs : bus_remap(c, offset)
  \/ Usable(c) /\ \E s, e \in Addrs : bus_plug(c, s, e)
  \/ Usable(c) /\ \E s, e, offset \in Addrs : bus_forced_plug(c, s, e, offset)

Next == \E c \in Components : AnyCall(c)
Spec == Init /\ [][Next]_vars

(***************************************************************************)
(* A client with the habits of the tests and of gameboy.c, overlays apart: *)
(* it plugs only what is unplugged, forces a plug only where nothing is,   *)
(* remaps and unplugs only what is plugged, and unplugs before it frees.   *)
(***************************************************************************)
IsPlugged(c) == start[c] < end[c]
Span(c)      == start[c] .. end[c]
IsShared(c)  == \E d \in Components \ { c } : mem[d] = mem[c]
Plain(c)     == mem[c] \in structs /\ ~IsPlugged(c)

CarefulCall(c) ==
  \/ /\ ~IsPlugged(c) /\ (mem[c] \in structs => IsShared(c))
     /\ \/ \E size \in Sizes : component_create(c, size)
        \/ \E old \in Components : Usable(old) /\ component_shared(c, old)
  \/ Plain(c) /\ \E s, e \in Addrs : bus_plug(c, s, e)
  \/ Plain(c) /\ \E s, e, offset \in Addrs : Free(s, e) /\ bus_forced_plug(c, s, e, offset)
  \/ IsPlugged(c) /\ \E offset \in Addrs : bus_remap(c, offset)
  \/ IsPlugged(c) /\ bus_unplug(c)
  \/ Plain(c) /\ ~IsShared(c) /\ component_free(c)

CarefulNext == \E c \in Components : CarefulCall(c)
CarefulSpec == Init /\ [][CarefulNext]_vars

-----------------------------------------------------------------------------
(***************************************************************************)
(* Whatever is called in whatever order, an address never points past the  *)
(* end of the array it was mapped to (the test of bus_remap, against plugs,*)
(* remaps at an offset, sharing and re-creation).                          *)
(***************************************************************************)
PointsInside(cell) == cell.block \in 1 .. used /\ cell.at < length[cell.block]
MappedInBounds == \A a \in Addrs : bus[a] = NULL \/ PointsInside(bus[a])

(***************************************************************************)
(* A careful client never leaves an address pointing into freed memory     *)
(* (bus_unplug before component_free).                                     *)
(***************************************************************************)
MappedIsLive == \A a \in Addrs : bus[a] = NULL \/ bus[a].block \in arrays

(***************************************************************************)
(* For a careful client the bus is exactly what the components say: the    *)
(* ranges of the plugged ones do not meet, each is mapped to consecutive   *)
(* bytes of its component's array, and everything else is NULL (bus_plug,  *)
(* bus_remap, bus_unplug).                                                 *)
(***************************************************************************)
RangesDisjoint ==
  \A c, d \in Components :
    IsPlugged(c) /\ IsPlugged(d) /\ c # d => Span(c) \cap Span(d) = {}

MappedInOrder ==
  \A c \in Components : IsPlugged(c) =>
    \A a \in Span(c) :
      bus[a] = [block |-> mem[c], at |-> bus[start[c]].at + (a - start[c])]

NothingElse ==
  \A a \in Addrs : bus[a] = NULL \/ \E c \in Components : IsPlugged(c) /\ a \in Span(c)

ExactMapping == RangesDisjoint /\ MappedInOrder /\ NothingElse
=============================================================================
