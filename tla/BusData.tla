------------------------------ MODULE BusData ------------------------------
(***************************************************************************)
(* The bytes behind the bus: bus_read, bus_write, bus_read16 and           *)
(* bus_write16, called between the calls of a careful client of Bus.       *)
(***************************************************************************)
EXTENDS Bus

CONSTANTS
  Bytes, Words,   (* the bytes and the words (low and high byte) stored      *)
  MaxLength,   (* the size of the longest array                             *)
  MaxStores    (* bound: stores                                             *)

ASSUME DataAssumption ==
  /\ MaxLength \in Nat /\ \A size \in Sizes : size <= MaxLength
  /\ Words \subseteq [low : Nat, high : Nat] /\ Bytes \subseteq Nat

VARIABLES
  memory,      (* memory[cell]: the byte in a cell of an array              *)
  stored,      (* the bytes the last call asked to store, by address        *)
  crashed,     (* a NULL address was written through                        *)
  stores       (* stores so far                                             *)

dataVars == << memory, stored, crashed, stores >>

Cells == [block : Blocks, at : 0 .. MaxLength - 1]
NOT_PLUGGED == 255
NothingStored == [x \in {} |-> 0]

bus_read(a) == IF bus[a] = NULL THEN NOT_PLUGGED ELSE memory[bus[a]]

(* No word starts at the top address, and the caller's is left as it was.    *)
(* With either half unplugged the word is 0xFF, not 0xFFFF.                  *)
bus_read16(a) ==
  IF a = Top THEN "ERR_ADDRESS"
  ELSE IF bus[a] = NULL \/ bus[a + 1] = NULL
  THEN [low |-> NOT_PLUGGED, high |-> 0]
  ELSE [low |-> memory[bus[a]], high |-> memory[bus[a + 1]]]

-----------------------------------------------------------------------------
Store(m, code) == memory' = m /\ result' = code /\ crashed' = FALSE

LooksAtNothing(a, v) ==                                               \* fault
  /\ stored' = [x \in { a } |-> v]
  /\ IF bus[a] = NULL
     THEN crashed' = TRUE /\ UNCHANGED << memory, result >>
     ELSE Store([memory EXCEPT ![bus[a]] = v], "ERR_NONE")
bus_write(a, v) ==
  /\ stored' = [x \in { a } |-> v]
  /\ IF bus[a] = NULL
     THEN Store(memory, "ERR_BAD_PARAMETER")
     ELSE Store([memory EXCEPT ![bus[a]] = v], "ERR_NONE")

WritesBothBelow(a, low, high) ==                                      \* fault
  /\ stored' = [x \in { a, a + 1 } |-> IF x = a THEN low ELSE high]
  /\ \/ bus[a] = NULL /\ Store(memory, "ERR_BAD_PARAMETER")
     \/ bus[a] # NULL
        /\ Store([memory EXCEPT ![bus[a]] = low,
                                ![[bus[a] EXCEPT !.at = (@ + 1) % MaxLength]] = high], "ERR_NONE")
(* The top address has nothing above it; elsewhere only the lower of the two *)
(* addresses is looked at before both are written through                    *)
bus_write16(a, low, high) ==
  /\ stored' = [x \in { a, a + 1 } |-> IF x = a THEN low ELSE high]
  /\ \/ bus[a] = NULL /\ Store(memory, "ERR_BAD_PARAMETER")
     \/ bus[a] # NULL /\ a = Top /\ Store(memory, "ERR_ADDRESS")
     \/ bus[a] # NULL /\ a < Top /\ bus[a + 1] = NULL
        /\ crashed' = TRUE /\ memory' = [memory EXCEPT ![bus[a]] = low] /\ UNCHANGED result
     \/ bus[a] # NULL /\ a < Top /\ bus[a + 1] # NULL
        /\ Store([memory EXCEPT ![bus[a]] = low, ![bus[a + 1]] = high], "ERR_NONE")

-----------------------------------------------------------------------------
(* calloc: every array starts as zeroes, and no block is used again          *)
DataInit ==
  /\ Init
  /\ memory = [cell \in Cells |-> 0]
  /\ stored = NothingStored /\ crashed = FALSE /\ stores = 0

Access ==
  /\ ~crashed /\ stores < MaxStores /\ stores' = stores + 1
  /\ \/ \E a \in Addrs, v \in Bytes : bus_write(a, v)
     \/ \E a \in Addrs, w \in Words : bus_write16(a, w.low, w.high)
  /\ UNCHANGED << bus, start, end, memories >>

Call ==
  /\ ~crashed /\ CarefulNext
  /\ stored' = NothingStored /\ UNCHANGED << memory, crashed, stores >>

DataNext == Access \/ Call
DataSpec == DataInit /\ [][DataNext]_<< vars, dataVars >>

-----------------------------------------------------------------------------
(***************************************************************************)
(* What a successful store stored is what the next read finds, in bytes    *)
(* and in words, also across two components, unless both its addresses are *)
(* of one byte (bus_write and bus_write16 against bus_read and             *)
(* bus_read16).                                                            *)
(***************************************************************************)
ReadsBackWhatItStored ==
  stored # NothingStored /\ result = "ERR_NONE" /\ ~crashed =>
    /\ (\A x, y \in DOMAIN stored : x # y => bus[x] # bus[y]) =>
         \A a \in DOMAIN stored : bus_read(a) = stored[a]
    /\ \A a \in DOMAIN stored : a + 1 \in DOMAIN stored =>
         bus_read16(a) = [low |-> bus_read(a), high |-> bus_read(a + 1)]

(***************************************************************************)
(* A component's bytes change only by stores within its own range, or the  *)
(* range of one it shares its memory with: no unplug, remap or free of     *)
(* another leaves an address behind through which they could be changed    *)
(* (bus_unplug, bus_remap, component_shared).                              *)
(***************************************************************************)
StoredWithin(c) == \E a \in DOMAIN stored : \E d \in Components :
                     IsPlugged(d) /\ mem[d] = mem[c] /\ a \in Span(d)
StoresStayInTheirComponent ==
  [][\A c \in Components : \A cell \in Cells :
       mem[c] = cell.block /\ memory'[cell] # memory[cell] => StoredWithin(c)']_<< vars, dataVars >>

(***************************************************************************)
(* A store goes astray only as a word stored at the last address of a      *)
(* component that has nothing plugged behind it (the test of bus_write16). *)
(***************************************************************************)
OnlyWordsAtAnEndGoAstray ==
  crashed => \E c \in Components :
               /\ IsPlugged(c) /\ DOMAIN stored = { end[c], end[c] + 1 }
               /\ \A d \in Components : IsPlugged(d) => end[c] + 1 \notin Span(d)
=============================================================================
