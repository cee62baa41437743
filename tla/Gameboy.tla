------------------------------ MODULE Gameboy ------------------------------
(***************************************************************************)
(* How gameboy.c puts a Game Boy together on the bus and takes it apart,   *)
(* when allocations and the cartridge file may fail at any call.           *)
(*                                                                         *)
(* gameboy_create and the functions it calls test almost every call with   *)
(* M_REQUIRE_NO_ERR(call).  The macro names its argument twice, so a call  *)
(* that fails is made again, and the code returned is the second call's.   *)
(***************************************************************************)
EXTENDS Bus, Sequences, FiniteSetsExt

CONSTANTS
  Area,   (* Area[c]: the first and last address of component c, gameboy.h  *)
  RegIF, RegIE,
  Reads   (* what cartridge_init_from_file may return                       *)

VARIABLES
  phase,      (* "create", "created" or "freed"                             *)
  at,         (* the step of the running phase to take next                 *)
  again,      (* the step is the second call of its M_REQUIRE_NO_ERR        *)
  outer,      (* so is the function called by gameboy_create it is part of  *)
  error,      (* what gameboy_create returned                               *)
  cpu_bus,    (* cpu.bus is set                                             *)
  nb_components

control == << phase, at, again, outer, error >>
allVars == << vars, control, cpu_bus, nb_components >>

GB_NB_COMPONENTS == 6
CPURegisters == 1        \* block 1 stands for the IF and IE of the cpu_t itself

First(c) == Area[c][1]
Last(c)  == Area[c][2]
MEM_SIZE(c) == Last(c) - First(c) + 1

(* The parts of gameboy.h; REG_IF is among the registers                     *)
Parts == { "high_ram", "cartridge", "work_ram", "echo", "echo_ram", "registers", "extern_ram",
           "video_ram", "graph_ram", "useless", "bootrom" }

ASSUME LayoutAssumption ==
  /\ Parts \subseteq Components
  /\ Area \in [Components -> Addrs \X Addrs]
  /\ RegIF \in First("registers") .. Last("registers") /\ RegIE \in Addrs

-----------------------------------------------------------------------------
Step(in, call, c) == [in |-> in, call |-> call, c |-> c, checked |-> TRUE]
Tested(call, c)   == << Step("gameboy_create", call, c) >>
Untested(call, c) == << [Step("gameboy_create", call, c) EXCEPT !.checked = FALSE] >>

CompInitAndPlug(c) == Tested("create", c) \o Tested("plug", c)

(* cpu_init; cpu_plug, which ignores bus_plug's answer                       *)
CPUSteps ==
  << Step("cpu_init", "create", "high_ram") >>
  \o Untested("plug", "high_ram") \o Untested("point", "high_ram")

(* cartridge_init, which first forgets the component, and its plug           *)
CartridgeSteps ==
  << Step("cartridge_init", "create", "cartridge"),
     Step("cartridge_init", "read", "cartridge") >>
  \o Tested("plug", "cartridge")

(* echo is the component_t allocated for the purpose, and copied             *)
EchoSteps ==
  Tested("share", "echo") \o Tested("plug", "echo")
  \o Untested("mem_free", "echo") \o Untested("copy", "echo_ram")

BootSteps ==
  << Step("bootrom_init", "create", "bootrom") >> \o Tested("plug", "bootrom")

CreateSteps ==
  CPUSteps \o CartridgeSteps \o CompInitAndPlug("work_ram") \o EchoSteps
  \o CompInitAndPlug("registers") \o CompInitAndPlug("extern_ram")
  \o CompInitAndPlug("video_ram") \o CompInitAndPlug("graph_ram")
  \o CompInitAndPlug("useless") \o BootSteps

FreeThenUnplug(c) == Untested("free", c) \o Untested("unplug", c)        \* fault
UnplugThenFree(c) == Untested("unplug", c) \o Untested("free", c)

ForgetsTheFlags ==                                                       \* fault
  (IF cpu_bus THEN Untested("unplug", "high_ram") ELSE << >>) \o Untested("free", "high_ram")
cpu_free ==
  (IF cpu_bus THEN Untested("unplug", "high_ram") \o Untested("unpoint", "high_ram") ELSE << >>)
  \o Untested("free", "high_ram")

FreeSteps ==
  (IF nb_components = 0 THEN << >>
   ELSE UnplugThenFree("work_ram") \o UnplugThenFree("registers")
        \o UnplugThenFree("extern_ram") \o UnplugThenFree("video_ram")
        \o UnplugThenFree("graph_ram") \o UnplugThenFree("useless"))
  \o UnplugThenFree("echo_ram") \o cpu_free
  \o UnplugThenFree("bootrom") \o UnplugThenFree("cartridge")

-----------------------------------------------------------------------------
(* cpu_plug's and cpu_free's stores into the bus itself                      *)
PointRegisters(cellIF, cellIE) ==
  /\ bus' = [bus EXCEPT ![RegIF] = cellIF, ![RegIE] = cellIE]
  /\ UNCHANGED << memories, start, end, result >>

CopyEcho ==
  /\ mem' = [mem EXCEPT !["echo_ram"] = mem["echo"]]
  /\ SetRange("echo_ram", start["echo"], end["echo"])
  /\ UNCHANGED << bus, length, used, structs, arrays, result >>

(* The malloc of a component_t is not looked at; component_shared is.        *)
ShareEcho ==
  \/ component_shared("echo", "work_ram")
  \/ /\ "no_struct" \in Allocations /\ result' = "ERR_BAD_PARAMETER"
     /\ UNCHANGED << bus, memories, start, end >>

ReadCartridge ==
  /\ result' \in Reads
  /\ UNCHANGED << bus, memories, start, end >>

(* bootrom_plug is a bus_forced_plug                                         *)
Plug(c, first, last) ==
  IF c = "bootrom" THEN bus_forced_plug(c, first, last, 0) ELSE bus_plug(c, first, last)

Perform(step) ==
  /\ \/ step.call = "create"   /\ component_create(step.c, MEM_SIZE(step.c))
     \/ step.call = "plug"     /\ Plug(step.c, First(step.c), Last(step.c))
     \/ step.call = "point"    /\ PointRegisters([block |-> CPURegisters, at |-> 0],
                                                 [block |-> CPURegisters, at |-> 1])
     \/ step.call = "unpoint"  /\ PointRegisters(NULL, NULL)
     \/ step.call = "read"     /\ ReadCartridge
     \/ step.call = "share"    /\ ShareEcho
     \/ step.call = "mem_free" /\ mem_free(step.c)
     \/ step.call = "copy"     /\ CopyEcho
     \/ step.call = "unplug"   /\ bus_unplug(step.c)
     \/ step.call = "free"     /\ component_free(step.c)
  /\ cpu_bus' = (cpu_bus \/ step.call = "point")
  /\ nb_components' = IF /\ step.call = "plug" /\ step.c = "useless"
                          /\ result' = "ERR_NONE"
                       THEN GB_NB_COMPONENTS ELSE nb_components

-----------------------------------------------------------------------------
(* Where gameboy_create goes after a step                                    *)
Current == CreateSteps[at]
Nested  == Current.in # "gameboy_create"
Passed  == Current.checked => result' = "ERR_NONE"

(* The steps of the function the current one belongs to                      *)
Siblings == { i \in DOMAIN CreateSteps : CreateSteps[i].in = Current.in }

Go(i) ==
  /\ at' = i /\ again' = FALSE
  /\ UNCHANGED << phase, error >>

Return(code) ==
  /\ phase' = "created" /\ error' = code
  /\ at' = 1 /\ again' = FALSE /\ outer' = FALSE

(* The first call passes: on to the next, or out of the function.            *)
Pass ==
  /\ ~again /\ Passed
  /\ IF at = Len(CreateSteps) \/ (outer /\ at = Max(Siblings))
     THEN Return("ERR_NONE")
     ELSE Go(at + 1) /\ UNCHANGED outer

(* It fails: M_REQUIRE_NO_ERR makes it again.                                *)
Repeat ==
  /\ ~again /\ ~Passed
  /\ again' = TRUE
  /\ UNCHANGED << phase, at, outer, error >>

(* What the second call answers is what the function returns, be it success. *)
Leave ==
  /\ again
  /\ \/ (outer \/ ~Nested) /\ Return(result')
     \/ ~outer /\ Nested /\ Passed /\ Go(Max(Siblings) + 1) /\ UNCHANGED outer
     \/ ~outer /\ Nested /\ ~Passed /\ Go(Min(Siblings)) /\ outer' = TRUE

Create ==
  /\ phase = "create"
  /\ Perform(Current)
  /\ Pass \/ Repeat \/ Leave

(* The callers, test-gameboy.c and gbsimulator.c, free what was created, or  *)
(* what was not.                                                             *)
gameboy_free ==
  /\ phase = "created"
  /\ Perform(FreeSteps[at])
  /\ IF at < Len(FreeSteps)
     THEN at' = at + 1 /\ UNCHANGED phase
     ELSE at' = 1 /\ phase' = "freed"
  /\ UNCHANGED << again, outer, error >>

Start ==
  /\ bus = [a \in Addrs |-> NULL]
  /\ mem = [c \in Components |-> 0]
  /\ start = [c \in Components |-> 0] /\ end = [c \in Components |-> 0]
  /\ length = [b \in Blocks |-> IF b = CPURegisters THEN 2 ELSE 0]
  /\ used = 1 /\ structs = { CPURegisters } /\ arrays = { CPURegisters }
  /\ result = "ERR_NONE"
  /\ phase = "create" /\ at = 1 /\ again = FALSE /\ outer = FALSE /\ error = "ERR_NONE"
  /\ cpu_bus = FALSE /\ nb_components = 0

GameboyNext == Create \/ gameboy_free
GameboySpec == Start /\ [][GameboyNext]_allVars

-----------------------------------------------------------------------------
WorkRAM == (First("work_ram") .. Last("work_ram")) \cup (First("echo") .. Last("echo"))

(***************************************************************************)
(* Wherever gameboy_create stops, and all through the gameboy_free that    *)
(* follows, no address outside the work RAM and its echo points into       *)
(* freed memory (cpu_free, cartridge_free, the order of gameboy_free).     *)
(***************************************************************************)
RestOfTheBusIsLive == \A a \in Addrs \ WorkRAM : bus[a] = NULL \/ bus[a].block \in arrays

(***************************************************************************)
(* After gameboy_free nothing else is left on the bus, wherever            *)
(* gameboy_create stopped (gameboy_free, cpu_free).                        *)
(***************************************************************************)
FreeUnmapsTheRest == phase = "freed" => \A a \in Addrs \ WorkRAM : bus[a] = NULL

-----------------------------------------------------------------------------
(***************************************************************************)
(* gameboy.h: gameboy_create creates a Game Boy.  With memory to be had    *)
(* and a sound cartridge it returns ERR_NONE.                              *)
(***************************************************************************)
CreatesAGameboy == phase # "create" => error = "ERR_NONE"
=============================================================================
