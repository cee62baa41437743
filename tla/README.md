# A verification of the Game Boy emulator

TLA+ models of the emulator in this repository (PPS-GBemul, `src/*.c`), model-checked with TLC
on small instances and, for the parts that matter most, proved with TLAPS for every value of the
constants. Line numbers refer to the files of the repository.

## 1. The system

The program is sequential: one thread calls the components in turn. What makes it hard is that
the components talk through shared memory (the bus), through one-cycle signals
(`cpu.write_listener`, `cpu.IF`), and through calls whose errors are retried, dropped or
misread. The order of those calls is the concurrency of the program.

| Component | State | Operations | Talks to |
|---|---|---|---|
| CPU (`cpu.c`, `cpu-storage.c`, `cpu-alu.c`, `cpu-registers.c`) | `PC`, `SP`, registers, `IME`, `HALT`, `IE`, `IF`, `idle_time`, `write_listener`, the ALU's last output, its high RAM | `cpu_cycle`, `cpu_request_interrupt`, `cpu_init`, `cpu_plug`, `cpu_free` | reads and writes the bus; announces its stores in `write_listener` |
| Opcode tables (`opcode.c`, `opcode.h`) | constant | lookup by opcode byte | read by the CPU |
| ALU and bits (`alu.c`, `bit.c`) | none | arithmetic with flags | called by the CPU and the timer |
| Bus (`bus.c`) | 65536 pointers | plug, forced plug, remap, unplug, read and write of 8 and 16 bits | points into the memories of the components |
| Components and memories (`component.c`, `memory.c`) | `mem`, `start`, `end`; an array and its size | create, share, free | owned by the parts of the Game Boy |
| Timer (`timer.c`) | `counter`; `DIV`, `TIMA`, `TMA`, `TAC` on the bus | `timer_cycle`, `timer_bus_listener` | reads and writes its registers through the bus, requests interrupts |
| Game Boy (`gameboy.c`) | all of the above, `cycles`, `boot` | `gameboy_create`, `gameboy_free`, `gameboy_run_until` | composes everything |
| Cartridge, boot ROM (`cartridge.c`, `bootrom.c`) | a component each | init, plug, free; the boot ROM's listener unplugs it | plugged on the same addresses |
| Bit vectors and images (`bit_vector.c`, `image.c`) | chunks of 32 bits | logic, extraction, shift, join | the screen |
| Simulator (`gbsimulator.c`, `sidlib.c`) | start and pause times, key status, frame timer | frame callback, key callbacks | calls `gameboy_run_until` |
| Error macros (`error.h`) | none | `M_REQUIRE_NO_ERR(call)` evaluates a failing call a second time | used by every function above |

What makes each part correct:

- **Timer**: `TIMA` ticks once per period of the selected bit, whatever the program stores to the
  registers and whenever the listener is called; `DIV` shows the counter; an overflow reloads `TMA`
  and requests the interrupt; none is missed for ever.
- **CPU**: calls, returns and interrupts nest through the stack in memory; an interrupt that was
  requested is neither lost nor starved; HALT ends; every store is announced to the listeners.
- **Bus and memories**: an address never points outside an array or into one that was freed; the bus
  is exactly what the components say.
- **Game Boy**: creation and destruction leave the bus sound wherever creation stops.
- **ALU, bit vectors**: the results and flags are those of the arithmetic they stand for.
- **Images**: each call draws, pixel by pixel, what its function promises of its arguments, an error changes nothing, and every bit
  vector has one owner and is freed.
- **Run loop and simulator**: each frame brings the Game Boy to the present and never past it, a
  pause does not count, the timer misses only the stores the code cannot tell it of, and the joypad has
  exactly the keys that are held.

## 2. The modules

| Module | Models | Extends / instantiates |
|---|---|---|
| `TimerRate` | what the timer promises, without counter bits | |
| `GBTimer` | `timer.c` and the CPU's stores as the timer sees them | instantiates `TimerRate` |
| `CallStack` | what calls, returns and interrupts promise, without `SP` or bytes | |
| `CPU` | `cpu.c`, `cpu-storage.c`, the control effect of `cpu-alu.c` | instantiates `CallStack` |
| `Bus` | `bus.c`, `component.c`, `memory.c` | |
| `BusData` | the bytes behind the bus, the four accessors | extends `Bus` |
| `Gameboy` | `gameboy_create`, `gameboy_free` and what they call | extends `Bus` |
| `ALU` | `alu.c`, `bit.c` and the flags | |
| `Opcodes` | the two tables of `opcode.c`, as rows and columns of `opcode.h`'s instructions | |
| `Datapath` | the CPU with every register, flag and byte | extends `ALU`, `Opcodes` |
| `DatapathControl` | `Datapath` seen as `CPU`: the refinement mapping | extends `Datapath`; instantiates `CPU` |
| `DispatchTests` | the unit tests of dispatch, as programs and what they expect | |
| `GameboyRun` | `gameboy_run_until` | |
| `Simulator` | `gbsimulator.c` in the window of `sidlib.c` | extends `GameboyRun` |
| `Picture` | what each function on lines and images promises, as pixels, arguments and answers | |
| `BitVector` | `bit_vector.c` on chunks, and the laws it keeps | |
| `BitVectorTests` | `unit-test-bit-vector.c` | extends `BitVector` |
| `Image` | `image.c` on a heap of bit vectors | extends `BitVector`; instantiates `Picture` |
| `GBTimer_proofs`, `CPU_proofs`, `Datapath_proofs`, `BusData_proofs` (of `Bus` too), `Gameboy_proofs`, `Simulator_proofs`, `BitVector_proofs`, `Image_proofs` | theorems and their proofs | extend the component and `TLAPS` |
| `MC*` | instances for TLC | extend the component |

Definitions marked `fault` in a comment are plausible mistakes (a dropped guard, an off-by-one, a
swapped order) in the definition they precede. No specification uses them: each is put in the
place of the right definition once, to see that the property beside it in PROJECT.json is then
violated.

### Timer

`counter` is `gbtimer_t.counter`; `reg` is what the bus holds at `REG_DIV .. REG_TAC`;
`write_listener` is the CPU's, restricted to these four addresses and "none". `timer_cycle` and
`timer_bus_listener` are the functions whole, `timer_incr_if_state_change` included (`Advance`).
The CPU is an environment: one store of one byte, one of two bytes (whose second byte the listener
is not told of), one just below `DIV`, none, or the interrupt taken. These interleave with the
timer's two functions in any order, of which the order of `gameboy_run_until` is one. `Byte`,
`Tics` and `Weight` are parameters: 256, 4 and the weights of bits 9, 3, 5, 7 in the program.

For `TAC` the code reads the "old" state after the store has reached the bus, so old and new are
equal and nothing ticks; the model says so, and `TimerRate` states the consequence as the promise:
no store by itself ticks the timer. A store to `DIV` resets the age and ticks early when half a
period had gone by, which is what the falling edge amounts to.

### CPU

One action per case of `cpu_cycle`: `Wait`, `Sleep`, `Interrupt`, `InterruptWithoutIndex`, and
`Execute(lu)`, which has one disjunct per kind of instruction. Data registers and flags are
abstracted: the condition of a conditional jump may hold or not, a stored byte may be any. What
stands at an address is the constant `Code`, a set of instructions with their operands, so that an
instance stands for many programs at once. The bytes at `Tracked` addresses, `IE` and `IF` are
followed; other bytes may be anything when they are read. Effects that look odd and are the code's:

- ALU and storage instructions leave `PC` where it is (`cpu.c:246`, `cpu.c:273`);
- `idle_time` is a byte and HALT and STOP have 0 cycles in the tables, so they wait 255;
- an unknown instruction is dispatched twice, since `M_REQUIRE_NO_ERR` evaluates it twice, and the
  error is dropped by `cpu_cycle`;
- a push that fails (at 0xFFFF) inside `M_REQUIRE_NO_ERR` is made again two bytes lower, and the
  call or RST then does not jump (`CallPushedTwice`);
- `IE & IF` may have bits no line has: `IME` is cleared and nothing else happens.

The whole address space is plugged, as `test-cpu-week09.c` has it, so that only the top address can
make an access fail.

### ALU, opcodes and the data of the CPU

`ALU` has one operator per function of `alu.c`, `bit.c` and of the flag macros, returning a value and
flags; its laws compare them with exact arithmetic over all bytes and carries. `Opcodes` gives both
tables by the regularity their macros have (eight registers in a row, four pairs in a column) and the
fields that `opcode.h` extracts. `Datapath` is `cpu_cycle` again, this time with the registers, flags,
memory and `write_listener` at their widths and every family of `cpu_dispatch_alu` and
`cpu_dispatch_storage` computed. Families that `cpu-alu.c` leaves to the library of `alu_ext.h` do
nothing in this repository, and so in the model: `SUB`, `SBC`, `AND`, `OR`, `XOR`, `DEC`, the other
rotations and shifts, `SWAP`, `CPL`, `DAA`, `SCF` and `CCF`. `ImplementsControl`, in `DatapathControl`, maps each
state of `Datapath` to one of `CPU` (PC, SP, the lines up in IE and IF, the bytes at the addresses `Followed`) and
says that every cycle is one of `CPU`'s; it is proved, so what is proved of `CPU` for any program is proved of
the CPU with its data. `DispatchTests` holds the unit tests of dispatch of
weeks 8 and 9 as programs of steps (what is set, the opcode dispatched, what must then show), all but
`dispatch_err`, which passes NULL.

### Bus, components, memories

A `memory_t` and its array form a block, numbered when allocated and never reused, so a dangling
pointer stays recognisable. `bus[a]` is `NULL` or a cell: a block and an offset. `component_create`
may succeed, fail for the `memory_t`, or fail for the array, in which case the component keeps the
address of the `memory_t` that has just been freed, as the code does. `Spec` makes any call with any
arguments on components that can be looked at; `CarefulSpec` is a client with the habits of the
tests and of `gameboy.c`: it plugs what is unplugged, forces a plug only where nothing is, and
unplugs before it frees. (The program never plugs over an occupied range on purpose but in
`cartridge_plug`, after it has unplugged the boot ROM from it.)

`BusData` adds the bytes and the four accessors to the careful client. `stored` is what the last call
asked to store, by address; `crashed` is set by a write through NULL, which `bus_write16` makes when
only its lower address is plugged, and nothing follows. A word read where either half is unplugged is
0x00FF, as in the code.

### Game Boy

`CreateSteps` and `FreeSteps` list the calls of `gameboy_create` and `gameboy_free` in order, those
made inside `cpu_init`, `cpu_plug`, `cartridge_init`, `bootrom_init` and `cpu_free` included;
`Perform` does each with the operations of `Bus`. `Pass`, `Repeat` and `Leave` are
`M_REQUIRE_NO_ERR`: a call that fails is made again, and what the second call answers is returned,
success included; for a call nested in `cpu_init`, `cartridge_init` or `bootrom_init` that return is
in its turn an argument of `M_REQUIRE_NO_ERR` in `gameboy_create`. Block 1 stands for the `cpu_t`,
whose `IF` and `IE` `cpu_plug` puts on the bus by hand. The file is a choice of what
`cartridge_init_from_file` returns. `MCGameboy` lays the components out in the order of `gameboy.h`
on 32 addresses.

### The run loop and the simulator

`GameboyRun` is `gameboy_run_until` one call at a time: `at` is the call it makes next. The CPU and
the timer are seen from outside, by how often they are called, by `PC` and by what was stored. A cycle may
store a byte or a word. `write_listener` gets the address of the byte, or the lower one of the word
(`cpu_write16_at_idx`), so a word stored just below `DIV`, or at `TMA`, changes `DIV` or `TAC` with another
register's name in `write_listener`. `announced` says that the timer knows of what the last cycle did to `DIV`
or `TAC`; `silent` counts the stores it was never told of, `above` those that were the upper byte of a word.

`Simulator` drives it. It begins where `main` has read the clock into `start` (`gbsimulator.c:200`); the wait for
the cartridge's name, `gameboy_create` and the building of the window take whatever time they take, and `Launch`
(`sd_launch`) then starts the frame timer. `Launch` supposes that `gameboy_create` has succeeded, which in this
repository it never does (section 6); where it fails `main` ends, and no frame comes. `Frame` is `update_` calling `generate_image`, which asks
for the cycles since `start`; `Run` is each step it takes until it returns; `Pause` and `Resume` are
the space key in both handlers, `keypress_handler` and `keyrelease_handler` the `do_key` macros with
their repeats, `pad` counting for each key the presses less the releases the joypad was told of. GTK's main loop is one thread, so no event comes inside another (`Event` requires
`at = "idle"`), while the clock goes on (`Tick`). It is supposed not to be set back.

What is drawn is only black or white: `generate_image` draws when `gameboy_run_until` reports an
error and gives up when it succeeds (`err == 0` at `gbsimulator.c:58`), and the pixel it then asks
`image_get_pixel` for has NULL for its destination.

### Bit vectors and images

A vector of `BitVector` is a size and its chunks, each the set of its bits that are 1, padding
included: `bit_vector_create` and `bit_vector_not` clear it, extraction and shift fill it with what
lies there. An index is reduced by `SIZE_RANGE`, 2^64 in the program, where a `size_t` wraps.
`BitVectorTests` evaluates every assertion of `unit-test-bit-vector.c`.

`Image` keeps a heap of vectors, since what is hard in `image.c` is whose they are: each operation on
lines allocates three, any allocation may fail, by choice or because the heap is full (`Allocated`), `valid` frees what was made,
`image_line_map_colors` and `image_line_below_with_opacity` make masks and intermediate vectors, and
`image_own_line_content` moves a line into an image, which then frees it. `call` is the last call, a function
and its arguments, `result` what it returned, and `short` whether an allocation failed in it.

`Picture` has one action per function of `image.h`, with the same arguments: what the function draws, pixel by
pixel, from the lines it was given, when it refuses them, and what it answers. `Image` implements it with `call`,
`result` and `short` as they are and the lines and rows as they are seen (`LinesSeen`, `RowsSeen`): a step is thus
tied to its function, its operands in their order, its index, palette or start, and its answer. A line of which a
part is missing has no pixels, but may still have its opacity (`Incomplete`).

## 3. The runs

| Run | Instance and bounds | Shows |
|---|---|---|
| `timer` | 3-bit registers, 6-bit counter, 2 tics, bits 4, 1, 2, 3; stored bytes 0, 4, 7 | types, alignment, `DIV`, refinement of `TimerRate`, and that interrupts keep coming |
| `timer_width` | the program's own widths; `TAC` stored once, then cycles | the closed form of `TIMA` and `DIV` that `unit-test-timer.c` samples, for each selector through a whole turn of the counter |
| `cpu` | 3-bit bytes, 6-bit addresses, 2 lines; interrupts requested while at most `MaxDepth` = 2 frames are on the stack | types, interrupts neither lost nor starved, HALT ends, refinement of `CallStack`, and that the program keeps to its stack |
| `cpu_any` | 2-bit bytes, 4-bit addresses, one line, every family at every address | every store announced, for any program |
| `bus` | 4 addresses, 3 interchangeable components, sizes 0, 2, 4, `MaxBlocks` = 2, `MaxStores` = 1 of a byte or a word of two different bytes | a careful client: nothing dangles, the bus is exact, a store is read back, reaches no other component, and goes astray only as a word at an end |
| `bus_any` | 2 addresses, 2 components, sizes 1, 2, `MaxBlocks` = 2 | any client: nothing out of bounds |
| `datapath` | real widths; each opcode of both tables in five situations, `MaxCycles` = 4; the unit tests as programs; interrupts in between | every cycle is one of `CPU`; the tests' expectations; POP undoes PUSH; arithmetic exact over all bytes; the tables decode as they are dispatched |
| `machine` | 2 keys, a clock of `MaxClock` = 3 units of 3/2 cycles, `MaxCalls` = 3 frames, `MaxAbove` = 1 word with `DIV` or `TAC` for its upper byte | the properties of the run loop and of the simulator, from the reading of the clock on, and that every frame ends |
| `image` | three lines, one of 34 pixels with garbage in its padding, one of 32 or 34, one empty; `MaxCalls` = 2, `MaxVectors` = 24; any one of the first 9 allocations of a call failing; `SIZE_RANGE` = 2^16 | what each call draws and answers, errors, ownership and leaks; the laws of `BitVector` and the tests of `unit-test-bit-vector.c` |
| `gameboy` | 32 addresses, any allocation and the file may fail | outside the work RAM nothing dangles, and nothing is left after `gameboy_free` |
| `cpu_week08`, `gameboy_create` | | each refutes a sentence of the repository, see section 6 |

Why the bounds are enough. The timer's behaviour depends on the counter only through which half of a
selected period it is in and on `TIMA` through its maximum; the small widths keep a selector below,
at and above the byte boundary, `TIMA` overflowing within one turn of the counter and not, and `Tics`
above 1, and the theorems below hold at every width. In `cpu` the program contains every control
family that can run past one instruction, a call within a call, RST, an interrupt in each of them and
an interrupt within an interrupt; one more level repeats the same frames lower. The stack starts at 0,
where `cpu_init` puts it: the first frame's high byte lands in `REG_IE`. `cpu_any` has one state per
combination of the little memory there is, so pushes over `REG_IF`, over `REG_IE` and at the top
address all happen. In `bus` two components can be plugged beside each other while a third shares the
memory of one of them, a range can be remapped at an offset, and a word can lie inside a component, across
two of them and across an end with nothing behind it; block numbers only separate a freed
array from a live one, which needs one more block than a component holds. In `datapath` the situations
are an ordinary program, operands that wrap at the top of memory, a stack at either end of it, and
pointers to `REG_IF` and `REG_IE` with a line enabled; after the first instruction whatever the bytes
behind it mean is executed. Arithmetic is checked over every byte, pair of bytes and carry. In
`machine` a unit of the clock is a cycle and a half, so that a frame's target is rounded
down and two frames may ask for the same, and the window may come at any reading of the clock, the first
included; three calls are one with the boot ROM, one that loses it and one after, and one word above
`write_listener` makes a silent store that is not a call's last. In `image` a vector has two chunks, of which the second is nearly all padding, the shifts and starts
are on both sides of a chunk's edge, and two calls are enough for one to read what another left
in an image. After a refused call, which has changed nothing but `call` and `result`, none is made (`MCNext`). 34 does not divide 2^16, so a negative index shows what wrapping does to it.

In `gameboy` `MaxBlocks` = 15 is never reached. Some instances stop and so do not look for deadlock:
in `gameboy` and `gameboy_create` each behaviour ends with `gameboy_free` done, in `bus` nothing follows
a crash, and `datapath`, `image` and `machine` end with their last cycle, call or tick. The other runs
look for it.

The temporal properties and the fairness they need:

- `WF(timer_cycle)`: `gameboy_run_until` begins with it, and the window calls `gameboy_run_until`
  again for every frame. `KeepsRequesting` supposes besides that the program leaves the timer
  enabled and its registers alone from some time on; the interrupt may be taken at any time.
- `WF(cpu_cycle)`: the loops of `gameboy_run_until` and of the test programs call it without
  condition. Nothing makes an interrupt come: `NothingPendsForEver`, which is `EnabledInterruptIsTaken` and
  `HaltWakesUp`, says what happens once one is pending.
- `WF(Run)`: a call of `gameboy_run_until` goes on until it returns, since nothing in it waits. Nothing
  is assumed of the frame timer, of the clock or of the keys: `FramesCatchUp` says that a frame that was
  begun ends.

## 4. The properties

- `CounterAligned`, `DivFollowsCounter`, `KeepsRequesting`, `TicksAtTheSelectedRate`,
  `TimaCountsPeriods`: the timer.
- `InterruptNotLost`: a raised flag of `IF` goes down only when its handler is entered, as the lowest
  enabled one and with the others left up, or by a store that reaches `REG_IF`.
- `StoresAreAnnounced`: a byte changes only at the address `write_listener` names or just above.
  This is all the listeners have to go by; that a two-byte store is announced by its lower address
  only is why the timer misses one that starts just below `DIV`.
- `ComesBackWhereItLeft`: the return addresses read back from the bytes between `SP` and where it
  started are a stack that only calls and interrupts push and only returns pop, and a return goes
  exactly to the top one. `KeepsToItsStack` is what a program has to do for that, and the one of the run does.
- `MappedInBounds`, `MappedIsLive`, `ExactMapping`: the bus, see section 1.
- `ReadsBackWhatItStored`, `OnlyWordsAtAnEndGoAstray`, `StoresStayInTheirComponent`: through whatever has
  been plugged, shared and remapped before, a store is what the next load finds; the one store that writes
  through NULL is a word at the last address of a component with nothing behind it, `bus_write16`
  looking at the lower of its two addresses only; and bytes change only through a range of theirs.
- `ImplementsControl`: each cycle of `Datapath` is one `CPU` allows, with the bytes, cycles and argument of
  the opcode fetched. `TestsHold`: the repository's tests of dispatch. `PopUndoesPush`: for every pair, with
  AF's flags, in every state reached, unless the push falls on the top address. `ArithmeticIsExact`: nibble
  by nibble with carries handed on is the arithmetic of numbers. `TablesAgree`: no entry of the tables names
  a register that is not there or is refused by the dispatch it belongs to.
- `PartsHaveOneOwner`, `NothingLeaks`: every vector of a line or an image has one owner, and every
  intermediate vector is freed, as long as no call has failed to allocate or met one of the leaks of section 6
  (`lossy`). `ErrorsChangeNothing`: a call that reports an error leaves what was there.
  `DrawsThePicture`: each call is the step `Picture` allows for that function, those arguments and that answer.
  Operands exchanged, a wrong index or palette, an opacity taken from the wrong line, a refusal too many or too few, or
  an `ERR_NONE` with nothing drawn are no such step; only `image_line_map_colors` and the two functions that lay a line
  below another may leave a line incomplete with `ERR_NONE`, and only when memory ran out in that call. `VectorLaws`: see `BitVector`.
- `TimerLagsBehind`: `timer_cycle` runs once per call of `gameboy_run_until` and not once per cycle, so by
  how much the timer is late is known exactly. `HeardButForTwo`: the listeners run before `cpu_cycle`,
  on the store of the cycle before, and the last store of a call is forgotten when the next one
  begins; the upper byte of a word is never announced, in any cycle. All other stores to `DIV` and `TAC` the
  timer is told of before the CPU goes on. `StopsOnTime` (a theorem): a call ends at its target.
- `PadFollowsTheKeys`, `PausesDoNotCount`, `NeverAhead`, `FramesCatchUp`: joypad, status bits and keyboard
  agree under repeats, the joypad being told once of a key that is held; the time the Game Boy is to run for is the
  time the program took to come to its window and the time its frames were on; it never runs ahead of
  that, and each frame comes up to it.
- `RestOfTheBusIsLive`, `FreeUnmapsTheRest`: creation and destruction. They leave out the work RAM
  and its echo because there the code breaks them (section 6).

## 5. The proofs

All theorems hold for every value of the constants the assumptions admit.

**GBTimer** (`ByteAssumption`, `StoredAssumption`, `TicsAssumption`, `WeightAssumption`: a byte has at
least two values, a cycle's tics divide it, and each selectable bit's half-period is a multiple of the
tics and its period divides the counter's range; the program's numbers satisfy this). `TypeCorrect`
and `CounterStaysAligned` are inductive together: `IInv == TypeOK /\ CounterAligned`, since a wrap
keeps the counter aligned only because it is in range. `DivIsKept` follows step by step.
`ImplementsTimerRate` is the refinement: with the counter a multiple of `Tics`, bit `Weight[s]` is
set exactly in the upper half of each period (`BitIsUpperHalf`), so it falls from one cycle to the
next exactly when the age reaches a multiple of the period (`FallsAtPeriod`), and falls at a reset
exactly when half the period had gone by. The lemmas before these are about `\div` and `%`.
`TimaIsThePeriodsGoneBy` is the closed form of `TIMA`, for `TMA` at 0 and `TAC` stored once: `TIMA` wraps at a
byte and the count of periods with the counter, so the two agree modulo the smaller of both, and only if one of
them divides the other (`Commensurable`, true of the program: 64, 4096, 1024 and 256 periods a turn against 256
values of a byte). The values the program may store are supposed to enable the timer; its invariant `Counting`
covers the time before the store and after.

**CPU** (`WidthAssumption`, `LayoutAssumption`: bytes of any width that has a bit for each line,
handlers, RAM and `REG_IF` anywhere, any program). `TypeCorrect` by one step per action;
`RequestsAreKept` and `StoresAreHeard` from it, by what one and two stores may change
(`WrittenNoticed`, `Written16Noticed`) and by the choice of the lowest pending line (`LowestLine`).

`ComesBack` is the refinement of `CallStack`. It cannot hold of every program, since a program may store over its own
return addresses; `KeepsToItsStack` says, of each state, what one must not do, and it is checked by the run `cpu`
on a program that does not. It allows any stores elsewhere, any depth for which there is room, and a stack anywhere: across
the end of memory too, where `REG_IE` is one of its bytes. `SP` is then always a whole number of words from where it
started (`WholeWords`; `Lower`, `Higher`: no two positions of a stack that does not fill memory meet, `Apart`).
A push adds its word, because the bytes it stores are the ones read back, and changes none below (`Pushes`); a return
takes the last away and can go nowhere else (`Pops`); all other steps leave every frame (`Steady`). That a push may fail
and be made again, at the top address, is where a program would go wrong without noticing, and `KeepsToItsStack` excludes it
by its words, none of which lies there (`NoSecondPush`). One hypothesis stays, `BytesAreTheirBits`: a byte in
`REG_IE` is followed as its bits, and that they determine it is arithmetic of 2 ^ `Bits` of which the prover knows nothing;
TLC evaluates it for the run.

**Datapath and ALU** (at the program's widths, which are not parameters of the code; the program is: memory is any
function from addresses to bytes, stores to it included). `ArithmeticOfNumbers` gives the value and the four flags
of each operator of `ALU` the CPU uses, for every byte, word and carry: a sum is split into its nibbles, and each
carry is the quotient of a partial sum. An enumeration reaches the bytes, the theorem also all 2^32 pairs of words.
`TypeCorrect` goes through both dispatches family by family. It needs each entry of the tables to be decoded at an
opcode of its own row and column (a register that is not there, code 6, stands only where the dispatch does not read
it), the results of the ALU to be bytes and flags, and cycles to fit `idle_time`. The low nibble of F stays zero
because whatever stores to F masks it: the flag macros set only the upper four bits and
`cpu_reg_pair_set` clears the rest. From it follow `WhatIsPushedIsPopped`, two bytes stored below `SP` and
read back into a pair, wherever the stack has got to by then, `REG_IF` and `REG_IE` included, and
`ArithmeticStaysExact`. They are stated from any state that is `TypeOK`, so of the initial states of every run, and of
every test, at once.

**Datapath as CPU** (`FollowedAssumption`: the addresses followed are neither `REG_IF` nor `REG_IE`, which are followed
as lines). `ControlImplemented` is the refinement, for every program and every state of the types above.
Its first half says of each function of `cpu-alu.c`, `cpu-storage.c` and of the jumps what it leaves of the control
side (`Leaves`, `AluLeaves`, `StorageLeaves`, `JumpLeaves`): the same, a new `SP`, a store, a push. Its second half finds for
each such outcome the action of `CPU` that has it (`ActsQuietly`, `ActsStoring`), the argument of the instruction
included, and does so for the dispatch of each family, for the ones `M_REQUIRE_NO_ERR` dispatches twice, for both
interrupts and for requests. Between them stands the memory: bytes and lines follow a store on both sides
(`SeenWritten16`), for which setting or clearing one bit of a byte must change no other (`OneBitEdited`), and an address that
wraps must wrap alike (`AdvancedTwice`, `OffsetWrapped`). Two places were not obvious beforehand. A conditional call or RST
at `SP` = 1 pushes twice, and only the second push may be seen (`PushedTwice`); and a register loaded from itself is
refused and so dispatched again, which must leave `PC` where one dispatch does. `RunsAsCPU` says what follows: from
`cpu_init` on every run is a behaviour of `CPU` with constants that meet `CPU`'s assumptions (`ControlConstants`), so
`RequestsAreKept` and `StoresAreHeard` of `CPU_proofs` are about it.

**Bus** (`BusAssumption`; in `BusData_proofs`). `TypeCorrect` and `NothingOutOfBounds` for any client, by one lemma on any
call. For the careful client `MappingStaysExact` and `NothingDangles`, by the invariant
`CarefulInv == TypeOK /\ MappedInBounds /\ SoundPlugs /\ ExactMapping`: exactness is not inductive by
itself, because a remap or a plug keeps it only when the component plugged has a live array that its
range fits in, which `SoundPlugs` adds, and because an unplug empties the right addresses only when
ranges do not meet.

**BusData** (`DataAssumption`: any address space, bytes and lengths). The three properties follow from
`DataInv`: `CarefulInv` of `Bus`, every array as long as its memory says (`LengthsFit`), and what was stored
there now (`StoredIsThere`), which needs the mapping to be exact, since a store that another address of the
same component also named would change what is read back. Storing keeps the mapping
(`AccessKeepsTheMapping`), plugging and freeing keep the lengths (`CallKeepsLengths`).

**Gameboy** (`LayoutAssumption`: any addresses for any parts, as long as `REG_IF` is one of the registers').
`RestOfTheBusIsLive` says nothing of the calls still to come, so it is not inductive. `IInv` adds `Sound` (high RAM and
cartridge, the parts that get on the bus outside the work RAM, share their arrays with no other part, and an address
there that points anywhere points to the live array of the one plugged over it, or to the `cpu_t`), and,
for each place in the lists of calls, which of them is plugged by then (`Creating`, `Freeing`, `Freed`). One lemma per call of
`bus.c` and `component.c` says what it keeps and what it leaves alone. Two facts hold up the rest. The registers are
never plugged, `REG_IF` being on the bus when their turn comes (`NeverAWholeGameboy`), which is the finding
`gameboy_create` of section 6 for every layout (`NeverReportsSuccess`: when nothing fails, the error is still
returned). And the only part whose array is freed while it is on the bus is the work RAM, by its echo's plug.

**GameboyRun and Simulator** (`RateAssumption`: any number of cycles in any second). `Inv` is `RunInv`, which
counts the calls of the timer and of the CPU against `cycles` at every step of a call and keeps the boot flag
and the ROM on the bus together, `WindowInv`, which relates keys, pauses, start time and the time before the window, and `PaceInv`: the
target of the call under way was not ahead when it was computed and the clock has not gone back. The
rounding of time into cycles is monotone (`RoundsDown`), which is all that `NeverRunsAhead` needs of it. For
`StoresAreHeardButForTwo` the invariant also says which of the stores counted in `above` the timer could still be
supposed to hear of: only the last one (`LastIsAbove`), and only until the next cycle counts it as silent.

**BitVector** (`RangeAssumption`). A bit is a chunk and a place (`BitHasChunk`), an operator on
chunks is one on bits whatever the padding (`PaddingIsNoBit`), so `NotIsExact`, `OperatorsAreBitByBit` and
`JoinIsExact` hold of vectors of any size. `ExtractReadsZeros` and `ExtractReadsInTurn` add the
arithmetic of remainders; the latter holds before the start of a vector only under its hypothesis that the
size divides the range of a `size_t`, and the code has no such bound.

**Image** (`SizesAssumption`: any lines, widths and heights above 0, shifts, indexes, palettes, and sets of allocations
that fail, on a heap of any size). A call works on a heap of its own, so its parts are described before the state is.
`Work` and `Adds` say of each helper what it leaves alone, which is all that was in use when the call began, and
what it has made and not yet freed; `Makes` and `Exact` say of each function that returns a line that it leaves
the three parts of that line and nothing else, or nothing if it reports an error, and how wide they are. The rows of
`image_create` are made one after the other (`RowsAreMade`), by an induction derived from the well-foundedness of `<` for
that one statement. The invariant `IInv` says of lines and rows that what each points to is alive, apart, and of
one width when all three parts are there (`Owned`), that no two share a vector (`Disjoint`), and that nothing
else is alive until memory has failed (`Tight`). The widths belong to it: a merge or a join succeeds only on parts of
equal size, and a part missing because of a size would be a leak without a failed allocation. From it follow
`OneOwner`, `NothingIsLost` and `OneWidthEach`. `ErrorsAreHarmless` holds step by step: a call that reports
an error has freed only what it made. `WholeWhileMemoryLasts` says that lines have all their parts until an allocation fails,
`RowsStayWhole` that rows have them always: `image_create` gives up the image otherwise, and only whole lines are accepted.

**Image as Picture** (`PictureDrawn`; under `InRange` besides: sizes, shifts and indexes stay within a `size_t`, and
a negative index is used only with widths that divide its range, which is a limit the code has; `MCImage` assumes
it). The refinement adds bits to the widths. `Yields` says of each function on vectors the bits of the new one, from
the lemmas of `BitVector_proofs`, and that the heap is otherwise as it was; `Draws` says it of the three parts of a
line, and `Shows` of the state after. `Seen` reads the parts as pixels, and the lemmas `...IsDrawn` find each call to be
what `Picture` says: a shift or an extraction takes each pixel from its place or leaves it blank, a join
takes it from one side or the other, a palette maps colours through masks that exclude each other, and the opaque
pixel hides the one below. What a call does not return it must not change, which is `Same` of the heap with
the disjointness of `OneOwner`. The invariant `Proper` adds to `IInv` that a line that is seen has one of the widths lines are made with. `Proper` is a statement about `Picture` (`ProperLasts`): each
of its functions makes lines of a width asked for. Then each call is matched with the action of its name and arguments
(`CallsOnItself`, `CallsOnALine`, `CallsOnTwoLines`, `ImageCallIsDrawn`). That needs the refusals on both sides to be the
same: a line is whole exactly when it is seen with pixels (`WholeIsDrawn`), two lines match exactly when they are seen
with one width (`LinesMatch`, `RowMatches`, `WordFits`), which rests on the widths in `IInv`. And it needs the answers: `Ends`
says of each function that it returns `ERR_NONE` with a whole line, or an error and no line, or has run out of memory;
only where the function does not check its output does the incomplete line have to be looked at (`LeftIsSeen`). An
incomplete line keeps its opacity, which can be given to `image_line_below_with_opacity`.

**Model-checked only.** Liveness (`KeepsRequesting`, `EnabledInterruptIsTaken`, `HaltWakesUp`,
`FramesCatchUp`), which the prover does not reach; `KeepsToItsStack`, which is about one program;
`TestsHold` and `TablesAgree`, which are about the program's own tables and are settled by enumeration; the assertions
of `unit-test-bit-vector.c` inside `VectorLaws`, whose other parts are instances of theorems.

## 6. Where the code and the repository's own words disagree

Checked, one run each:

1. `cpu_week08`: `test-cpu-week08-output.txt` expects the CPU at address 8 after seven moves between
   registers. `cpu_dispatch` takes `lu -> bytes` off `PC` before an ALU or a storage instruction and
   never adds it again, so the first one repeats for ever.
2. `gameboy_create`: `cpu_plug` puts `IF` on the bus at 0xFF0F before the registers 0xFF00 .. 0xFF7F are
   plugged, which therefore fails: `gameboy_create` never succeeds.

Seen while modelling, and part of the models unless said otherwise:

*Creation and errors.*

- `M_REQUIRE_NO_ERR(call)` returns what a second call answers. When an allocation fails once,
  `gameboy_create` stops there and returns `ERR_NONE`.
- The memory freed after the echo RAM's plug is the work RAM's array, so from then on the work RAM dangles.
- After a failed array allocation `component_t.mem` keeps a freed `memory_t`, which `gameboy_free` reads and
  frees.
- A component plugged twice and then unplugged stays on the bus at its first range. `bus_plug` of a component
  without memory returns `ERR_NONE` and records a range, which a later unplug clears, whoever is
  plugged there. Where `unit-test-cartridge.c:103` expects `ERR_BAD_PARAMETER` of the plug of a cartridge that was
  freed, `cartridge_plug` returns `ERR_NONE`.
- `bus_read16` gives 0x00FF when either half is unplugged and `ERR_ADDRESS` at 0xFFFF, and `bus_write16` across the end of a plugged
  range writes through NULL.

*Instructions.*

- RST and conditional calls with `SP` at 1 push twice and do not jump (`CallPushedTwice`), where
  `unit-test-cpu-dispatch-week09.c` expects the jump of every RST.
- `alu_shiftR_A` (`alu.c:207`) rotates to the right instead of keeping the sign: an odd x below 128 gives
  x / 2 + 128, so 0x0F gives 0x87, where `unit-test-cpu-dispatch.h:203` expects 0x07. Nothing in
  `cpu-alu.c` calls it; it is an operator of `ALU` and in no behaviour.
- `extend_u_16` (`bit.h:111`) shifts its argument into the high byte. Nothing calls it; not modelled.
- `unit-test-cpu-dispatch.c` tests families that `cpu-alu.c` leaves to the library, which do nothing here.
- The tests plug a whole bus over `REG_IF` and `REG_IE`, so in them these are ordinary bytes.

*The run loop.*

- `cycles` starts at 1, so a first target of 1 returns `ERR_BAD_PARAMETER`, after a cycle of the timer and one
  of the CPU have been done.
- The boot ROM's listener is given `PC` for the address stored to. The boot ROM ends with a store at 0xFE,
  after which `PC` is 0x100, so it is not unplugged by that store but only if `PC` itself is 0xFF50.
- `timer_cycle` runs once per call, before the loop.
- A word stored at 0xFF03 or 0xFF06 changes `DIV` or `TAC` without the timer being told, in any cycle
  (`cpu-storage.c:55-61`).

*Bit vectors and images.*

- A negative index of `bit_vector_extract_wrap_ext` wraps in a `size_t` before the remainder is taken, which
  is right only for sizes that divide 2^64. Extraction and shift leave what lies there in the padding.
- `bit_vector_join` does not look at whether its allocation succeeded. `bit_vector_print` leaks
  its copy (printing is not modelled).
- `image_line_map_colors` and `image_line_below` return `ERR_NONE` with parts that are NULL when an
  allocation fails. The mask is lost when an output part is NULL, the copies when the opacity is NULL or of
  another size.
- All but `image_get_pixel` is called only by the LCD controller, which is not in the repository.

*The simulator.*

- `generate_image` draws when `gameboy_run_until` reports an error and gives up when it succeeds
  (`gbsimulator.c:58`), and hands `image_get_pixel` NULL for its destination; the screen is never initialised.
  Given a picture it would show it with its axes exchanged: `x, y` are passed for the `row, col` of `set_grey` (not
  modelled, nothing being drawn from the screen).
- The clock is read before the name of the cartridge is waited for, so that wait, and all else before the window,
  is game time, and the first frame runs the Game Boy for the whole of it.
- `timercmp` is called with two arguments, and the Makefile says of `gbsimulator` that it was not tested.

## 7. What is not modelled, and the plan

Not modelled, with the reasons:

- **External libraries** (`alu_ext.h`, `lcdc.h`, `joypad.h`): headers of code the repository
  has only as binaries (`libcs212gb*.so`); their calls are commented out, and the instruction families that depend on them do nothing.
- **The window** (`sidlib.c`, in part): building widgets and pixel buffers is input and output of GTK. What the
  simulator uses of it, the frame timer, the pause switch, key events and the end of the loop, is in `Simulator`.
- **The simulator, in part**: reading the cartridge's name, a clock that fails or is set back.
- **Error macros, in part**: messages and debug output; what `M_REQUIRE_NO_ERR` evaluates twice is modelled
  wherever the call changes state.
- **Printing and dumping**, and the printing macros of `bit.h`.
- **Tests** of the libraries (`unit-test-alu_ext.c`, `unit-test-cpu-dispatch.c`), and the tests whose programs are
  only the initial states of the models.

Planned next, most useful first:

1. `GameboyRun` with `GBTimer` and `Datapath` inside, in place of counting their calls.
2. `ComesBack` for `Datapath`, through `RunsAsCPU`.
