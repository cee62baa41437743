----------------------------- MODULE Simulator ------------------------------
(***************************************************************************)
(* gbsimulator.c in the window of sidlib.c: a timer draws frames, each of  *)
(* which runs the Game Boy up to the present; keys go to the joypad; space *)
(* stops the frames and starts them again; 'q' ends the main loop.         *)
(* The clock is read at the top of main; the name of the cartridge is then *)
(* waited for, the Game Boy made and the window built before frames come.  *)
(*                                                                         *)
(* The main loop of GTK is one thread: no event is handled before the one  *)
(* before it has returned.  The clock goes on all the while, and is never  *)
(* set back.                                                               *)
(***************************************************************************)
EXTENDS GameboyRun

CONSTANTS
  Keys,           (* the keys of the joypad                                  *)
  GB_CYCLES_PER_S, SECOND,   (* cycles, and units of the clock, per second    *)
  MaxClock        (* bound: the clock                                        *)

ASSUME RateAssumption == GB_CYCLES_PER_S \in Nat /\ SECOND \in Nat \ {0}

VARIABLES
  clock,          (* what gettimeofday returns                               *)
  start, paused,  (* the globals of the same names                           *)
  timeout_id,     (* of the window: 0 without a frame timer                   *)
  key_status,     (* of the window: the keys whose bit is set                 *)
  pad,            (* for each key, the presses less the releases the joypad was told of *)
  held,           (* the keys held down on the keyboard                       *)
  open,           (* gtk_main has begun and not returned                       *)
  shown,          (* what the window shows, "nothing" before there is one     *)
  startup,        (* how long main took to come to its window                 *)
  active          (* how long the frame timer has been on                     *)

windowVars == << clock, start, paused, timeout_id, key_status, pad, held, open, shown, startup, active >>
vars == << runVars, windowVars >>

(* get_time_in_GB_cycles_since                                              *)
RoundsUp(from) == ((clock - from) * GB_CYCLES_PER_S + SECOND - 1) \div SECOND  \* fault
get_time_in_GB_cycles_since(from) == ((clock - from) * GB_CYCLES_PER_S) \div SECOND

(* main has just read the clock and cleared paused                          *)
Init ==
  /\ RunInit
  /\ clock = 0 /\ start = 0 /\ paused = 0 /\ timeout_id = 0
  /\ key_status = {} /\ pad = [k \in Keys |-> 0] /\ held = {}
  /\ open = FALSE /\ shown = "nothing" /\ startup = 0 /\ active = 0

-----------------------------------------------------------------------------
Launched == shown # "nothing"

Tick ==
  /\ clock < MaxClock /\ clock' = clock + 1
  /\ startup' = startup + (IF Launched THEN 0 ELSE 1)
  /\ active' = active + (IF timeout_id > 0 THEN 1 ELSE 0)
  /\ UNCHANGED << runVars, start, paused, timeout_id, key_status, pad, held, open, shown >>

(* The name is read, gameboy_create has succeeded and there is a window: the *)
(* frames begin.  If it never comes to that, main stays where it is or ends  *)
Launch ==
  /\ ~Launched /\ shown' = "black"
  /\ timeout_id' = 1 /\ open' = TRUE
  /\ UNCHANGED << runVars, clock, start, paused, key_status, pad, held, startup, active >>

(* update_ and generate_image: the call, then the steps it takes            *)
Frame ==
  /\ open /\ timeout_id > 0
  /\ gameboy_run_until(get_time_in_GB_cycles_since(start))
  /\ UNCHANGED windowVars

(* Only an error is followed by the drawing; image_get_pixel is given NULL  *)
(* for its output, fails, and the pixel is drawn all the same               *)
Run ==
  /\ Running
  /\ shown' = IF at' = "idle" /\ err' # "ERR_NONE" THEN "white" ELSE shown
  /\ UNCHANGED << clock, start, paused, timeout_id, key_status, pad, held, open, startup, active >>

Event == open /\ at = "idle" /\ UNCHANGED << runVars, clock, startup, active, shown >>

(* A key held down repeats its press; a key may be released that was pressed *)
(* before there was a window                                                 *)
TellsEachRepeat(k) ==                                                \* fault
  /\ Event
  /\ held' = held \cup { k }
  /\ key_status' = key_status \cup { k }
  /\ pad' = [pad EXCEPT ![k] = @ + 1]
  /\ UNCHANGED << start, paused, timeout_id, open >>
keypress_handler(k) ==
  /\ Event
  /\ held' = held \cup { k }
  /\ key_status' = key_status \cup { k }
  /\ pad' = IF k \in key_status THEN pad ELSE [pad EXCEPT ![k] = @ + 1]
  /\ UNCHANGED << start, paused, timeout_id, open >>

keyrelease_handler(k) ==
  /\ Event
  /\ held' = held \ { k }
  /\ key_status' = key_status \ { k }
  /\ pad' = IF k \in key_status THEN [pad EXCEPT ![k] = @ - 1] ELSE pad
  /\ UNCHANGED << start, paused, timeout_id, open >>

(* Space: the handler of gbsimulator.c, then the one of sidlib.c            *)
Pause ==
  /\ Event /\ timeout_id > 0
  /\ paused' = clock /\ timeout_id' = 0
  /\ UNCHANGED << start, key_status, pad, held, open >>

StartsAgain ==                                                       \* fault
  /\ Event /\ timeout_id = 0
  /\ start' = start + paused /\ paused' = 0 /\ timeout_id' = 1
  /\ UNCHANGED << key_status, pad, held, open >>
Resume ==
  /\ Event /\ timeout_id = 0
  /\ start' = start + (clock - paused) /\ paused' = 0 /\ timeout_id' = 1
  /\ UNCHANGED << key_status, pad, held, open >>

Quit ==
  /\ Event /\ open' = FALSE
  /\ UNCHANGED << start, paused, timeout_id, key_status, pad, held >>

Next ==
  \/ Tick
  \/ Launch
  \/ Frame
  \/ Run
  \/ \E k \in Keys : keypress_handler(k) \/ keyrelease_handler(k)
  \/ Pause \/ Resume \/ Quit

(* A call of gameboy_run_until is not interrupted: it goes on until it       *)
(* returns                                                                   *)
Spec == Init /\ [][Next]_vars /\ WF_vars(Run)

-----------------------------------------------------------------------------
TypeOK ==
  /\ RunTypeOK
  /\ clock \in Nat /\ start \in Nat /\ paused \in Nat /\ startup \in Nat /\ active \in Nat
  /\ timeout_id \in { 0, 1 } /\ open \in BOOLEAN /\ shown \in { "nothing", "black", "white" }
  /\ key_status \subseteq Keys /\ pad \in [Keys -> Nat] /\ held \subseteq Keys

(***************************************************************************)
(* The joypad was told once of each key that is held and of no other,      *)
(* however often a key repeats and whatever happens between its press and  *)
(* its release (the do_key macros).                                        *)
(***************************************************************************)
PadFollowsTheKeys ==
  key_status = held /\ pad = [k \in Keys |-> IF k \in held THEN 1 ELSE 0]

(***************************************************************************)
(* The time the Game Boy is to run for is the time main took to come to    *)
(* its window, since the clock is read before that, and the time the       *)
(* frames were on: each pause and resume moves start on by exactly the     *)
(* length of the pause (the space key of keypress_handler).                *)
(***************************************************************************)
PausesDoNotCount ==
  startup + active = (IF Launched /\ timeout_id = 0 THEN paused ELSE clock) - start

(***************************************************************************)
(* The Game Boy never runs ahead of that time, whose first part its first  *)
(* frame makes up for.                                                     *)
(***************************************************************************)
NeverAhead == cycles <= 1 \/ cycles * SECOND <= (startup + active) * GB_CYCLES_PER_S

(***************************************************************************)
(* Every frame comes to an end and has run the Game Boy up to the time it  *)
(* began at, however many keys, pauses and further frames follow.          *)
(***************************************************************************)
FramesCatchUp ==
  \A n \in 0 .. (MaxClock * GB_CYCLES_PER_S) \div SECOND :
    at # "idle" /\ cycle = n ~> at = "idle" /\ cycles >= n
=============================================================================
