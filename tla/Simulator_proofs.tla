-------------------------- MODULE Simulator_proofs --------------------------
(***************************************************************************)
(* Proofs about GameboyRun and Simulator, for any number of cycles per     *)
(* second, any keys and any bounds.                                        *)
(***************************************************************************)
EXTENDS Simulator, TLAPS

Looping == { "bootrom_bus_listener", "timer_bus_listener", "next_cycle" }
Starting == { "timer_cycle", "cpu_cycle" }

-----------------------------------------------------------------------------
(* gameboy_run_until, step by step: how many cycles were run, where the loop *)
(* stands, and what the timer has not been told                             *)
Counted ==
  /\ timer_cycles = (IF at = "timer_cycle" THEN calls - 1 ELSE calls)
  /\ cpu_cycles = (IF at \in Starting THEN calls - 1 ELSE calls) + (cycles - 1)
  /\ at \in Starting \cup Looping => calls >= 1

Limited ==
  /\ at \in Looping => err = "ERR_NONE" /\ cycles < cycle
  /\ StopsOnTime

Told ==
  /\ FirstCycles = 0 => silent = 0 /\ above = 0 /\ announced
  /\ announced \/ LastIsAbove \/ (write_listener \in Listened /\ at # "next_cycle")
  /\ HeardButForTwo

RunInv == RunTypeOK /\ cycles >= 1 /\ Counted /\ Limited /\ Told

LEMMA RunStarts == RunInit => RunInv
<1> SUFFICES ASSUME RunInit PROVE RunInv
  OBVIOUS
<1>1. RunTypeOK /\ cycles >= 1 /\ Counted /\ Limited
  BY DEF RunInit, RunTypeOK, Counted, Limited, StopsOnTime, Starting, Looping, Stores, Below, Listened
<1>2. ~LastIsAbove
  BY Zenon DEF RunInit, LastIsAbove
<1>3. announced
  BY Zenon DEF RunInit
<1>4. at = "idle" /\ calls = 0 /\ silent = 0 /\ above = 0
  BY Zenon DEF RunInit
<1>5. FirstCycles = 0
  <2>1. at \notin { "timer_cycle", "cpu_cycle" }
    BY <1>4
  <2>2. FirstCycles = calls - 0
    BY <2>1, Zenon DEF FirstCycles
  <2> QED BY <1>4, <2>2
<1>6. Unheard = 0
  BY <1>4, <1>2 DEF Unheard
<1>7. Told
  BY <1>4, <1>3, <1>5, <1>6 DEF Told, HeardButForTwo
<1> QED BY <1>1, <1>7 DEF RunInv

(* A call begins where no other is under way                                *)
LEMMA CallKeepsRunInv ==
  ASSUME RunInv, NEW until \in Nat, gameboy_run_until(until)
  PROVE  RunInv'
<1> USE DEF RunInv, gameboy_run_until
<1>1. RunTypeOK' /\ (cycles >= 1)'
  BY DEF RunTypeOK
<1>2. Counted'
  BY DEF RunTypeOK, Counted, Starting, Looping
<1>3. Limited'
  BY DEF Limited, StopsOnTime, Looping
<1>4. LastIsAbove' <=> LastIsAbove
  BY Zenon DEF LastIsAbove
<1>5. Told'
  BY <1>4 DEF RunTypeOK, Told, HeardButForTwo, Unheard, FirstCycles
<1> QED BY <1>1, <1>2, <1>3, <1>5

(* A cycle of the CPU hides the store before it, if the timer was not told  *)
LEMMA CycleHidesTheLastStore ==
  ASSUME above \in Nat, silent \in Nat, announced \in BOOLEAN, cpu_cycle
  PROVE  /\ above' \in Nat /\ announced' \in BOOLEAN /\ write_listener' \in Stores
         /\ Unheard' = above
         /\ silent' = IF announced THEN silent ELSE silent + 1
         /\ (announced \/ LastIsAbove \/ write_listener \in Listened)'
<1>1. PICK word \in BOOLEAN :
        /\ write_listener' \in Stores
        /\ announced' = ~(write_listener' \in Listened \/ (word /\ write_listener' \in Below))
        /\ silent' = silent + (IF announced THEN 0 ELSE 1)
        /\ above' = above + (IF word /\ write_listener' \in Below THEN 1 ELSE 0)
  BY DEF cpu_cycle
<1> DEFINE upper == word /\ write_listener' \in Below
<1>2. LastIsAbove' <=> upper
  <2>1. write_listener' \in Below => write_listener' \notin Listened
    BY DEF Below, Listened
  <2> QED BY <1>1, <2>1, Zenon DEF LastIsAbove
<1>3. above' = IF upper THEN above + 1 ELSE above
  <2>1. CASE upper
    BY <1>1, <2>1
  <2>2. CASE ~upper
    BY <1>1, <2>2
  <2> QED BY <2>1, <2>2
<1>4. silent' = IF announced THEN silent ELSE silent + 1
  <2>1. CASE announced
    BY <1>1, <2>1
  <2>2. CASE ~announced
    BY <1>1, <2>2
  <2> QED BY <2>1, <2>2
<1>5. announced' \in BOOLEAN
  BY <1>1, Zenon
<1>6. (announced \/ LastIsAbove \/ write_listener \in Listened)'
  BY <1>1, <1>2, Zenon
<1> HIDE DEF upper
<1> QED BY <1>1, <1>2, <1>3, <1>4, <1>5, <1>6 DEF Unheard

(* One step of it                                                           *)
LEMMA StepKeepsRunInv ==
  ASSUME RunInv, Running
  PROVE  RunInv'
<1> USE DEF RunInv
<1>0. /\ announced \in BOOLEAN /\ silent \in Nat /\ above \in Nat /\ calls \in Nat
      /\ announced => ~LastIsAbove
  BY DEF RunTypeOK, LastIsAbove
<1>1. CASE timer_cycle
  <2>1. LastIsAbove' <=> LastIsAbove
    BY <1>1, Zenon DEF timer_cycle, LastIsAbove
  <2> QED BY <1>1, <2>1 DEF timer_cycle, RunTypeOK, Counted, Limited, StopsOnTime, Told, HeardButForTwo, Unheard, FirstCycles, Starting, Looping
<1>2. CASE FirstCycle
  <2> USE <1>2 DEF FirstCycle, cpu_cycle, Loops
  <2>1. RunTypeOK' /\ (cycles >= 1)'
    BY DEF RunTypeOK
  <2>2. Counted'
    BY DEF RunTypeOK, Counted, Starting, Looping
  <2>3. Limited'
    BY DEF RunTypeOK, Limited, StopsOnTime, Looping
  <2>4. Unheard' = above /\ silent' = IF announced THEN silent ELSE silent + 1
    BY <1>0, CycleHidesTheLastStore
  <2>5. (announced \/ LastIsAbove \/ write_listener \in Listened)'
    BY <1>0, CycleHidesTheLastStore
  <2>6. FirstCycles' = calls /\ FirstCycles = calls - 1 /\ calls >= 1 /\ at' # "next_cycle"
    BY DEF FirstCycles, Counted, Starting
  <2>7. Told'
    <3>1. CASE announced
      BY <1>0, <2>4, <2>6, <2>5, <3>1 DEF Told, HeardButForTwo, Unheard
    <3>2. CASE ~announced
      BY <1>0, <2>4, <2>6, <2>5, <3>2 DEF Told, HeardButForTwo, Unheard
    <3> QED BY <3>1, <3>2
  <2> QED BY <2>1, <2>2, <2>3, <2>7
<1>3. CASE bootrom_bus_listener
  <2>1. LastIsAbove' <=> LastIsAbove
    BY <1>3, Zenon DEF bootrom_bus_listener, LastIsAbove
  <2> QED BY <1>3, <2>1 DEF bootrom_bus_listener, RunTypeOK, Counted, Limited, StopsOnTime, Told, HeardButForTwo, Unheard, FirstCycles, Starting, Looping
<1>4. CASE timer_bus_listener
  <2> USE <1>4 DEF timer_bus_listener
  <2>1. RunTypeOK' /\ (cycles >= 1)' /\ Counted' /\ Limited'
    BY DEF RunTypeOK, Counted, Limited, StopsOnTime, Starting, Looping
  <2>2. LastIsAbove' <=> LastIsAbove
    <3>1. write_listener \in Below => write_listener \notin Listened
      BY DEF Below, Listened
    <3> QED BY <1>0, <3>1, Zenon DEF LastIsAbove
  <2>3. Told'
    BY <1>0, <2>2 DEF Told, HeardButForTwo, Unheard, FirstCycles
  <2> QED BY <2>1, <2>3
<1>5. CASE NextCycle
  <2> USE <1>5 DEF NextCycle, cpu_cycle, Loops
  <2>1. RunTypeOK' /\ (cycles >= 1)'
    BY DEF RunTypeOK
  <2>2. Counted'
    BY DEF RunTypeOK, Counted, Starting, Looping
  <2>3. Limited'
    BY DEF RunTypeOK, Limited, StopsOnTime, Looping
  <2>4. Unheard' = above /\ silent' = IF announced THEN silent ELSE silent + 1
    BY <1>0, CycleHidesTheLastStore
  <2>5. (announced \/ LastIsAbove \/ write_listener \in Listened)'
    BY <1>0, CycleHidesTheLastStore
  <2>6. FirstCycles' = calls /\ FirstCycles = calls /\ calls >= 1 /\ at' # "next_cycle" /\ at = "next_cycle"
    BY DEF FirstCycles, Counted, Starting, Looping
  <2>7. Told'
    <3>1. CASE announced
      BY <1>0, <2>4, <2>6, <2>5, <3>1 DEF Told, HeardButForTwo, Unheard
    <3>2. CASE ~announced
      BY <1>0, <2>4, <2>6, <2>5, <3>2 DEF Told, HeardButForTwo, Unheard
    <3> QED BY <3>1, <3>2
  <2> QED BY <2>1, <2>2, <2>3, <2>7
<1> QED BY <1>1, <1>2, <1>3, <1>4, <1>5 DEF Running

LEMMA StutterKeepsRunInv ==
  ASSUME RunInv, UNCHANGED runVars
  PROVE  RunInv'
<1>1. LastIsAbove' <=> LastIsAbove
  BY Zenon DEF runVars, LastIsAbove
<1> QED BY <1>1 DEF RunInv, runVars, RunTypeOK, Counted, Limited, StopsOnTime, Told, HeardButForTwo, Unheard, FirstCycles, Starting, Looping

-----------------------------------------------------------------------------
(* The window: the keys, and how the pauses move start                      *)
WindowInv ==
  /\ clock \in Nat /\ start \in Nat /\ paused \in Nat /\ startup \in Nat /\ active \in Nat
  /\ timeout_id \in { 0, 1 } /\ open \in BOOLEAN /\ shown \in { "nothing", "black", "white" }
  /\ held \subseteq Keys /\ PadFollowsTheKeys
  /\ paused <= clock /\ PausesDoNotCount
  /\ ~Launched => timeout_id = 0 /\ ~open /\ at = "idle"

(* The joypad was told once of each of these keys                           *)
ToldOnceOf(p, keys) == p = [k \in Keys |-> IF k \in keys THEN 1 ELSE 0]

LEMMA KeysComeAndGo ==
  ASSUME NEW p, NEW keys \in SUBSET Keys, NEW k \in Keys, ToldOnceOf(p, keys)
  PROVE  /\ ToldOnceOf(IF k \in keys THEN p ELSE [p EXCEPT ![k] = @ + 1], keys \cup { k })
         /\ ToldOnceOf(IF k \in keys THEN [p EXCEPT ![k] = @ - 1] ELSE p, keys \ { k })
<1>0. p = [x \in Keys |-> IF x \in keys THEN 1 ELSE 0]
  BY DEF ToldOnceOf
<1>1. CASE k \in keys
  <2>1. keys \cup { k } = keys
    BY <1>1
  <2>2. [p EXCEPT ![k] = @ - 1] = [x \in Keys |-> IF x \in keys \ { k } THEN 1 ELSE 0]
    <3> DEFINE f == [p EXCEPT ![k] = @ - 1]
               g == [x \in Keys |-> IF x \in keys \ { k } THEN 1 ELSE 0]
    <3>1. f = [x \in Keys |-> f[x]] /\ g = [x \in Keys |-> g[x]]
      BY <1>0
    <3>2. ASSUME NEW x \in Keys PROVE f[x] = g[x]
      <4>1. f[x] = IF x = k THEN p[x] - 1 ELSE p[x]
        BY <1>0
      <4>2. p[x] = IF x \in keys THEN 1 ELSE 0
        BY <1>0
      <4> QED BY <4>1, <4>2, <1>1
    <3>3. f = g
      <4> HIDE DEF f, g
      <4> QED BY <3>1, <3>2
    <3> QED BY <3>3
  <2> QED BY <1>0, <1>1, <2>1, <2>2 DEF ToldOnceOf
<1>2. CASE k \notin keys
  <2>1. keys \ { k } = keys
    BY <1>2
  <2>2. [p EXCEPT ![k] = @ + 1] = [x \in Keys |-> IF x \in keys \cup { k } THEN 1 ELSE 0]
    <3> DEFINE f == [p EXCEPT ![k] = @ + 1]
               g == [x \in Keys |-> IF x \in keys \cup { k } THEN 1 ELSE 0]
    <3>1. f = [x \in Keys |-> f[x]] /\ g = [x \in Keys |-> g[x]]
      BY <1>0
    <3>2. ASSUME NEW x \in Keys PROVE f[x] = g[x]
      <4>1. f[x] = IF x = k THEN p[x] + 1 ELSE p[x]
        BY <1>0
      <4>2. p[x] = IF x \in keys THEN 1 ELSE 0
        BY <1>0
      <4> QED BY <4>1, <4>2, <1>2
    <3>3. f = g
      <4> HIDE DEF f, g
      <4> QED BY <3>1, <3>2
    <3> QED BY <3>3
  <2> QED BY <1>0, <1>2, <2>1, <2>2 DEF ToldOnceOf
<1> QED BY <1>1, <1>2

(* A call under way was given no more than the time the Game Boy is to run for *)
NotAheadOf(n) == n * SECOND <= (startup + active) * GB_CYCLES_PER_S
PaceInv ==
  /\ NeverAhead
  /\ at # "idle" => NotAheadOf(cycle)

Inv == RunInv /\ WindowInv /\ PaceInv

LEMMA InvStarts == Init => Inv
<1> SUFFICES ASSUME Init PROVE Inv
  OBVIOUS
<1>1. RunInv
  BY RunStarts DEF Init
<1>2. WindowInv
  <2>1. pad = [k \in Keys |-> 0] /\ held = {}
    BY DEF Init
  <2>2. PadFollowsTheKeys
    BY <2>1 DEF Init, PadFollowsTheKeys
  <2>3. at = "idle" /\ clock = 0 /\ start = 0 /\ paused = 0 /\ timeout_id = 0 /\ startup = 0 /\ active = 0
    BY Zenon DEF Init, RunInit
  <2>4. ~open /\ open \in BOOLEAN /\ shown = "nothing" /\ ~Launched /\ held \subseteq Keys
    BY Zenon DEF Init, Launched
  <2>5. PausesDoNotCount
    BY <2>3, <2>4 DEF PausesDoNotCount
  <2> QED BY <2>2, <2>3, <2>4, <2>5 DEF WindowInv
<1>3. PaceInv
  BY DEF Init, RunInit, PaceInv, NeverAhead
<1> QED BY <1>1, <1>2, <1>3 DEF Inv

(* The conversion of time to cycles rounds down                             *)
LEMMA RoundsDown ==
  ASSUME NEW a \in Nat
  PROVE  /\ a \div SECOND \in Nat
         /\ (a \div SECOND) * SECOND <= a
BY RateAssumption, SMT

(* What was not ahead stays so while time goes on, and so does anything less *)
LEMMA NotAheadLasts ==
  ASSUME NEW m \in Nat, NEW n \in Nat, NEW a \in Nat, NEW b \in Nat,
         m <= n, a <= b, n * SECOND <= a * GB_CYCLES_PER_S
  PROVE  m * SECOND <= b * GB_CYCLES_PER_S
<1>1. m * SECOND <= n * SECOND
  BY RateAssumption, SMT
<1>2. a * GB_CYCLES_PER_S <= b * GB_CYCLES_PER_S
  BY RateAssumption, SMT
<1>3. m * SECOND \in Nat /\ n * SECOND \in Nat /\ a * GB_CYCLES_PER_S \in Nat /\ b * GB_CYCLES_PER_S \in Nat
  BY RateAssumption, SMT
<1> QED BY <1>1, <1>2, <1>3, SMT

LEMMA FrameKeepsInv ==
  ASSUME Inv, Frame
  PROVE  Inv'
<1> DEFINE time == startup + active
           until == get_time_in_GB_cycles_since(start)
<1>1. clock - start = time /\ time \in Nat
  BY DEF Inv, WindowInv, PausesDoNotCount, Frame
<1>2. time * GB_CYCLES_PER_S \in Nat
  BY <1>1, RateAssumption, SMT
<1>3. until \in Nat /\ until * SECOND <= time * GB_CYCLES_PER_S
  BY <1>1, <1>2, RoundsDown DEF get_time_in_GB_cycles_since
<1> HIDE DEF until
<1>4. gameboy_run_until(until) /\ UNCHANGED windowVars
  BY DEF Frame, until
<1>5. RunInv'
  BY <1>3, <1>4, CallKeepsRunInv DEF Inv
<1>6. WindowInv'
  BY <1>4 DEF Inv, WindowInv, windowVars, PadFollowsTheKeys, PausesDoNotCount, Launched, Frame
<1>7. PaceInv'
  BY <1>3, <1>4 DEF Inv, PaceInv, NeverAhead, NotAheadOf, gameboy_run_until, windowVars
<1> QED BY <1>5, <1>6, <1>7 DEF Inv

LEMMA RunKeepsInv ==
  ASSUME Inv, Run
  PROVE  Inv'
<1>1. RunInv'
  BY StepKeepsRunInv DEF Inv, Run
<1>3. at # "idle" /\ UNCHANGED << cycle, startup, active >>
  BY DEF Run, Running, timer_cycle, FirstCycle, bootrom_bus_listener, timer_bus_listener, NextCycle, cpu_cycle
<1>2. WindowInv'
  BY <1>3 DEF Inv, WindowInv, Run, PadFollowsTheKeys, PausesDoNotCount, Launched
<1>4. NotAheadOf(cycle)'
  BY <1>3 DEF Inv, PaceInv, NotAheadOf
<1>5. cycles' = cycles \/ cycles' <= cycle
  BY DEF Inv, RunInv, RunTypeOK, Limited, Looping, Run, Running, timer_cycle, FirstCycle,
         bootrom_bus_listener, timer_bus_listener, NextCycle, cpu_cycle
<1>6. cycles \in Nat /\ cycles' \in Nat /\ cycle \in Nat /\ startup + active \in Nat
  BY <1>1 DEF Inv, RunInv, RunTypeOK, WindowInv
<1>7. NeverAhead'
  <2>1. CASE cycles' = cycles
    BY <2>1, <1>3 DEF Inv, PaceInv, NeverAhead
  <2>2. CASE cycles' <= cycle
    BY <2>2, <1>3, <1>4, <1>6, NotAheadLasts DEF NotAheadOf, NeverAhead
  <2> QED BY <1>5, <2>1, <2>2
<1> QED BY <1>1, <1>2, <1>4, <1>7 DEF Inv, PaceInv

LEMMA TickKeepsInv ==
  ASSUME Inv, Tick
  PROVE  Inv'
<1>1. RunInv'
  BY StutterKeepsRunInv DEF Inv, Tick
<1>2. WindowInv'
  BY DEF Inv, WindowInv, Tick, PadFollowsTheKeys, PausesDoNotCount, Launched, runVars
<1>3. /\ startup + active \in Nat /\ (startup + active)' \in Nat /\ startup + active <= (startup + active)'
      /\ cycle \in Nat /\ cycles \in Nat /\ UNCHANGED << at, cycle, cycles >>
  BY DEF Inv, WindowInv, Tick, RunInv, RunTypeOK, runVars
<1>4. NeverAhead'
  BY <1>3, NotAheadLasts DEF Inv, PaceInv, NeverAhead
<1>5. (at # "idle" => NotAheadOf(cycle))'
  BY <1>3, NotAheadLasts DEF Inv, PaceInv, NotAheadOf
<1> QED BY <1>1, <1>2, <1>4, <1>5 DEF Inv, PaceInv

LEMMA LaunchKeepsInv ==
  ASSUME Inv, Launch
  PROVE  Inv'
<1>1. RunInv'
  BY StutterKeepsRunInv DEF Inv, Launch
<1>2. WindowInv'
  BY DEF Inv, WindowInv, Launch, Launched, PadFollowsTheKeys, PausesDoNotCount, runVars
<1>3. PaceInv'
  BY DEF Inv, PaceInv, NeverAhead, NotAheadOf, Launch, runVars
<1> QED BY <1>1, <1>2, <1>3 DEF Inv

LEMMA EventKeepsInv ==
  ASSUME Inv, Event, WindowInv'
  PROVE  Inv'
<1>1. RunInv'
  BY StutterKeepsRunInv DEF Inv, Event
<1>2. PaceInv'
  BY DEF Inv, PaceInv, NeverAhead, NotAheadOf, Event, runVars
<1> QED BY <1>1, <1>2 DEF Inv

LEMMA InvIsKept == Inv /\ [Next]_vars => Inv'
<1> SUFFICES ASSUME Inv, [Next]_vars PROVE Inv'
  OBVIOUS
<1>1. CASE Tick
  BY <1>1, TickKeepsInv
<1>2. CASE Frame
  BY <1>2, FrameKeepsInv
<1>3. CASE Run
  BY <1>3, RunKeepsInv
<1>4. ASSUME NEW k \in Keys, keypress_handler(k) PROVE Inv'
  <2>1. held \in SUBSET Keys /\ key_status = held /\ ToldOnceOf(pad, held)
    BY DEF Inv, WindowInv, PadFollowsTheKeys, ToldOnceOf
  <2>2. ToldOnceOf(pad', held') /\ key_status' = held'
    BY <1>4, <2>1, KeysComeAndGo DEF keypress_handler
  <2>3. PadFollowsTheKeys'
    BY <2>2 DEF PadFollowsTheKeys, ToldOnceOf
  <2>4. WindowInv'
    BY <1>4, <2>3 DEF Inv, WindowInv, PausesDoNotCount, Launched, runVars, keypress_handler, Event
  <2> QED BY <1>4, <2>4, EventKeepsInv DEF keypress_handler
<1>5. ASSUME NEW k \in Keys, keyrelease_handler(k) PROVE Inv'
  <2>1. held \in SUBSET Keys /\ key_status = held /\ ToldOnceOf(pad, held)
    BY DEF Inv, WindowInv, PadFollowsTheKeys, ToldOnceOf
  <2>2. ToldOnceOf(pad', held') /\ key_status' = held'
    BY <1>5, <2>1, KeysComeAndGo DEF keyrelease_handler
  <2>3. PadFollowsTheKeys'
    BY <2>2 DEF PadFollowsTheKeys, ToldOnceOf
  <2>4. WindowInv'
    BY <1>5, <2>3 DEF Inv, WindowInv, PausesDoNotCount, Launched, runVars, keyrelease_handler, Event
  <2> QED BY <1>5, <2>4, EventKeepsInv DEF keyrelease_handler
<1>6. CASE Pause
  BY <1>6, EventKeepsInv DEF Inv, WindowInv, PadFollowsTheKeys, PausesDoNotCount, Launched, runVars, Pause, Event
<1>7. CASE Resume
  BY <1>7, EventKeepsInv DEF Inv, WindowInv, PadFollowsTheKeys, PausesDoNotCount, Launched, runVars, Resume, Event
<1>8. CASE Quit
  BY <1>8, EventKeepsInv DEF Inv, WindowInv, PadFollowsTheKeys, PausesDoNotCount, Launched, runVars, Quit, Event
<1>9. CASE UNCHANGED vars
  <2>1. RunInv'
    BY <1>9, StutterKeepsRunInv DEF Inv, vars
  <2>2. WindowInv' /\ PaceInv'
    BY <1>9 DEF Inv, WindowInv, PaceInv, NeverAhead, NotAheadOf, PadFollowsTheKeys, PausesDoNotCount, Launched, vars, runVars, windowVars
  <2> QED BY <2>1, <2>2 DEF Inv
<1>10. CASE Launch
  BY <1>10, LaunchKeepsInv
<1> QED BY <1>1, <1>2, <1>3, <1>4, <1>5, <1>6, <1>7, <1>8, <1>9, <1>10 DEF Next

LEMMA InvHolds == Spec => []Inv
BY InvStarts, InvIsKept, PTL DEF Spec

-----------------------------------------------------------------------------
(* The variables of the run and of the window keep their types.             *)
THEOREM TypeCorrect == Spec => []TypeOK
<1>1. Inv => TypeOK
  BY DEF Inv, RunInv, WindowInv, PadFollowsTheKeys, TypeOK
<1> QED BY <1>1, InvHolds, PTL

(* The timer has run once per call and the CPU once more per cycle counted. *)
THEOREM TimerRunsOncePerCall == Spec => []TimerLagsBehind
<1>1. Inv => TimerLagsBehind
  BY DEF Inv, RunInv, RunTypeOK, Counted, Starting, TimerLagsBehind
<1> QED BY <1>1, InvHolds, PTL

(* Besides the upper bytes of words, of which the timer hears nothing, at   *)
(* most one store to DIV or TAC is lost from a call to the next.            *)
THEOREM StoresAreHeardButForTwo == Spec => []HeardButForTwo
<1>1. Inv => HeardButForTwo
  BY DEF Inv, RunInv, Told
<1> QED BY <1>1, InvHolds, PTL

(* A call that succeeds ends at exactly the cycle it was given.             *)
THEOREM CallsStopOnTime == Spec => []StopsOnTime
<1>1. Inv => StopsOnTime
  BY DEF Inv, RunInv, Limited
<1> QED BY <1>1, InvHolds, PTL

(* The joypad's keys are the keyboard's.                                    *)
THEOREM KeysAgree == Spec => []PadFollowsTheKeys
<1>1. Inv => PadFollowsTheKeys
  BY DEF Inv, WindowInv
<1> QED BY <1>1, InvHolds, PTL

(* start has moved on by the length of all pauses, and by nothing else.     *)
THEOREM PausesAreTakenOff == Spec => []PausesDoNotCount
<1>1. Inv => PausesDoNotCount
  BY DEF Inv, WindowInv
<1> QED BY <1>1, InvHolds, PTL

(* The Game Boy has not run for longer than main took to come to its window *)
(* and the frames were on.                                                  *)
THEOREM NeverRunsAhead == Spec => []NeverAhead
<1>1. Inv => NeverAhead
  BY DEF Inv, PaceInv
<1> QED BY <1>1, InvHolds, PTL
=============================================================================
