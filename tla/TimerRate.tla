----------------------------- MODULE TimerRate -----------------------------
(***************************************************************************)
(* What the timer promises a program, with no mention of counter bits: the *)
(* age of the timer in machine cycles, and one tick of TIMA each time the  *)
(* age reaches a multiple of the period TAC selects.  Resetting the age    *)
(* ticks early when at least half of the period had gone by.               *)
(***************************************************************************)
EXTENDS Integers

CONSTANTS
  Byte,   (* number of values of a register                               *)
  Wrap,   (* machine cycles after which the age starts again from 0       *)
  Half    (* Half[s]: half of the period that selector s stands for        *)

VARIABLES
  age,    (* machine cycles since the last reset                          *)
  tima, tma, tac,
  timer   (* TRUE while a TIMER interrupt is requested                    *)

vars == << age, tima, tma, tac, timer >>

Init == age = 0 /\ tima = 0 /\ tma = 0 /\ tac = 0 /\ timer = FALSE

Running == (tac \div 4) % 2 = 1
Period  == 2 * Half[tac % 4]

Tick == IF tima = Byte - 1 THEN tima' = tma /\ timer' = TRUE
                           ELSE tima' = tima + 1 /\ timer' = timer

TickIf(condition) == IF condition THEN Tick ELSE UNCHANGED << tima, timer >>

(* One machine cycle. *)
Cycle ==
  /\ age' = (age + 1) % Wrap
  /\ TickIf(Running /\ age' % Period = 0)
  /\ UNCHANGED << tma, tac >>

(* The listener has seen a store to DIV. *)
Reset ==
  /\ age' = 0
  /\ TickIf(Running /\ age % Period >= Half[tac % 4])
  /\ UNCHANGED << tma, tac >>

(* The program stores to a register: no store by itself ticks the timer. *)
Store ==
  /\ tima' \in 0 .. Byte - 1 /\ tma' \in 0 .. Byte - 1 /\ tac' \in 0 .. Byte - 1
  /\ UNCHANGED << age, timer >>

(* The CPU takes the interrupt. *)
Acknowledge ==
  /\ timer /\ timer' = FALSE
  /\ UNCHANGED << age, tima, tma, tac >>

Next == Cycle \/ Reset \/ Store \/ Acknowledge

Spec == Init /\ [][Next]_vars
=============================================================================
