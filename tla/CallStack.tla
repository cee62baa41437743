----------------------------- MODULE CallStack -----------------------------
(***************************************************************************)
(* What calls, returns and interrupts promise a program, with no mention   *)
(* of SP or of bytes: the return addresses it has still to come back to    *)
(* form a stack, and coming back goes exactly where the last entry left.   *)
(***************************************************************************)
EXTENDS Integers, Sequences

CONSTANTS
  N,        (* addresses are 0 .. N - 1                                     *)
  Longest,  (* bytes of the longest instruction                             *)
  Handlers  (* where interrupts are handled                                 *)

VARIABLES
  pc,
  frames    (* return addresses, the most recent last                       *)

vars == << pc, frames >>

Init == pc = 0 /\ frames = << >>

(* Going anywhere without touching the frames.                              *)
Run == pc' \in 0 .. N - 1 /\ UNCHANGED frames

(* A call comes back just past its instruction.                             *)
Call ==
  /\ \E length \in 1 .. Longest : frames' = Append(frames, (pc + length) % N)
  /\ pc' \in 0 .. N - 1

(* An interrupt comes back to the instruction it kept from being executed.  *)
Interrupt ==
  /\ frames' = Append(frames, pc)
  /\ pc' \in Handlers

ComeBack ==
  /\ frames # << >>
  /\ pc' = frames[Len(frames)]
  /\ frames' = SubSeq(frames, 1, Len(frames) - 1)

Next == Run \/ Call \/ Interrupt \/ ComeBack

Spec == Init /\ [][Next]_vars
=============================================================================
