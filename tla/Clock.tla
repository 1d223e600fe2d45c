------------------------------- MODULE Clock -------------------------------
(***************************************************************************)
(* What micros() promises: a clock that advances by one timer tick at a    *)
(* time and wraps at LONG, and readings of it.  A reading is the time at   *)
(* one instant of the call, and is what the call returns.                  *)
(***************************************************************************)
EXTENDS Integers

CONSTANTS LONG,     \* the clock wraps here
          TICK_US   \* and advances by this

VARIABLES time, seen   \* seen = -1: no reading is on its way to a caller

Init == time = 0 /\ seen = -1

Advance == time' = (time + TICK_US) % LONG /\ UNCHANGED seen

Read == seen = -1 /\ seen' = time /\ UNCHANGED time

Return == seen # -1 /\ seen' = -1 /\ UNCHANGED time

Next == Advance \/ Read \/ Return

Spec == Init /\ [][Next]_<<time, seen>>
=============================================================================
