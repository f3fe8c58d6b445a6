-------------------------------- MODULE Ticks --------------------------------
(* time.Now(), as a tick counter.  The code only compares ages with limits. *)
EXTENDS Integers

CONSTANTS MaxTime   \* bound on the clock

VARIABLES now

Tick ==
    /\ now < MaxTime
    /\ now' = now + 1
=============================================================================
