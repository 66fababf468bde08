-------------------------------- MODULE Timer --------------------------------
(***************************************************************************)
(* src/timer.c: a timer object on the monotonic clock.  The command has    *)
(* one for the whole run; Call composes it with the calls that use it.     *)
(* A clock that cannot be read, reset() and the units are left out.        *)
(***************************************************************************)
EXTENDS Integers

CONSTANT MaxClock   \* where the clock stops, to bound the runs

VARIABLES
    clock,      \* the monotonic clock
    total,      \* t->total
    start       \* t->start

Init ==
    /\ clock = 1
    /\ total = 0
    /\ start = 0

Tick ==
    /\ clock < MaxClock
    /\ clock' = clock + 1
    /\ UNCHANGED <<total, start>>

\* The time that start() records.
StartTime_once == IF start = 0 THEN clock ELSE start \* mutant: only the first start() counts
StartTime == clock

Start ==
    /\ start' = StartTime
    /\ UNCHANGED <<clock, total>>

\* The elapsed time that stop() adds to the total.
Elapsed == clock - start

Stop ==
    /\ total' = total + Elapsed
    /\ start' = clock
    /\ UNCHANGED clock
=============================================================================
