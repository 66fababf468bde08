-------------------------------- MODULE Call --------------------------------
(***************************************************************************)
(* The middle of call() of lib/runner.lua, the four steps around a user    *)
(* function: the output is hooked, the timer is started, the function      *)
(* runs, the timer is stopped, the output is unhooked.  IOHook and Timer   *)
(* are the two parts; time passes in every step, and the finalizers of     *)
(* user objects may run between any two.                                   *)
(***************************************************************************)
EXTENDS IOHook

CONSTANT MaxClock   \* where the clock stops, to bound the runs

ASSUME ClockAssumption == MaxClock \in Nat \ {0}

VARIABLES
    at,         \* "out", "hooked", "func" or "stopped"
    clock, total, start,    \* the timer of the run
    spent       \* history: the time that passed in user functions

timer == <<clock, total, start>>
cvars == <<vars, at, timer, spent>>

T == INSTANCE Timer

CallInit ==
    /\ Init /\ T!Init
    /\ at = "out"
    /\ spent = 0

-----------------------------------------------------------------------------
Enter == \* iohook.hook()
    /\ at = "out" /\ at' = "hooked"
    /\ CallHook
    /\ UNCHANGED <<timer, spent>>

StartFunc == \* t:start() and the beginning of xpcall()
    /\ at = "hooked" /\ at' = "func"
    /\ T!Start
    /\ UNCHANGED <<vars, spent>>

EndFunc == \* the end of xpcall() and t:stop()
    /\ at = "func" /\ at' = "stopped"
    /\ T!Stop
    /\ UNCHANGED <<vars, spent>>

Leave == \* iohook.unhook()
    /\ at = "stopped" /\ at' = "out"
    /\ CallUnhook
    /\ UNCHANGED <<timer, spent>>

\* What user code does in a function, in a finalizer or in a file being loaded.
UserCode ==
    /\ \/ Printout \/ Stash \/ ReplaceGlobal \/ NestedHook \/ NestedUnhook
       \/ \E b \in BOOLEAN : SetBlocked(b)
    /\ UNCHANGED <<at, timer, spent>>

TimePasses ==
    /\ T!Tick
    /\ spent' = IF at = "func" THEN spent + 1 ELSE spent
    /\ UNCHANGED <<vars, at>>

CallNext == Enter \/ StartFunc \/ EndFunc \/ Leave \/ UserCode \/ TimePasses

CallSpec == CallInit /\ [][CallNext]_cvars

-----------------------------------------------------------------------------
(* Properties.                                                             *)

(* The state keeps its type, a call is the time between hook() and         *)
(* unhook(), and the timer does not run ahead of the clock                 *)
(* (lib/runner.lua:51-59).                                                 *)
CallTypeOK ==
    /\ TypeOK
    /\ at \in {"out", "hooked", "func", "stopped"}
    /\ incall <=> at # "out"
    /\ clock \in 1 .. MaxClock
    /\ start \in 0 .. clock /\ total \in 0 .. start
    /\ spent \in Nat

(* total() is "the total accumulated time across all `start()`/`stop()`    *)
(* intervals" (README.md:881): the time the command reports for a run is   *)
(* that of the user functions, and nothing the runner does between two of  *)
(* them counts (src/timer.c:146-181, lib/runner.lua:56-58).                *)
TotalIsCallTime ==
    total = IF at = "func" THEN spent - (clock - start) ELSE spent
=============================================================================
