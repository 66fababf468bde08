------------------------------- MODULE IOHook -------------------------------
(***************************************************************************)
(* lib/iohook.lua: while call() of lib/runner.lua runs a user function,    *)
(* print, io.stdout and io.stderr are replaced, so that what the function  *)
(* writes is shown by the runner, between a start and an end mark.  The    *)
(* user function may keep a replaced writer and use it later, may replace  *)
(* the globals itself, and may call block(), unblock() or hook() and       *)
(* unhook() of the same module, which is not a stack.                      *)
(***************************************************************************)
EXTENDS Integers, Sequences, FiniteSets

CONSTANT MaxLines   \* how many lines are written from one call to the next

ASSUME BoundAssumption == MaxLines \in Nat

VARIABLES
    global,     \* what print and io.stdout are: "real", "hooked" or "user"
    fns,        \* whose functions are set: "default", "call" or "user"
    hooked,     \* is_hooked
    blocked,    \* is_blocked
    incall,     \* between hook() and unhook() of call()
    stashed,    \* user code holds a writer of this module
    nested,     \* history: the function of call() called hook() or unhook()
    shown,      \* history: what the functions of call() printed
    sent,       \* history: the lines written in the call while not blocked
    lines       \* lines written since the last hook() or unhook() of call()

vars == <<global, fns, hooked, blocked, incall, stashed, nested, shown, sent, lines>>

Init ==
    /\ global = "real"
    /\ fns = "default"
    /\ hooked = FALSE
    /\ blocked = FALSE
    /\ incall = FALSE
    /\ stashed = FALSE
    /\ nested = FALSE
    /\ shown = << >>
    /\ sent = 0
    /\ lines = 0

\* What a function of the owner of fns prints; the default ones are silent.
Show(mark) == IF fns = "call" THEN Append(shown, mark) ELSE shown

\* hook(): set the functions and replace the globals.
HookAs_keepFlag(owner) == \* mutant: is_hooked is not reset
    fns' = owner /\ global' = "hooked" /\ UNCHANGED hooked
HookAs(owner) == fns' = owner /\ global' = "hooked" /\ hooked' = FALSE

\* unhook(): put the globals back and close the output if it was opened.
Unhook_noGlobals == \* mutant: the globals are put back only after output
    /\ global' = IF hooked THEN "real" ELSE global
    /\ fns' = "default"
    /\ hooked' = FALSE
    /\ shown' = IF hooked THEN Show("end") ELSE shown
Unhook ==
    /\ global' = "real"
    /\ fns' = "default"
    /\ hooked' = FALSE
    /\ shown' = IF hooked THEN Show("end") ELSE shown

\* call() around xpcall().
CallHook ==
    /\ ~incall
    /\ HookAs("call")
    /\ incall' = TRUE /\ nested' = FALSE
    /\ shown' = << >> /\ sent' = 0 /\ lines' = 0
    /\ UNCHANGED <<blocked, stashed>>

CallUnhook ==
    /\ incall
    /\ Unhook
    /\ incall' = FALSE
    /\ lines' = 0
    /\ UNCHANGED <<blocked, stashed, nested, sent>>

\* The start mark is printed with the first line.
Output_late == \* mutant: the line that opens the output is lost
    Append(shown, IF hooked THEN "line" ELSE "start")
Output ==
    IF hooked THEN Append(shown, "line") ELSE shown \o <<"start", "line">>

\* printout(), through a replaced global or through a writer kept from one.
Printout ==
    /\ global = "hooked" \/ stashed
    /\ lines < MaxLines
    /\ lines' = lines + 1
    /\ hooked' = (hooked \/ ~blocked)
    /\ shown' = IF blocked \/ fns # "call" THEN shown
                ELSE Output
    /\ sent' = IF incall /\ ~blocked THEN sent + 1 ELSE sent
    /\ UNCHANGED <<global, fns, blocked, incall, stashed, nested>>

\* User code, in a function or in a file that is being loaded.
SetBlocked(b) ==
    /\ blocked' = b
    /\ UNCHANGED <<global, fns, hooked, incall, stashed, nested, shown, sent, lines>>

Stash ==
    /\ global = "hooked"
    /\ stashed' = TRUE
    /\ UNCHANGED <<global, fns, hooked, blocked, incall, nested, shown, sent, lines>>

ReplaceGlobal ==
    /\ global' = "user"
    /\ UNCHANGED <<fns, hooked, blocked, incall, stashed, nested, shown, sent, lines>>

NestedHook ==
    /\ incall
    /\ HookAs("user")
    /\ nested' = TRUE
    /\ UNCHANGED <<blocked, incall, stashed, shown, sent, lines>>

NestedUnhook ==
    /\ incall
    /\ Unhook
    /\ nested' = TRUE
    /\ UNCHANGED <<blocked, incall, stashed, sent, lines>>

Next ==
    \/ CallHook \/ CallUnhook \/ Printout
    \/ \E b \in BOOLEAN : SetBlocked(b)
    \/ Stash \/ ReplaceGlobal \/ NestedHook \/ NestedUnhook

Spec == Init /\ [][Next]_vars

-----------------------------------------------------------------------------
(* Properties.                                                             *)

TypeOK ==
    /\ global \in {"real", "hooked", "user"}
    /\ fns \in {"default", "call", "user"}
    /\ hooked \in BOOLEAN /\ blocked \in BOOLEAN
    /\ incall \in BOOLEAN /\ stashed \in BOOLEAN /\ nested \in BOOLEAN
    /\ shown \in Seq({"start", "line", "end"})
    /\ sent \in 0 .. MaxLines /\ lines \in 0 .. MaxLines

(* The output of a call is nothing, or one start mark, the lines, and one  *)
(* end mark when the call is over, even if a writer kept from an earlier   *)
(* call was used in between or that call hooked by itself                  *)
(* (lib/iohook.lua:53-61, 95-111).                                         *)
Bracketed ==
    ~nested =>
        \/ shown = << >>
        \/ /\ shown[1] = "start"
           /\ \A i \in 2 .. Len(shown) - 1 : shown[i] = "line"
           /\ shown[Len(shown)] = IF incall THEN "line" ELSE "end"

(* A line that a function writes to a replaced writer while output is not  *)
(* blocked is shown, once, in the output of the call it was written in     *)
(* (lib/iohook.lua:53-61, 95-101).                                         *)
LinesShown ==
    ~nested => Cardinality({i \in DOMAIN shown : shown[i] = "line"}) = sent

(* When call() is over the replaced writers are gone from the globals and  *)
(* no function of call() is left behind: the only globals that are not the *)
(* original ones are those a test file set between calls, also when user   *)
(* functions hook and unhook themselves (lib/iohook.lua:79-114).           *)
CallLeavesNothing ==
    ~incall => global # "hooked" /\ fns = "default"
=============================================================================
