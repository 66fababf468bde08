-------------------------------- MODULE RLimit --------------------------------
(***************************************************************************)
(* src/rlimit.c: reading and changing a pair of resource limits.  Limits   *)
(* are numbers below Infinity, which the caller sees and writes as -1.     *)
(***************************************************************************)
EXTENDS Integers

CONSTANT Infinity   \* RLIM_INFINITY

ASSUME InfinityAssumption == Infinity \in Nat

Limit == 0 .. Infinity
Limits == {rl \in [cur : Limit, max : Limit] : rl.cur <= rl.max}

Absent == -2    \* an argument that is nil or was not given

\* check_limit(): the limit an argument asks for, unless it is refused.
Wanted(arg, old) ==
    IF arg = Absent THEN old ELSE IF arg = -1 THEN Infinity ELSE arg

\* setrlimit(2): the two reasons it has to refuse a pair.
Inverted(new) == new.cur > new.max
Raised(old, new, privileged) == new.max > old.max /\ ~privileged

\* setlimit(): the limits after the call.  An error leaves them as they were;
\* equal limits are not set again.
NewLimits_split(old, cur, max, privileged) == \* mutant: cur is set before max
    LET new == [cur |-> Wanted(cur, old.cur), max |-> Wanted(max, old.max)]
    IN  IF Inverted(new) \/ Raised(old, new, privileged)
        THEN [old EXCEPT !.cur = IF new.cur <= old.max THEN new.cur ELSE @] ELSE new
NewLimits(old, cur, max, privileged) ==
    LET new == [cur |-> Wanted(cur, old.cur), max |-> Wanted(max, old.max)]
    IN  IF Inverted(new) \/ Raised(old, new, privileged) THEN old ELSE new

\* The call returns an error.
Fails(old, cur, max, privileged) ==
    LET new == [cur |-> Wanted(cur, old.cur), max |-> Wanted(max, old.max)]
    IN  Inverted(new) \/ Raised(old, new, privileged)

\* What rlimit_lua() shows of a limit.
Shown(limit) == IF limit = Infinity THEN -1 ELSE limit
=============================================================================
