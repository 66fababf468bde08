------------------------------- MODULE GetOpts -------------------------------
(***************************************************************************)
(* lib/getopts.lua: the arguments of the command.  An argument is a record *)
(* of its kind and its value; the value of --testcase is the sequence of   *)
(* what stands between its commas, where "" is nothing.                    *)
(***************************************************************************)
EXTENDS Integers, Sequences, SequencesExt

Flags == {"--help", "--coverage", "--checkall"}

Rejected == [ok |-> FALSE, names |-> << >>]

\* parse_testcase(), one name at a time.
AddCase(r, name) ==
    IF ~r.ok \/ name = "" THEN Rejected
    ELSE IF name \in ToSet(r.names) THEN r
    ELSE [r EXCEPT !.names = Append(@, name)]

NoCases == [ok |-> TRUE, names |-> << >>]
parse_testcase(value) ==
    LET r[n \in 0 .. Len(value)] ==
            IF n = 0 THEN NoCases ELSE AddCase(r[n - 1], value[n])
    IN  r[Len(value)]

NoOpts == [ok |-> TRUE, flags |-> {}, has_testcase |-> FALSE, testcase |-> << >>, paths |-> << >>]
BadOpts == [NoOpts EXCEPT !.ok = FALSE]

\* The option --testcase; the value was split at the first "=".
AddTestcase_again(o, value) == \* mutant: the last --testcase counts
    LET r == parse_testcase(value) IN
    IF ~r.ok THEN BadOpts ELSE [o EXCEPT !.has_testcase = TRUE, !.testcase = r.names]
AddTestcase(o, value) ==
    LET r == parse_testcase(value) IN
    IF o.has_testcase \/ ~r.ok THEN BadOpts
    ELSE [o EXCEPT !.has_testcase = TRUE, !.testcase = r.names]

\* The loop of getopts(); an option it does not know is passed over.
AddArg(o, a) ==
    IF ~o.ok THEN o
    ELSE IF a.kind = "path" THEN [o EXCEPT !.paths = Append(@, a.value)]
    ELSE IF a.kind = "--testcase" THEN AddTestcase(o, a.value)
    ELSE IF a.kind \in Flags THEN [o EXCEPT !.flags = @ \cup {a.kind}]
    ELSE o

getopts(args) ==
    LET o[n \in 0 .. Len(args)] == IF n = 0 THEN NoOpts ELSE AddArg(o[n - 1], args[n])
    IN  o[Len(args)]
=============================================================================
