----------------------------- MODULE TestReport -----------------------------
(***************************************************************************)
(* What a run of the test functions promises its caller, without saying    *)
(* how the functions are called: every test of the list gets one verdict,  *)
(* in the order of the list; a setup or teardown function that fails takes *)
(* the tests of its file that have no verdict yet with it; and the figures *)
(* reported at the end are those of the verdicts.  Runner implements it.   *)
(***************************************************************************)
EXTENDS Integers, FiniteSets

CONSTANT Shapes \* the numbers of tests per file that a list may have

VARIABLES
    phase,      \* "idle", "running", "reported" or "lost"
    shape,      \* shape[f]: the number of tests of file f
    verdict,    \* verdict[<<f, t>>]: what is known of test t of file f
    hookerrs,   \* the number of setup and teardown functions that failed
    report      \* the figures returned to the caller

vars == <<phase, shape, verdict, hookerrs, report>>

Tests(s) == UNION {{<<f, t>> : t \in 1 .. s[f]} : f \in DOMAIN s}
Before(x, y) == x[1] < y[1] \/ (x[1] = y[1] /\ x[2] < y[2])

With(v) == {x \in DOMAIN verdict : verdict[x] = v}
NoReport == [nsuccess |-> 0, nfailure |-> 0, nerrors |-> 0]

Init ==
    /\ phase = "idle"
    /\ shape = << >>
    /\ verdict = << >>
    /\ hookerrs = 0
    /\ report = NoReport

Begin(s) ==
    /\ phase = "idle"
    /\ phase' = "running"
    /\ shape' = s
    /\ verdict' = [x \in Tests(s) |-> "pending"]
    /\ UNCHANGED <<hookerrs, report>>

\* The next test without a verdict passes or fails.
Judge(x, v) ==
    /\ phase = "running"
    /\ x \in With("pending")
    /\ \A y \in With("pending") : ~Before(y, x)
    /\ verdict' = [verdict EXCEPT ![x] = v]
    /\ UNCHANGED <<phase, shape, hookerrs, report>>

\* A hook of file f fails, when the files before it are done with.
HookFails(f) ==
    /\ phase = "running"
    /\ \A y \in With("pending") : f <= y[1]
    /\ hookerrs' = hookerrs + 1
    /\ verdict' = [x \in DOMAIN verdict |->
                      IF x[1] = f /\ verdict[x] = "pending" THEN "skipped"
                      ELSE verdict[x]]
    /\ UNCHANGED <<phase, shape, report>>

Report ==
    /\ phase = "running"
    /\ With("pending") = {}
    /\ phase' = "reported"
    /\ report' = [nsuccess |-> Cardinality(With("passed")),
                  nfailure |-> Cardinality(With("failed") \cup With("skipped")),
                  nerrors  |-> Cardinality(With("failed")) + hookerrs]
    /\ UNCHANGED <<shape, verdict, hookerrs>>

\* The run ends in an error and nothing is reported.
Lose ==
    /\ phase = "running"
    /\ phase' = "lost"
    /\ UNCHANGED <<shape, verdict, hookerrs, report>>

Next ==
    \/ \E s \in Shapes : Begin(s)
    \/ \E x \in With("pending"), v \in {"passed", "failed"} : Judge(x, v)
    \/ \E f \in DOMAIN shape : HookFails(f)
    \/ Report
    \/ Lose

\* A run that has begun ends.
Ends == phase = "running" ~> phase # "running"

\* What a run may do, and that it ends.
Steps == Init /\ [][Next]_vars
Spec == Steps /\ Ends
=============================================================================
