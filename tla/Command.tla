------------------------------ MODULE Command ------------------------------
(***************************************************************************)
(* bin/testcase.lua from loadfiles() on: load the files while the runner   *)
(* is blocked, list what they registered, run it, report, and leave with   *)
(* an exit status.  Loader and Runner are its parts; no process is forked  *)
(* here (Runner has its own runs for that).                                *)
(***************************************************************************)
EXTENDS Integers, Sequences, FiniteSets

CONSTANTS
    Main,                       \* the process
    File, Given, Name, Line,    \* as in Loader
    MaxFuncs, Resolve,
    Dirs, Root, Removable,      \* as in Runner
    DirOf,                      \* DirOf[f]: the directory file f is in
    Selections                  \* the sets of names --testcase may give

VARIABLES
    lcwd, todo, current, errfiles, registry, list, lphase,    \* Loader
    mem, life, cwd, dirs, log,                                      \* Runner
    wanted,     \* opts.testcase
    step,       \* where the main block stands
    status,     \* the exit status, or NoStatus
    shown       \* the load errors were reported

lvars == <<lcwd, todo, current, errfiles, registry, list, lphase>>
rvars == <<mem, life, cwd, dirs, log>>
cvars == <<wanted, step, status, shown>>
vars == <<lvars, rvars, cvars>>

L == INSTANCE Loader WITH Dir <- Dirs, Home <- Root, cwd <- lcwd, phase <- lphase
R == INSTANCE Runner WITH
         Kids <- {}, TestName <- Name, Lists <- {}

ASSUME LoaderAssumption == L!FileAssumption
ASSUME RunnerAssumption ==
    /\ DirOf \in [File -> Dirs]
    /\ Removable \subseteq Dirs \ {Root}
    /\ Selections \subseteq SUBSET Name

NoStatus == -1
Failure == 255      \* exit(-1), as the parent sees it
Crash == 1          \* an error that reaches the lua interpreter

\* The list as the runner uses it: a file's directory, its hooks, its tests.
RunList ==
    [i \in DOMAIN list |->
        [dir   |-> DirOf[list[i].src],
         hooks |-> {r.name : r \in list[i].hooks},
         tests |-> [k \in DOMAIN list[i].tests |-> list[i].tests[k].name]]]

Init ==
    /\ L!Init
    /\ R!Init
    /\ wanted \in Selections
    /\ step = "block"
    /\ status = NoStatus
    /\ shown = FALSE

Exit(code) ==
    /\ step' = "exited"
    /\ status' = code

\* runner.block()
Block_missing == \* mutant: the runner is not blocked while files are loaded
    /\ step = "block"
    /\ step' = "load"
    /\ UNCHANGED <<lvars, rvars, wanted, status, shown>>
Block ==
    /\ step = "block"
    /\ R!SetBlocked(Main, TRUE)
    /\ step' = "load"
    /\ UNCHANGED <<lvars, wanted, status, shown>>

\* loadfiles() and registry.getlist(), with the code of the files it runs.
Load ==
    /\ step = "load"
    /\ L!Next
    /\ step' = IF lphase' = "listed" THEN "listed" ELSE step
    /\ UNCHANGED <<rvars, wanted, status, shown>>

\* A test file calls runner.run() while it is being loaded.
FileRuns ==
    /\ step = "load" /\ current # L!NoFile
    /\ R!RunBlocked(Main) \/ R!RunStart(Main, << >>, {})
    /\ UNCHANGED <<lvars, cvars>>

\* No file could be loaded: report that and leave.
NothingLoaded ==
    /\ step = "listed"
    /\ errfiles # {} /\ list = << >>
    /\ shown' = TRUE
    /\ Exit(Failure)
    /\ UNCHANGED <<lvars, rvars, wanted>>

\* runner.unblock()
Unblock ==
    /\ step = "listed"
    /\ ~(errfiles # {} /\ list = << >>)
    /\ R!SetBlocked(Main, FALSE)
    /\ step' = "ready"
    /\ UNCHANGED <<lvars, wanted, status, shown>>

\* runner.run() starts, or refuses names that no file has.
Run ==
    /\ step = "ready"
    /\ \/ /\ R!RunStart(Main, RunList, wanted)
          /\ step' = "running"
          /\ UNCHANGED status
       \/ /\ R!RunNotFound(Main, RunList, wanted)
          /\ Exit(Failure)
    /\ UNCHANGED <<lvars, wanted, shown>>

\* runner.run() at work, with the user functions it calls.
Running ==
    /\ step = "running"
    /\ R!RunStep(Main) \/ (R!M.infn /\ R!UserStep(Main))
    /\ UNCHANGED <<lvars, cvars>>

\* An assert of the runner ends the interpreter.
Crashed ==
    /\ step = "running"
    /\ life[Main] = "aborted"
    /\ Exit(Crash)
    /\ UNCHANGED <<lvars, rvars, wanted, shown>>

\* The condition of exit(-1) at the end of the main block.
Failed_noLoadErrors == \* mutant: load errors are reported but do not count
    R!M.ntest - R!M.nsuccess > 0 \/ R!M.count > 0
Failed_empty == \* mutant: a run without tests counts as a failure
    R!M.ntest = R!M.nsuccess => R!M.count > 0 \/ errfiles # {} \/ R!M.ntest = 0
Failed ==
    R!M.ntest - R!M.nsuccess > 0 \/ R!M.count > 0 \/ errfiles # {}

\* The test of errfiles in the report.
ShowsErrors_failed == \* mutant: only in the report of a failed run
    errfiles # {} /\ (R!M.ntest - R!M.nsuccess > 0 \/ R!M.count > 0)
ShowsErrors == errfiles # {}

\* The report is printed, with the load errors if there are any.
Report ==
    /\ step = "running"
    /\ R!M.stage = "returned"
    /\ shown' = ShowsErrors
    /\ Exit(IF Failed THEN Failure ELSE 0)
    /\ UNCHANGED <<lvars, rvars, wanted>>

Exited == step = "exited" /\ UNCHANGED vars

Next ==
    \/ Block \/ Load \/ FileRuns \/ NothingLoaded \/ Unblock \/ Run
    \/ Running \/ Crashed \/ Report \/ Exited

Spec == Init /\ [][Next]_vars

\* Loading ends (no file runs forever), and so does every user function.
FairSpec ==
    /\ Spec
    /\ WF_vars(Block \/ NothingLoaded \/ Unblock \/ Run \/ Crashed \/ Report)
    /\ WF_vars(step = "load" /\ Load /\ (L!LoadNext \/ L!GetList
                                         \/ \E ok \in BOOLEAN : L!EndFile(ok)))
    /\ WF_vars(Running /\ R!RunStep(Main))

-----------------------------------------------------------------------------
(* Properties.                                                             *)

\* The tests a user asked for: all that were registered, or those named.
Asked == {r \in registry : ~L!IsHook(r) /\ (wanted = {} \/ r.name \in wanted)}

\* The call of test r is recorded with this outcome.
Recorded(r, ok) ==
    \E i \in DOMAIN log :
        /\ log[i].stage = "test" /\ log[i].ok = ok
        /\ R!M.list[log[i].fi].dir = DirOf[r.file]
        /\ R!M.list[log[i].fi].tests[log[i].ti] = r.name

(* Exit status 0 means that every file was loaded to its end, every test   *)
(* that was asked for and registered by any of them was called and passed, *)
(* and no setup or teardown function failed (bin/testcase.lua:192-236).    *)
ExitZeroSound ==
    status = 0 =>
        /\ errfiles = {} /\ todo = << >> /\ current = L!NoFile
        /\ \A r \in Asked : Recorded(r, TRUE)
        /\ \A i \in DOMAIN log : log[i].ok

(* A failure status has a cause the user can act on: a file that did not   *)
(* load, a name that is nowhere, or a function that failed                 *)
(* (bin/testcase.lua:197-201, 206-208, 233-235).                           *)
FailureHasCause ==
    status = Failure =>
        \/ errfiles # {}
        \/ \E name \in wanted : \A r \in registry : L!IsHook(r) \/ r.name # name
        \/ \E i \in DOMAIN log : ~log[i].ok

(* Load errors are reported before the command leaves, unless it leaves    *)
(* because a named test was not found or an assert failed                  *)
(* (bin/testcase.lua:198, 206-208, 228-230).                               *)
LoadErrorsShown ==
    step = "exited" /\ errfiles # {} =>
        shown \/ R!M.result = "notfound" \/ status = Crash

(* No test runs before every file is loaded, even if a file that is being  *)
(* loaded calls runner.run() (bin/testcase.lua:184-202).                   *)
NoRunWhileLoading ==
    step \in {"load", "listed"} => R!M.stage = "idle" /\ log = << >>

(* What Loader promises holds in the command as well: the list that run()  *)
(* is given has each registered function once, in its file and in the      *)
(* order of its lines (lib/registry.lua:62-93).                            *)
ListComplete == L!ListComplete

(* The command ends and has a status.                                      *)
CommandEnds == <>(status # NoStatus)
=============================================================================
