------------------------------- MODULE Runner -------------------------------
(***************************************************************************)
(* lib/runner.lua: run() takes the list of registered test files, visits   *)
(* them in order, calls the setup, test and teardown functions of each     *)
(* file through call(), and returns the figures of the report.             *)
(*                                                                         *)
(* The functions that are called are arbitrary user code.  What a user     *)
(* function can do to the runner is modelled by user steps: it changes the *)
(* working directory of its process, it removes directories, and it forks, *)
(* which leaves a copy of the whole process in the middle of the function. *)
(* A test file may do the same while it is being loaded, before run().     *)
(*                                                                         *)
(* mem[p] is the memory of process p: DO_NOT_RUN and the local variables   *)
(* of run(), run_file() and call().  fork() copies it.  The directories    *)
(* are shared by all processes.  log is a history variable: the calls      *)
(* whose outcome the runner has recorded, in the order it recorded them.   *)
(***************************************************************************)
EXTENDS Integers, Sequences, FiniteSets

CONSTANTS
    Main,       \* the process that loaded lib/runner.lua, whose id is PID
    Kids,       \* the processes that user code may fork
    TestName,   \* the names of the test functions
    Dirs,       \* the directories
    Root,       \* the directory the command was started in (testcase.getcwd)
    Removable,  \* the directories that user code may remove
    Lists       \* the lists of registered files that run() may be given

HookNames == {"before_all", "before_each", "after_each", "after_all"}

\* A registered file: its directory, the hooks it defines, its test functions.
Source == [dir : Dirs, hooks : SUBSET HookNames, tests : Seq(TestName)]

\* The elements of s that are in S, in their order.
Kept(s, S) ==
    LET kept[i \in 0 .. Len(s)] ==
            IF i = 0 THEN << >>
            ELSE IF s[i] \in S THEN Append(kept[i - 1], s[i]) ELSE kept[i - 1]
    IN  kept[Len(s)]

\* select_testcases(): keep the named tests, drop the files left without any.
Selected(l, names) ==
    LET picked == [i \in DOMAIN l |-> [l[i] EXCEPT !.tests = Kept(@, names)]]
    IN  Kept(picked, {s \in Source : s.tests # << >>})

\* The names that select_testcases() found in no file.
NotFound(l, names) ==
    {t \in names : \A i \in DOMAIN l : \A k \in DOMAIN l[i].tests :
                       l[i].tests[k] # t}

ASSUME ProcAssumption == Main \notin Kids
ASSUME DirAssumption == Root \in Dirs /\ Removable \subseteq Dirs \ {Root}
ASSUME ListAssumption == Lists \subseteq Seq(Source)

VARIABLES
    mem,    \* mem[p]: the memory of process p
    life,   \* life[p]: "unborn", "live", "exited" or "aborted" by an assert
    cwd,    \* cwd[p]: the working directory of p
    dirs,   \* the directories that exist
    log     \* the calls whose outcome the runner recorded

vars == <<mem, life, cwd, dirs, log>>

Proc == {Main} \cup Kids

-----------------------------------------------------------------------------
(* The memory of a process.                                                *)

CallStages == HookNames \cup {"test"}
FileStages == CallStages \cup {"tally"}
Stages == {"idle", "file", "returned"} \cup FileStages

\* The entry of an error list: a hook is named by its stage, a test by its name.
ErrName == HookNames \cup TestName

Memory ==
    [stage    : Stages,                      \* where run() stands
     infn     : BOOLEAN,                     \* inside xpcall(func) of call()
     saved    : Dirs,                        \* cwd of call()
     blocked  : BOOLEAN,                     \* DO_NOT_RUN
     result   : {"none", "blocked", "notfound", "done"},
     list     : Seq(Source),
     fi       : Nat \ {0},                   \* position of src in list
     ti       : Nat \ {0},                   \* position of test in src.tests
     n        : Nat,                         \* nsuccess of run_file()
     errs     : Seq(ErrName),                \* errs of run_file()
     nsuccess : Nat,                         \* nsuccess of run()
     ntest    : Nat,
     errors   : Seq([src : Nat \ {0}, errs : Seq(ErrName)]),
     count    : Nat]                         \* nerrors

Boot ==
    [stage |-> "idle", infn |-> FALSE, saved |-> Root, blocked |-> FALSE,
     result |-> "none", list |-> << >>, fi |-> 1, ti |-> 1, n |-> 0,
     errs |-> << >>, nsuccess |-> 0, ntest |-> 0, errors |-> << >>,
     count |-> 0]

Entry == [proc : Proc, fi : Nat \ {0}, stage : CallStages, ti : Nat \ {0},
          ok : BOOLEAN, dir : Dirs]

Live(p) == life[p] = "live"

\* The file run_file() works on, and the test function it has come to.
Src(m) == m.list[m.fi]
CallName_stage(m) == m.stage \* mutant: an error is never named by its test
CallName(m) == IF m.stage = "test" THEN Src(m).tests[m.ti] ELSE m.stage

\* for _, test in ipairs(src.tests): the loop stands at before_each.
LoopEnds(m) == m.stage = "before_each" /\ m.ti > Len(Src(m).tests)

\* run_file() has come to a function that is to be called.
Due(m) ==
    /\ m.stage \in CallStages
    /\ ~LoopEnds(m)
    /\ m.stage = "test" \/ m.stage \in Src(m).hooks

\* Where run_file() goes on after a call, by the stage that was called.
OnSuccess ==
    [before_all |-> "before_each", before_each |-> "test",
     test |-> "after_each", after_each |-> "before_each",
     after_all |-> "tally"]
OnFailure_noBreak == \* mutant: a failed before_each does not leave the loop
    [before_all |-> "tally", before_each |-> "after_each",
     test |-> "after_each", after_each |-> "after_all",
     after_all |-> "tally"]
OnFailure_failFast == \* mutant: a failed test leaves the loop
    [before_all |-> "tally", before_each |-> "after_all",
     test |-> "after_all", after_each |-> "after_all",
     after_all |-> "tally"]
OnFailure ==
    [before_all |-> "tally", before_each |-> "after_all",
     test |-> "after_each", after_each |-> "after_all",
     after_all |-> "tally"]

\* What run_file() does with the outcome of the function it has called.
Settle(m, ok) ==
    [m EXCEPT
        !.stage = IF ok THEN OnSuccess[m.stage] ELSE OnFailure[m.stage],
        !.ti    = IF ok /\ m.stage = "after_each" THEN @ + 1 ELSE @,
        !.n     = IF ok /\ m.stage = "test" THEN @ + 1 ELSE @,
        !.errs  = IF ok THEN @ ELSE Append(@, CallName(m))]

\* The local variables of run_file(), which every file starts afresh.
Fresh_keepN(m) == [m EXCEPT !.ti = 1, !.errs = << >>] \* mutant
Fresh_keepErrs(m) == [m EXCEPT !.ti = 1, !.n = 0] \* mutant
Fresh(m) == [m EXCEPT !.ti = 1, !.n = 0, !.errs = << >>]

-----------------------------------------------------------------------------
Init ==
    /\ mem = [p \in Proc |-> Boot]
    /\ life = [p \in Proc |-> IF p = Main THEN "live" ELSE "unborn"]
    /\ cwd = [p \in Proc |-> Root]
    /\ dirs = Dirs
    /\ log = << >>

Idle(p) == Live(p) /\ mem[p].stage = "idle"

\* runner.block() and runner.unblock(), around the loading of the test files.
SetBlocked(p, b) ==
    /\ Idle(p)
    /\ mem' = [mem EXCEPT ![p].blocked = b]
    /\ UNCHANGED <<life, cwd, dirs, log>>

\* runner.run() while DO_NOT_RUN is set.
RunBlocked(p) ==
    /\ Idle(p)
    /\ mem[p].blocked
    /\ mem' = [mem EXCEPT ![p].result = "blocked"]
    /\ UNCHANGED <<life, cwd, dirs, log>>

\* runner.run() when a selected name is in no file.
RunNotFound(p, l, names) ==
    /\ Idle(p)
    /\ ~mem[p].blocked
    /\ NotFound(l, names) # {}
    /\ mem' = [mem EXCEPT ![p].result = "notfound"]
    /\ UNCHANGED <<life, cwd, dirs, log>>

\* runner.run() up to its loop; no names given means every test.
RunStart(p, l, names) ==
    /\ Idle(p)
    /\ ~mem[p].blocked
    /\ NotFound(l, names) = {}
    /\ mem' = [mem EXCEPT ![p] =
                  [Boot EXCEPT
                      !.stage = "file",
                      !.list = IF names = {} THEN l ELSE Selected(l, names)]]
    /\ UNCHANGED <<life, cwd, dirs, log>>

\* An assert of run() or call() fails: the error leaves run() with no report.
Abort(p) ==
    /\ life' = [life EXCEPT ![p] = "aborted"]
    /\ UNCHANGED <<mem, dirs, log>>

\* The loop of run() enters the next file: chdir() and chdir(src.dirname).
NextFile(p) ==
    LET m == mem[p] IN
    /\ Live(p)
    /\ m.stage = "file"
    /\ m.fi <= Len(m.list)
    /\ IF Src(m).dir \in dirs
       THEN /\ cwd' = [cwd EXCEPT ![p] = Src(m).dir]
            /\ mem' = [mem EXCEPT ![p] =
                          [m EXCEPT !.stage = "before_all",
                                    !.ntest = @ + Len(Src(m).tests)]]
            /\ UNCHANGED <<life, dirs, log>>
       ELSE /\ cwd' = [cwd EXCEPT ![p] = Root]
            /\ Abort(p)

\* run_file() passes over a hook that the file does not define.
SkipHook(p) ==
    /\ Live(p)
    /\ mem[p].stage \in HookNames
    /\ mem[p].stage \notin Src(mem[p]).hooks
    /\ ~LoopEnds(mem[p])
    /\ mem' = [mem EXCEPT ![p] = Settle(@, TRUE)]
    /\ UNCHANGED <<life, cwd, dirs, log>>

\* run_file() has come to the end of src.tests.
LeaveLoop(p) ==
    /\ Live(p)
    /\ ~mem[p].infn
    /\ LoopEnds(mem[p])
    /\ mem' = [mem EXCEPT ![p].stage = "after_all"]
    /\ UNCHANGED <<life, cwd, dirs, log>>

\* call() up to xpcall(); getcwd() fails in a directory that was removed.
BeginCall(p) ==
    /\ Live(p)
    /\ ~mem[p].infn
    /\ Due(mem[p])
    /\ UNCHANGED cwd
    /\ IF cwd[p] \in dirs
       THEN /\ mem' = [mem EXCEPT ![p].infn = TRUE, ![p].saved = cwd[p]]
            /\ UNCHANGED <<life, dirs, log>>
       ELSE Abort(p)

\* After xpcall() returned: the process is not the one of PID.
Forked_never(p) == FALSE \* mutant: the pid is not compared
Forked(p) == p # Main

\* The directory call() goes back to.
ReturnDir_late(p) == cwd[p] \* mutant: getcwd() after the function returned
ReturnDir(p) == mem[p].saved

\* call() has its directory back, and run_file() records the outcome.
Resume(p, ok) ==
    LET m == mem[p] IN
    /\ cwd' = [cwd EXCEPT ![p] = ReturnDir(p)]
    /\ mem' = [mem EXCEPT ![p] = [Settle(m, ok) EXCEPT !.infn = FALSE]]
    /\ log' = Append(log, [proc |-> p, fi |-> m.fi, stage |-> m.stage,
                           ti |-> m.ti, ok |-> ok, dir |-> m.saved])
    /\ UNCHANGED <<life, dirs>>

\* call() after xpcall(): the user function returned (ok) or raised an error.
EndCall(p, ok) ==
    /\ Live(p)
    /\ mem[p].infn
    /\ \/ /\ Forked(p)                           \* exit()
          /\ life' = [life EXCEPT ![p] = "exited"]
          /\ UNCHANGED <<mem, cwd, dirs, log>>
       \/ /\ ~Forked(p) /\ ReturnDir(p) \notin dirs
          /\ UNCHANGED cwd
          /\ Abort(p)
       \/ /\ ~Forked(p) /\ ReturnDir(p) \in dirs
          /\ Resume(p, ok)

\* run() adds the figures of run_file() to its own.
Tally(p) ==
    LET m == mem[p] IN
    /\ Live(p)
    /\ m.stage = "tally"
    /\ mem' = [mem EXCEPT ![p] =
                  Fresh([m EXCEPT
                      !.stage = "file",
                      !.fi = @ + 1,
                      !.nsuccess = @ + m.n,
                      !.errors = IF m.errs = << >> THEN @
                                 ELSE Append(@, [src |-> m.fi, errs |-> m.errs]),
                      !.count = @ + Len(m.errs)])]
    /\ UNCHANGED <<life, cwd, dirs, log>>

\* run() goes back to the initial directory and returns the report.
ReturnRun(p) ==
    /\ Live(p)
    /\ mem[p].stage = "file"
    /\ mem[p].fi > Len(mem[p].list)
    /\ mem' = [mem EXCEPT ![p].stage = "returned", ![p].result = "done"]
    /\ cwd' = [cwd EXCEPT ![p] = Root]
    /\ UNCHANGED <<life, dirs, log>>

\* User code runs in a test file that is being loaded or in a function it set.
InUserCode(p) == Live(p) /\ (mem[p].stage = "idle" \/ mem[p].infn)

UserChdir(p, d) ==
    /\ InUserCode(p)
    /\ d \in dirs
    /\ cwd' = [cwd EXCEPT ![p] = d]
    /\ UNCHANGED <<mem, life, dirs, log>>

UserRmdir(p, d) ==
    /\ InUserCode(p)
    /\ dirs' = dirs \ {d}
    /\ UNCHANGED <<mem, life, cwd, log>>

UserFork(p, k) ==
    /\ InUserCode(p)
    /\ life[k] = "unborn"
    /\ life' = [life EXCEPT ![k] = "live"]
    /\ mem' = [mem EXCEPT ![k] = mem[p]]
    /\ cwd' = [cwd EXCEPT ![k] = cwd[p]]
    /\ UNCHANGED <<dirs, log>>

\* Nothing is left to do: every process has ended or returned from run().
Finished ==
    /\ \A p \in Proc : Live(p) => mem[p].stage = "returned"
    /\ UNCHANGED vars

\* The steps of run() once it has begun.
RunStep(p) ==
    \/ NextFile(p)
    \/ SkipHook(p)
    \/ LeaveLoop(p)
    \/ BeginCall(p)
    \/ \E ok \in BOOLEAN : EndCall(p, ok)
    \/ Tally(p)
    \/ ReturnRun(p)

IdleStep(p) ==
    \/ \E b \in BOOLEAN : SetBlocked(p, b)
    \/ RunBlocked(p)
    \/ \E l \in Lists, names \in SUBSET TestName :
           RunNotFound(p, l, names) \/ RunStart(p, l, names)

UserStep(p) ==
    \/ \E d \in Dirs : UserChdir(p, d)
    \/ \E d \in Removable : UserRmdir(p, d)
    \/ \E k \in Kids : UserFork(p, k)

Next == Finished \/ \E p \in Proc : RunStep(p) \/ IdleStep(p) \/ UserStep(p)

Spec == Init /\ [][Next]_vars

\* Every user function returns or raises an error, and run() goes on.
FairSpec == Spec /\ WF_vars(RunStep(Main))

-----------------------------------------------------------------------------
(* Properties.                                                             *)

TypeOK ==
    /\ mem \in [Proc -> Memory]
    /\ life \in [Proc -> {"unborn", "live", "exited", "aborted"}]
    /\ cwd \in [Proc -> Dirs]
    /\ dirs \in SUBSET Dirs
    /\ log \in Seq(Entry)

\* The memory of the process that reports, and the calls it recorded.
M == mem[Main]
Passed == {i \in DOMAIN log : log[i].stage = "test" /\ log[i].ok}
Failed == {i \in DOMAIN log : ~log[i].ok}
IsCall(i, f, stage) == log[i].fi = f /\ log[i].stage = stage

(* The figures of the report are those of the calls that were made: no     *)
(* outcome is lost or counted twice when a failing hook leaves the loop of *)
(* run_file() early (lib/runner.lua:161-196, 310-320).                     *)
Accounting ==
    /\ Cardinality(Passed) = M.nsuccess + M.n
    /\ Cardinality(Failed) = M.count + Len(M.errs)

\* The names under which the failed calls of file f are reported.
NameOf(e) == IF e.stage = "test" THEN M.list[e.fi].tests[e.ti] ELSE e.stage
NamesOf(f) ==
    LET failed == Kept(log, {e \in Entry : e.fi = f /\ ~e.ok})
    IN  [i \in DOMAIN failed |-> NameOf(failed[i])]

(* The errors of the report name the failed calls of each file, in the     *)
(* order they were made; every file that has any is listed, once and in    *)
(* its place, and no other (lib/runner.lua:138-212, 312-318).              *)
ErrorsByFile ==
    /\ M.stage \in FileStages => M.errs = NamesOf(M.fi)
    /\ \A f \in 1 .. M.fi - 1 :
           NamesOf(f) # << >> => \E k \in DOMAIN M.errors : M.errors[k].src = f
    /\ \A k \in DOMAIN M.errors :
           /\ M.errors[k].src < M.fi
           /\ M.errors[k].errs = NamesOf(M.errors[k].src)
           /\ M.errors[k].errs # << >>
    /\ \A k, n \in DOMAIN M.errors : k < n => M.errors[k].src < M.errors[n].src

\* The hooks of its file and the calls before it allow the call at j.
InOrder(j) ==
    LET e == log[j]
        hooks == M.list[e.fi].hooks
        earlier == {i \in 1 .. j - 1 : log[i].fi = e.fi}
    IN  /\ \A i \in earlier :
               /\ e.stage # "before_all"
               /\ log[i].stage # "after_all"
               /\ log[i].stage = "before_all" => log[i].ok
               /\ log[i].stage \in {"before_each", "after_each"} /\ ~log[i].ok
                      => e.stage = "after_all"
               /\ e.stage = log[i].stage => log[i].ti < e.ti
        /\ "before_all" \in hooks =>
               e.stage = "before_all" \/ \E i \in earlier : IsCall(i, e.fi, "before_all")
        /\ e.stage = "test" /\ "before_each" \in hooks =>
               \E i \in earlier : /\ IsCall(i, e.fi, "before_each")
                                  /\ log[i].ti = e.ti /\ log[i].ok
        /\ \A i \in earlier :
               /\ log[i].stage = "test" /\ "after_each" \in hooks
               /\ e.stage # "after_each"
               => \E h \in i + 1 .. j - 1 : /\ IsCall(h, e.fi, "after_each")
                                           /\ log[h].ti = log[i].ti

(* What README.md:72-92 promises of the hooks: before_all comes first, and  *)
(* nothing of the file is called once it failed; after_all comes last; once *)
(* before_each or after_each failed only after_all is called; a test runs   *)
(* between a before_each that succeeded and its after_each.                 *)
HookProtocol == \A j \in DOMAIN log : InOrder(j)

(* A test that was not run is accounted for by a failed hook of its file,  *)
(* and after_all is called unless before_all failed, however the loop of   *)
(* run_file() was left (lib/runner.lua:148-207).                           *)
NoTestForgotten ==
    M.stage = "returned" =>
        \A f \in DOMAIN M.list :
            LET called(stage) == {i \in DOMAIN log : IsCall(i, f, stage)}
                failed(stage) == called(stage) \cap Failed
            IN  /\ failed("before_all") \cup failed("before_each")
                       \cup failed("after_each") = {}
                       => \A t \in DOMAIN M.list[f].tests :
                              \E i \in called("test") : log[i].ti = t
                /\ "after_all" \in M.list[f].hooks =>
                       called("after_all") # {} \/ failed("before_all") # {}

(* A child that user code forked never carries the run on: whatever it was *)
(* forked from, it reports neither a test nor an error, because it exits   *)
(* when the first function it is in returns (lib/runner.lua:62-64).        *)
ChildReportsNothing ==
    \A k \in Kids :
        mem[k].stage = "returned" => mem[k].ntest = 0 /\ mem[k].count = 0

(* Whatever user code does to the working directory, every function is     *)
(* called in the directory of its file (lib/runner.lua:52, 67, 305-308).   *)
OwnDirectory == \A i \in DOMAIN log : log[i].dir = M.list[log[i].fi].dir

(* The run ends without a report only when the directory of the file it     *)
(* has come to was removed (the asserts at lib/runner.lua:52, 68, 306,308). *)
AbortOnlyOnLostDir ==
    life[Main] = "aborted" => M.fi \in DOMAIN M.list /\ Src(M).dir \notin dirs

-----------------------------------------------------------------------------
(* run() implements TestReport: the verdicts are those of the recorded     *)
(* calls, and a test whose file has a failed hook is skipped.              *)

ShapeOf(l) == [f \in DOMAIN l |-> Len(l[f].tests)]

Phase ==
    CASE M.stage = "idle" /\ Live(Main) -> "idle"
      [] M.stage = "returned" -> "reported"
      [] ~Live(Main) -> "lost"
      [] OTHER -> "running"

\* Test x[2] of file x[1] was called; a hook of file f has failed.
Called(x) == \E i \in DOMAIN log : IsCall(i, x[1], "test") /\ log[i].ti = x[2]
HookFailed(f) == \E i \in Failed : log[i].fi = f /\ log[i].stage # "test"

Verdict ==
    [x \in UNION {{<<f, t>> : t \in DOMAIN M.list[f].tests} : f \in DOMAIN M.list} |->
        IF Called(x)
        THEN IF \E i \in Passed : log[i].fi = x[1] /\ log[i].ti = x[2]
             THEN "passed" ELSE "failed"
        ELSE IF HookFailed(x[1]) THEN "skipped" ELSE "pending"]

FailedHooks == {i \in Failed : log[i].stage # "test"}

Figures ==
    IF M.stage = "returned"
    THEN [nsuccess |-> M.nsuccess,
          nfailure |-> M.ntest - M.nsuccess,
          nerrors  |-> M.count]
    ELSE [nsuccess |-> 0, nfailure |-> 0, nerrors |-> 0]

Report ==
    INSTANCE TestReport WITH
        Shapes <- {ShapeOf(l) : l \in Lists} \cup
                  {ShapeOf(Selected(l, ns)) : l \in Lists, ns \in SUBSET TestName},
        phase <- Phase,
        shape <- ShapeOf(M.list),
        verdict <- Verdict,
        hookerrs <- Cardinality(FailedHooks),
        report <- Figures

(* run() implements TestReport: the figures it returns are those of one    *)
(* verdict per test, given in order, and a run that has begun returns them *)
(* or fails an assert if every user function returns                       *)
(* (lib/runner.lua:276-330).                                               *)
ImplementsTestReport == Report!Spec
=============================================================================
