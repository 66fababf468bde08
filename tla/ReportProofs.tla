---------------------------- MODULE ReportProofs -----------------------------
(***************************************************************************)
(* The calls that a run records, and what its report says of them, for     *)
(* every list of files and any outcome of the calls: the order of the      *)
(* calls, the steps of TestReport that run() takes, and the errors that    *)
(* its report lists.                                                       *)
(***************************************************************************)
EXTENDS RunnerProofs

-----------------------------------------------------------------------------
(* The steps of the reporting process, seen from the log.                  *)

Hooks == Src(M).hooks
SameFile == M'.list = M.list /\ M'.fi = M.fi

\* The figures of run(), and those of run_file() with the list of errors.
SameFigures == M'.ntest = M.ntest /\ M'.nsuccess = M.nsuccess /\ M'.count = M.count
SameAccount == M'.n = M.n /\ M'.errs = M.errs /\ M'.errors = M.errors

\* The process goes on, or an assert of run() or call() fails.
Lives == Live(Main) /\ life'[Main] = life[Main]
Dies == Live(Main) /\ life'[Main] = "aborted" /\ M.stage \notin {"idle", "returned"}

\* Nothing is recorded and run() stays where it stands.
Stays ==
    /\ SameFile /\ M'.ti = M.ti /\ M'.stage = M.stage /\ log' = log
    /\ SameFigures /\ SameAccount
    /\ life'[Main] = life[Main] \/ Dies

Begins ==
    /\ M.stage = "idle" /\ M'.stage = "file" /\ M'.fi = 1 /\ M'.ti = 1 /\ log' = log
    /\ M'.ntest = 0 /\ M'.n = 0 /\ M'.errs = << >> /\ M'.errors = << >>
    /\ \E l \in Lists, names \in SUBSET TestName : M'.list \in {l, Selected(l, names)}
    /\ Lives

Enters ==
    /\ M.stage = "file" /\ M.fi \in DOMAIN M.list
    /\ SameFile /\ M'.ti = M.ti /\ M'.stage = "before_all" /\ log' = log
    /\ M'.ntest = M.ntest + Len(Src(M).tests) /\ SameAccount
    /\ Lives

Skips ==
    /\ M.stage \in HookNames \ Hooks /\ M.fi \in DOMAIN M.list
    /\ SameFile /\ M'.stage = OnSuccess[M.stage] /\ log' = log
    /\ M'.ti = IF M.stage = "after_each" THEN M.ti + 1 ELSE M.ti
    /\ M'.ntest = M.ntest /\ SameAccount
    /\ Lives

Leaves ==
    /\ LoopEnds(M) /\ M.fi \in DOMAIN M.list
    /\ SameFile /\ M'.ti = M.ti /\ M'.stage = "after_all" /\ log' = log
    /\ M'.ntest = M.ntest /\ SameAccount
    /\ Lives

Calls(ok) ==
    /\ Due(M) /\ M.fi \in DOMAIN M.list
    /\ SameFile
    /\ M'.stage = IF ok THEN OnSuccess[M.stage] ELSE OnFailure[M.stage]
    /\ M'.ti = IF ok /\ M.stage = "after_each" THEN M.ti + 1 ELSE M.ti
    /\ \E e \in Entry : /\ log' = Append(log, e)
                        /\ e.fi = M.fi /\ e.stage = M.stage /\ e.ti = M.ti /\ e.ok = ok
    /\ M'.ntest = M.ntest
    /\ M'.errs = IF ok THEN M.errs ELSE Append(M.errs, CallName(M))
    /\ M'.errors = M.errors
    /\ Lives

Tallies ==
    /\ M.stage = "tally" /\ M'.stage = "file"
    /\ M'.list = M.list /\ M'.fi = M.fi + 1 /\ M'.ti = 1 /\ log' = log
    /\ M'.ntest = M.ntest /\ M'.n = 0 /\ M'.errs = << >>
    /\ M'.errors = IF M.errs = << >> THEN M.errors
                   ELSE Append(M.errors, [src |-> M.fi, errs |-> M.errs])
    /\ Lives

Returns ==
    /\ M.stage = "file" /\ M.fi > Len(M.list) /\ M'.stage = "returned"
    /\ SameFile /\ M'.ti = M.ti /\ log' = log
    /\ SameFigures /\ SameAccount
    /\ Lives

-----------------------------------------------------------------------------
(* What the log says of the file run() has come to.                        *)

Setups == {"before_all", "before_each", "after_each"}

\* The stages of run_file() behind a function of a test.
Behind ==
    [before_each |-> {"test", "after_each", "after_all", "tally"},
     test        |-> {"after_each", "after_all", "tally"},
     after_each  |-> {"after_all", "tally"}]

\* A call of this file is behind run_file(), and where it failed so is what
\* it takes with it.
Past(e) ==
    /\ M.stage # "before_all"
    /\ e.stage = "after_all" => M.stage = "tally"
    /\ e.stage = "before_all" /\ ~e.ok => M.stage = "tally"
    /\ e.stage \in {"before_each", "after_each"} /\ ~e.ok =>
           M.stage \in {"after_all", "tally"}
    /\ e.ti <= M.ti
    /\ e.stage \in DOMAIN Behind /\ e.ti = M.ti => M.stage \in Behind[e.stage]

PastCalls == \A i \in DOMAIN log : log[i].fi = M.fi => Past(log[i])

\* before_all was called, and before_each for the test that comes next.
SetUp ==
    /\ M.stage # "before_all" /\ "before_all" \in Hooks =>
           \E i \in DOMAIN log : IsCall(i, M.fi, "before_all")
    /\ M.stage = "test" /\ "before_each" \in Hooks =>
           \E i \in DOMAIN log : /\ IsCall(i, M.fi, "before_each")
                                 /\ log[i].ti = M.ti /\ log[i].ok

\* Every test was followed by its after_each, the last one perhaps not yet.
TornDown ==
    \A i \in DOMAIN log :
        /\ IsCall(i, M.fi, "test") /\ "after_each" \in Hooks
        /\ ~(M.stage = "after_each" /\ log[i].ti = M.ti)
        => \E h \in i + 1 .. Len(log) : /\ IsCall(h, M.fi, "after_each")
                                        /\ log[h].ti = log[i].ti

\* No hook that leaves the loop has failed.
Clean(f) ==
    \A i \in DOMAIN log : log[i].fi = f /\ log[i].stage \in Setups => log[i].ok

Ran(f, t) == \E i \in DOMAIN log : IsCall(i, f, "test") /\ log[i].ti = t

Closed(f) ==
    \E i \in DOMAIN log : \/ IsCall(i, f, "after_all")
                          \/ IsCall(i, f, "before_all") /\ ~log[i].ok

\* Without such a failure the tests so far were called.
Progress ==
    Clean(M.fi) =>
        \A t \in DOMAIN Src(M).tests :
            \/ t < M.ti
            \/ t = M.ti /\ M.stage = "after_each"
            \/ M.stage \in {"after_all", "tally"}
            => Ran(M.fi, t)

Closing == M.stage = "tally" /\ "after_all" \in Hooks => Closed(M.fi)

AtFile == PastCalls /\ SetUp /\ TornDown /\ Progress /\ Closing

\* What NoTestForgotten says of a file.
Settled(f) ==
    /\ Clean(f) => \A t \in DOMAIN M.list[f].tests : Ran(f, t)
    /\ "after_all" \in M.list[f].hooks => Closed(f)

\* Nothing is recorded of files that are still to come.
NoneAhead ==
    \A i \in DOMAIN log :
        log[i].fi <= M.fi /\ (log[i].fi = M.fi => M.stage \in FileStages)

HistInv ==
    /\ M.stage = "idle" => log = << >>
    /\ M.stage \notin FileStages \/ M.stage = "before_all" => M.ti = 1
    /\ M.stage = "returned" => M.fi > Len(M.list)
    /\ NoneAhead
    /\ M.stage \in FileStages => AtFile
    /\ \A f \in DOMAIN M.list : f < M.fi => Settled(f)
    /\ HookProtocol

-----------------------------------------------------------------------------
(* Every step is one of these.                                             *)

MainStep ==
    \/ Stays \/ Begins \/ Enters \/ Skips \/ Leaves
    \/ \E ok \in BOOLEAN : Calls(ok)
    \/ Tallies \/ Returns

LEMMA MainSteps == TypeInv /\ TypeInv' /\ [Next]_vars => MainStep
<1> SUFFICES ASSUME TypeInv, TypeInv', [Next]_vars PROVE MainStep
  OBVIOUS
<1>0. /\ mem \in [Proc -> Memory] /\ Main \in Proc /\ M \in Memory /\ log \in Seq(Entry)
      /\ Located(M) /\ M = mem[Main] /\ M' = mem'[Main]
      /\ life \in [Proc -> {"unborn", "live", "exited", "aborted"}]
  BY DEF TypeInv, TypeOK, Proc, M
<1>1. ASSUME M' = M, log' = log, life'[Main] = life[Main] \/ Dies PROVE MainStep
  BY <1>1 DEF MainStep, Stays, SameFile, SameFigures, SameAccount
<1>2. CASE UNCHANGED vars
  BY <1>1, <1>2 DEF vars, M
<1>3. ASSUME NEW p \in Proc, p # Main, RunStep(p) \/ IdleStep(p) \/ UserStep(p)
      PROVE MainStep
  <2>1. log' = log
    BY <1>0, <1>3 DEF RunStep, IdleStep, UserStep, NextFile, SkipHook, LeaveLoop,
          BeginCall, EndCall, Forked, Tally, ReturnRun, SetBlocked, RunBlocked,
          RunNotFound, RunStart, UserChdir, UserRmdir, UserFork, Abort
  <2>2. mem'[Main] = mem[Main]
    BY <1>0, <1>3, ProcAssumption
       DEF RunStep, IdleStep, UserStep, NextFile, SkipHook, LeaveLoop,
          BeginCall, EndCall, Forked, Tally, ReturnRun, SetBlocked, RunBlocked,
          RunNotFound, RunStart, UserChdir, UserRmdir, UserFork, Abort
  <2>3. life'[Main] = life[Main]
    BY <1>0, <1>3, ProcAssumption
       DEF RunStep, IdleStep, UserStep, NextFile, SkipHook, LeaveLoop,
          BeginCall, EndCall, Resume, Forked, Tally, ReturnRun, SetBlocked, RunBlocked,
          RunNotFound, RunStart, UserChdir, UserRmdir, UserFork, Abort
  <2> QED
    BY <1>0, <1>1, <2>1, <2>2, <2>3
<1>4. ASSUME RunStep(Main) PROVE MainStep
  <2>1. CASE NextFile(Main)
    <3>1. M.fi \in DOMAIN M.list
      BY <1>0, <2>1, Fields DEF NextFile
    <3>2. CASE Src(M).dir \in dirs
      <4> DEFINE m == [M EXCEPT !.stage = "before_all",
                                !.ntest = @ + Len(Src(M).tests)]
      <4>1. /\ mem' = [mem EXCEPT ![Main] = m] /\ log' = log /\ M.stage = "file"
            /\ Lives
        BY <1>0, <2>1, <3>2 DEF NextFile, Lives
      <4>2. /\ m.list = M.list /\ m.fi = M.fi /\ m.ti = M.ti /\ m.stage = "before_all"
            /\ m.ntest = M.ntest + Len(Src(M).tests)
        BY <1>0 DEF Memory
      <4>4. m.n = M.n /\ m.errs = M.errs /\ m.errors = M.errors
        BY <1>0 DEF Memory
      <4> HIDE DEF m
      <4>3. M' = m
        BY <1>0, <4>1
      <4> QED
        BY <3>1, <4>1, <4>2, <4>3, <4>4 DEF MainStep, Enters, SameFile, SameAccount
    <3>3. CASE Src(M).dir \notin dirs
      <4>1. M' = M /\ log' = log /\ Dies
        BY <1>0, <2>1, <3>3 DEF NextFile, Abort, Dies
      <4> QED
        BY <1>1, <4>1
    <3> QED
      BY <3>2, <3>3
  <2>2. CASE SkipHook(Main)
    <3>1. /\ M.stage \in HookNames \ Hooks /\ M.stage \in CallStages
          /\ M.fi \in DOMAIN M.list
      BY <1>0, <2>2 DEF SkipHook, CallStages, FileStages, Located, HookNames, Hooks
    <3>2. M' = Settle(M, TRUE) /\ log' = log /\ Lives
      BY <1>0, <2>2 DEF SkipHook, Lives
    <3>3. /\ M'.list = M.list /\ M'.fi = M.fi /\ M'.stage = OnSuccess[M.stage]
          /\ M'.ntest = M.ntest
          /\ M'.ti = IF M.stage = "after_each" THEN M.ti + 1 ELSE M.ti
      <4>1. M \in Memory /\ M' = Settle(M, TRUE)
        BY <1>0, <3>2
      <4>2. M'.list = M.list /\ M'.fi = M.fi /\ M'.ntest = M.ntest
        BY <4>1, PassFields
      <4>3. M'.stage = OnSuccess[M.stage]
        BY <4>1, PassFields
      <4>4. M'.ti = IF M.stage = "after_each" THEN M.ti + 1 ELSE M.ti
        BY <4>1, PassFields
      <4> QED
        BY <4>2, <4>3, <4>4
    <3>4. M'.n = M.n /\ M'.errs = M.errs /\ M'.errors = M.errors
      <4>1. M \in Memory /\ M' = Settle(M, TRUE) /\ M.stage # "test"
        BY <1>0, <3>1, <3>2 DEF HookNames
      <4> QED
        BY <4>1, PassFields
    <3> QED
      BY <3>1, <3>2, <3>3, <3>4 DEF MainStep, Skips, SameFile, SameAccount
  <2>3. CASE LeaveLoop(Main)
    <3>1. /\ LoopEnds(M) /\ M'.list = M.list /\ M'.fi = M.fi /\ M'.ti = M.ti
          /\ M'.stage = "after_all" /\ log' = log /\ M'.ntest = M.ntest
      BY <1>0, <2>3 DEF LeaveLoop, Memory
    <3>2. M.fi \in DOMAIN M.list
      BY <1>0, <3>1 DEF LoopEnds, FileStages, CallStages, HookNames, Located
    <3>3. Lives
      BY <2>3 DEF LeaveLoop, Lives
    <3>4. SameAccount
      BY <1>0, <2>3 DEF LeaveLoop, Memory, SameAccount
    <3> QED
      BY <3>1, <3>2, <3>3, <3>4 DEF MainStep, Leaves, SameFile
  <2>4. CASE BeginCall(Main)
    <3>1. /\ M'.list = M.list /\ M'.fi = M.fi /\ M'.ti = M.ti /\ M'.stage = M.stage
          /\ log' = log /\ SameFigures /\ SameAccount
      <4>1. CASE M' = M /\ log' = log
        BY <4>1 DEF SameFigures, SameAccount
      <4>2. CASE M' = [M EXCEPT !.infn = TRUE, !.saved = cwd[Main]] /\ log' = log
        <5>1. /\ M'.list = M.list /\ M'.fi = M.fi /\ M'.ti = M.ti
              /\ M'.stage = M.stage
          BY <1>0, <4>2 DEF Memory
        <5>2. SameFigures
          BY <1>0, <4>2 DEF Memory, SameFigures
        <5>3. SameAccount
          BY <1>0, <4>2 DEF Memory, SameAccount
        <5> QED
          BY <4>2, <5>1, <5>2, <5>3
      <4> QED
        BY <1>0, <2>4, <4>1, <4>2 DEF BeginCall, Abort
    <3>2. life'[Main] = life[Main] \/ Dies
      BY <1>0, <2>4 DEF BeginCall, Abort, Due, Dies, CallStages, HookNames
    <3> QED
      BY <3>1, <3>2 DEF MainStep, Stays, SameFile
  <2>5. ASSUME NEW ok \in BOOLEAN, EndCall(Main, ok) PROVE MainStep
    <3>1. M.infn /\ Due(M) /\ M.stage \in CallStages /\ M.fi \in DOMAIN M.list
      BY <1>0, <2>5 DEF EndCall, Located, Due, FileStages
    <3>2. CASE M.saved \notin dirs
      <4>1. M' = M /\ log' = log
        BY <1>0, <2>5, <3>2 DEF EndCall, Forked, ReturnDir, Abort
      <4>2. Dies
        BY <1>0, <2>5, <3>1, <3>2
           DEF EndCall, Forked, ReturnDir, Abort, Dies, CallStages, HookNames
      <4> QED
        BY <1>1, <4>1, <4>2
    <3>3. CASE M.saved \in dirs
      <4> DEFINE e == [proc |-> Main, fi |-> M.fi, stage |-> M.stage,
                       ti |-> M.ti, ok |-> ok, dir |-> M.saved]
      <4>1. M' = [Settle(M, ok) EXCEPT !.infn = FALSE] /\ log' = Append(log, e)
        BY <1>0, <2>5, <3>3 DEF EndCall, Forked, Resume, ReturnDir
      <4>2. /\ M'.list = Settle(M, ok).list /\ M'.fi = Settle(M, ok).fi
            /\ M'.stage = Settle(M, ok).stage /\ M'.ti = Settle(M, ok).ti
            /\ M'.ntest = Settle(M, ok).ntest
        BY <1>0, <4>1 DEF Settle, Memory
      <4>3. /\ M'.list = M.list /\ M'.fi = M.fi
            /\ M'.stage = IF ok THEN OnSuccess[M.stage] ELSE OnFailure[M.stage]
            /\ M'.ti = IF ok /\ M.stage = "after_each" THEN M.ti + 1 ELSE M.ti
            /\ M'.ntest = M.ntest
        BY <1>0, <4>2, SettleFields
      <4>7. /\ M'.errs = IF ok THEN M.errs ELSE Append(M.errs, CallName(M))
            /\ M'.errors = M.errors
        <5>1. M'.errs = Settle(M, ok).errs /\ M'.errors = Settle(M, ok).errors
          BY <1>0, <4>1 DEF Settle, Memory
        <5> QED
          BY <1>0, <5>1, SettleFields
      <4>4. /\ e \in Entry /\ e.fi = M.fi /\ e.stage = M.stage /\ e.ti = M.ti
            /\ e.ok = ok
        BY <1>0, <3>1 DEF Entry, Memory
      <4> HIDE DEF e
      <4>5. Lives
        BY <1>0, <2>5, <3>3 DEF EndCall, Forked, Resume, ReturnDir, Lives
      <4>6. Calls(ok)
        BY <3>1, <4>1, <4>3, <4>4, <4>5, <4>7 DEF Calls, SameFile
      <4> QED
        BY <4>6 DEF MainStep
    <3> QED
      BY <3>2, <3>3
  <2>6. CASE Tally(Main)
    <3>1. /\ M.stage = "tally" /\ M'.stage = "file" /\ M'.list = M.list
          /\ M'.fi = M.fi + 1 /\ M'.ti = 1 /\ log' = log
          /\ M'.ntest = M.ntest /\ M'.n = 0 /\ M'.errs = << >>
      BY <1>0, <2>6 DEF Tally, Fresh, Memory
    <3>3. M'.errors = IF M.errs = << >> THEN M.errors
                      ELSE Append(M.errors, [src |-> M.fi, errs |-> M.errs])
      BY <1>0, <2>6 DEF Tally, Fresh, Memory
    <3>2. Lives
      BY <2>6 DEF Tally, Lives
    <3> QED
      BY <3>1, <3>2, <3>3 DEF MainStep, Tallies
  <2>7. CASE ReturnRun(Main)
    <3>1. /\ M.stage = "file" /\ M.fi > Len(M.list) /\ M'.stage = "returned"
          /\ M'.list = M.list /\ M'.fi = M.fi /\ M'.ti = M.ti /\ log' = log
          /\ SameFigures /\ SameAccount
      BY <1>0, <2>7 DEF ReturnRun, Memory, SameFigures, SameAccount
    <3>2. Lives
      BY <2>7 DEF ReturnRun, Lives
    <3> QED
      BY <3>1, <3>2 DEF MainStep, Returns, SameFile
  <2> QED
    BY <1>4, <2>1, <2>2, <2>3, <2>4, <2>5, <2>6, <2>7 DEF RunStep
<1>5. ASSUME IdleStep(Main) PROVE MainStep
  <2>1. ASSUME NEW b \in BOOLEAN, SetBlocked(Main, b) PROVE MainStep
    <3>1. /\ M'.list = M.list /\ M'.fi = M.fi /\ M'.ti = M.ti /\ M'.stage = M.stage
          /\ log' = log /\ SameFigures /\ SameAccount
      BY <1>0, <2>1 DEF SetBlocked, Memory, SameFigures, SameAccount
    <3> QED
      BY <2>1, <3>1 DEF SetBlocked, MainStep, Stays, SameFile
  <2>2. ASSUME NEW l \in Lists, NEW names \in SUBSET TestName,
               RunNotFound(Main, l, names)
        PROVE MainStep
    <3>1. /\ M'.list = M.list /\ M'.fi = M.fi /\ M'.ti = M.ti /\ M'.stage = M.stage
          /\ log' = log /\ SameFigures /\ SameAccount
      BY <1>0, <2>2 DEF RunNotFound, Memory, SameFigures, SameAccount
    <3> QED
      BY <2>2, <3>1 DEF RunNotFound, MainStep, Stays, SameFile
  <2>3. ASSUME NEW l \in Lists, NEW names \in SUBSET TestName, RunStart(Main, l, names)
        PROVE MainStep
    <3>1. /\ M.stage = "idle" /\ M'.stage = "file" /\ M'.fi = 1 /\ M'.ti = 1
          /\ log' = log /\ M'.ntest = 0 /\ M'.n = 0 /\ M'.errs = << >>
          /\ M'.errors = << >> /\ M'.list \in {l, Selected(l, names)}
      BY <1>0, <2>3 DEF RunStart, Idle, Boot
    <3>2. Lives
      BY <2>3 DEF RunStart, Idle, Lives
    <3> QED
      BY <3>1, <3>2 DEF MainStep, Begins
  <2>4. CASE RunBlocked(Main)
    <3>1. /\ M'.list = M.list /\ M'.fi = M.fi /\ M'.ti = M.ti /\ M'.stage = M.stage
          /\ log' = log /\ SameFigures /\ SameAccount
      BY <1>0, <2>4 DEF RunBlocked, Memory, SameFigures, SameAccount
    <3> QED
      BY <2>4, <3>1 DEF RunBlocked, MainStep, Stays, SameFile
  <2> QED
    BY <1>5, <2>1, <2>2, <2>3, <2>4 DEF IdleStep
<1>6. ASSUME UserStep(Main) PROVE MainStep
  <2>1. M' = M /\ log' = log /\ life'[Main] = life[Main]
    BY <1>0, <1>6, ProcAssumption
       DEF UserStep, UserChdir, UserRmdir, UserFork, InUserCode
  <2> QED
    BY <1>1, <2>1
<1> QED
  BY <1>2, <1>3, <1>4, <1>5, <1>6 DEF Next, Finished

-----------------------------------------------------------------------------
(* The steps preserve what the log says.                                   *)

(* The entries of the log and the positions of run() are typed.            *)
LEMMA LogTypes ==
    ASSUME TypeInv
    PROVE  /\ log \in Seq(Entry) /\ DOMAIN log = 1 .. Len(log) /\ Len(log) \in Nat
           /\ \A i \in DOMAIN log :
                  /\ log[i].fi \in Nat /\ log[i].fi # 0 /\ log[i].ti \in Nat
                  /\ log[i].ti # 0 /\ log[i].stage \in CallStages
                  /\ log[i].ok \in BOOLEAN
           /\ M.fi \in Nat /\ M.fi # 0 /\ M.ti \in Nat /\ M.ti # 0
           /\ M.stage \in Stages /\ M.list \in Seq(Source)
           /\ M.stage \in FileStages => M.fi \in DOMAIN M.list
           /\ M.stage = "test" => M.ti \in DOMAIN Src(M).tests
           /\ M.fi \in DOMAIN M.list =>
                  Src(M).tests \in Seq(TestName) /\ DOMAIN Src(M).tests \subseteq Nat
<1>1. log \in Seq(Entry) /\ M \in Memory /\ Located(M)
  BY DEF TypeInv, TypeOK, Proc, M
<1>2. DOMAIN log = 1 .. Len(log) /\ Len(log) \in Nat /\ \A i \in DOMAIN log : log[i] \in Entry
  BY <1>1
<1>3. \A e \in Entry : /\ e.fi \in Nat /\ e.fi # 0 /\ e.ti \in Nat /\ e.ti # 0
                       /\ e.stage \in CallStages /\ e.ok \in BOOLEAN
  BY DEF Entry
<1>4. /\ M.fi \in Nat /\ M.fi # 0 /\ M.ti \in Nat /\ M.ti # 0
      /\ M.stage \in Stages /\ M.list \in Seq(Source)
  BY <1>1 DEF Memory
<1>5. ASSUME M.fi \in DOMAIN M.list PROVE Src(M).tests \in Seq(TestName)
  <2>1. Src(M) \in Source
    BY <1>4, <1>5 DEF Src
  <2> QED
    BY <2>1 DEF Source
<1>6. \A s \in Seq(TestName) : DOMAIN s \subseteq Nat
  OBVIOUS
<1> QED
  BY <1>1, <1>2, <1>3, <1>4, <1>5, <1>6 DEF Located

(* A step that records nothing changes no file that is behind.             *)
LEMMA SameLog ==
    ASSUME log' = log, M'.list = M.list
    PROVE  /\ HookProtocol => HookProtocol'
           /\ \A f \in DOMAIN M.list : Settled(f) => Settled(f)'
<1>1. HookProtocol => HookProtocol'
  BY DEF HookProtocol, InOrder, IsCall
<1>2. ASSUME NEW f \in DOMAIN M.list, Settled(f) PROVE Settled(f)'
  BY <1>2 DEF Settled, Clean, Ran, Closed, IsCall
<1> QED
  BY <1>1, <1>2

(* The names of the stages differ.                                         *)
LEMMA StageNames ==
    /\ CallStages = {"before_all", "before_each", "after_each", "after_all", "test"}
    /\ FileStages = CallStages \cup {"tally"}
    /\ Stages = {"idle", "file", "returned"} \cup FileStages
    /\ HookNames = {"before_all", "before_each", "after_each", "after_all"}
  BY DEF CallStages, FileStages, Stages, HookNames

(* Nothing was recorded before the first step.                             *)
LEMMA HistInit == Init => HistInv
<1> SUFFICES ASSUME Init PROVE HistInv
  OBVIOUS
<1>1. log = << >> /\ M = Boot
  BY DEF Init, M, Proc
<1>2. M.stage = "idle" /\ M.ti = 1 /\ M.fi = 1 /\ M.list = << >> /\ DOMAIN log = {}
  BY <1>1 DEF Boot
<1> QED
  BY <1>1, <1>2, StageNames DEF HistInv, NoneAhead, HookProtocol

(* A step inside a file that records nothing and keeps what AtFile says.   *)
LEMMA HistSameFile ==
    ASSUME HistInv, SameFile, log' = log, M.fi \in DOMAIN M.list,
           M'.stage \in FileStages, M'.stage # "before_all" \/ M'.ti = 1, AtFile'
    PROVE  HistInv'
<1>1. HookProtocol' /\ \A f \in DOMAIN M.list : f < M.fi => Settled(f)'
  BY SameLog DEF HistInv, SameFile
<1>2. NoneAhead'
  BY DEF NoneAhead, HistInv, SameFile
<1> QED
  BY <1>1, <1>2, StageNames DEF HistInv, SameFile

LEMMA HistStays == TypeInv /\ TypeInv' /\ HistInv /\ Stays => HistInv'
<1> SUFFICES ASSUME TypeInv, TypeInv', HistInv, Stays PROVE HistInv'
  OBVIOUS
<1>1. HookProtocol' /\ \A f \in DOMAIN M.list : f < M.fi => Settled(f)'
  BY SameLog DEF HistInv, Stays, SameFile
<1>2. NoneAhead'
  BY DEF NoneAhead, HistInv, Stays, SameFile
<1>3. AtFile => AtFile'
  <2>1. Src(M') = Src(M) /\ Src(M)' = Src(M)
    BY DEF Src, Stays, SameFile
  <2>2. PastCalls => PastCalls'
    BY DEF PastCalls, Past, Stays, SameFile
  <2>3. SetUp => SetUp'
    BY <2>1 DEF SetUp, IsCall, Hooks, Stays, SameFile
  <2>4. TornDown => TornDown'
    BY <2>1 DEF TornDown, IsCall, Hooks, Stays, SameFile
  <2>5. Progress => Progress'
    BY <2>1 DEF Progress, Clean, Ran, IsCall, Stays, SameFile
  <2>6. Closing => Closing'
    BY <2>1 DEF Closing, Closed, IsCall, Hooks, Stays, SameFile
  <2> QED
    BY <2>2, <2>3, <2>4, <2>5, <2>6 DEF AtFile
<1> QED
  BY <1>1, <1>2, <1>3 DEF HistInv, Stays, SameFile

LEMMA HistBegins == TypeInv /\ TypeInv' /\ HistInv /\ Begins => HistInv'
<1> SUFFICES ASSUME TypeInv, TypeInv', HistInv, Begins PROVE HistInv'
  OBVIOUS
<1>1. log' = << >> /\ DOMAIN log' = {}
  BY DEF HistInv, Begins
<1>2. M'.stage = "file" /\ M'.fi = 1 /\ M'.ti = 1
  BY DEF Begins
<1>3. HookProtocol' /\ NoneAhead'
  BY <1>1 DEF HookProtocol, NoneAhead
<1>4. \A f \in DOMAIN M'.list : ~(f < M'.fi)
  <2>1. M'.list \in Seq(Source)
    <3>1. M' \in Memory
      BY DEF TypeInv, TypeOK, M, Proc
    <3> QED
      BY <3>1 DEF Memory
  <2> QED
    BY <1>2, <2>1
<1> QED
  BY <1>1, <1>2, <1>3, <1>4, StageNames DEF HistInv

LEMMA HistEnters == TypeInv /\ TypeInv' /\ HistInv /\ Enters => HistInv'
<1> SUFFICES ASSUME TypeInv, TypeInv', HistInv, Enters PROVE HistInv'
  OBVIOUS
<1>1. SameFile /\ log' = log /\ M.fi \in DOMAIN M.list /\ M'.stage = "before_all"
  BY DEF Enters
<1>2. M'.ti = 1 /\ M'.ti = M.ti
  BY StageNames DEF HistInv, Enters
<1>3. \A i \in DOMAIN log : log[i].fi # M.fi
  BY StageNames DEF HistInv, NoneAhead, Enters
<1>4. PastCalls' /\ SetUp' /\ TornDown' /\ Closing'
  BY <1>1, <1>3 DEF PastCalls, SetUp, TornDown, Closing, IsCall, SameFile
<1>5. Progress'
  <2>1. Src(M)' = Src(M) /\ Src(M) \in Source
    BY <1>1, LogTypes DEF Src, SameFile
  <2>2. \A t \in DOMAIN Src(M).tests : ~(t < 1)
    BY <2>1 DEF Source
  <2> QED
    BY <1>1, <1>2, <2>1, <2>2 DEF Progress
<1> QED
  BY <1>1, <1>2, <1>4, <1>5, HistSameFile, StageNames DEF AtFile

(* A hook that the file does not define is passed over                     *)
(* (lib/runner.lua:146-207).                                               *)
LEMMA HistSkips == TypeInv /\ TypeInv' /\ HistInv /\ Skips => HistInv'
<1> SUFFICES ASSUME TypeInv, TypeInv', HistInv, Skips PROVE HistInv'
  OBVIOUS
<1>1. /\ SameFile /\ log' = log /\ M'.list = M.list /\ M'.fi = M.fi
      /\ M.stage \in HookNames \ Hooks /\ M.fi \in DOMAIN M.list
      /\ M'.stage = OnSuccess[M.stage]
      /\ M'.ti = IF M.stage = "after_each" THEN M.ti + 1 ELSE M.ti
  BY DEF Skips, SameFile
<1>2. Src(M)' = Src(M) /\ Hooks' = Hooks
  BY <1>1 DEF Src, Hooks
<1>3. /\ M.stage = "before_all"  => M'.stage = "before_each" /\ M'.ti = M.ti
      /\ M.stage = "before_each" => M'.stage = "test" /\ M'.ti = M.ti
      /\ M.stage = "after_each"  => M'.stage = "before_each" /\ M'.ti = M.ti + 1
      /\ M.stage = "after_all"   => M'.stage = "tally" /\ M'.ti = M.ti
      /\ M.stage \in {"before_all", "before_each", "after_each", "after_all"}
  BY <1>1, StageNames DEF OnSuccess
<1>4. PastCalls /\ SetUp /\ TornDown /\ Progress /\ Closing
  BY <1>1, StageNames DEF HistInv, AtFile
<1>5. M.ti \in Nat /\ \A i \in DOMAIN log : log[i].ti \in Nat /\ log[i].stage \in CallStages
  BY LogTypes
<1>6. PastCalls'
  <2> SUFFICES ASSUME NEW i \in DOMAIN log, log[i].fi = M.fi PROVE Past(log[i])'
    BY <1>1 DEF PastCalls
  <2>1. Past(log[i])
    BY <1>4 DEF PastCalls
  <2>2. CASE M.stage = "before_each"
    BY <1>1, <1>3, <1>5, <2>1, <2>2 DEF Past, Behind
  <2>3. CASE M.stage = "after_each"
    BY <1>1, <1>3, <1>5, <2>1, <2>3 DEF Past, Behind
  <2>4. CASE M.stage = "after_all"
    BY <1>1, <1>3, <1>5, <2>1, <2>4 DEF Past, Behind
  <2> QED
    BY <1>3, <2>1, <2>2, <2>3, <2>4 DEF Past
<1>7. SetUp'
  <2>1. "before_all" \in Hooks => \E i \in DOMAIN log : IsCall(i, M.fi, "before_all")
    BY <1>1, <1>4 DEF SetUp
  <2>2. M'.stage = "test" => "before_each" \notin Hooks
    BY <1>1, <1>3
  <2> QED
    BY <1>1, <1>2, <2>1, <2>2 DEF SetUp, IsCall
<1>8. TornDown'
  <2>1. CASE M.stage = "after_each"
    BY <1>1, <1>2, <2>1 DEF TornDown
  <2>2. CASE M.stage # "after_each"
    BY <1>1, <1>2, <1>4, <2>2 DEF TornDown, IsCall
  <2> QED
    BY <2>1, <2>2
<1>9. Progress'
  <2>1. Clean(M.fi)' = Clean(M.fi) /\ \A t : Ran(M.fi, t)' = Ran(M.fi, t)
    BY <1>1 DEF Clean, Ran, IsCall
  <2>2. ASSUME Clean(M.fi), NEW t \in DOMAIN Src(M).tests,
               \/ t < M'.ti
               \/ t = M'.ti /\ M'.stage = "after_each"
               \/ M'.stage \in {"after_all", "tally"}
        PROVE Ran(M.fi, t)
    <3>1. t \in Nat
      BY <1>1, <2>2, LogTypes
    <3>2. \/ t < M.ti
          \/ t = M.ti /\ M.stage = "after_each"
          \/ M.stage \in {"after_all", "tally"}
      BY <1>3, <1>5, <2>2, <3>1
    <3> QED
      BY <1>4, <2>2, <3>2 DEF Progress
  <2> QED
    BY <1>1, <1>2, <2>1, <2>2 DEF Progress
<1>10. Closing'
  BY <1>1, <1>2, <1>3 DEF Closing
<1>11. M'.stage \in FileStages /\ M'.stage # "before_all"
  BY <1>3, StageNames
<1> QED
  BY <1>1, <1>6, <1>7, <1>8, <1>9, <1>10, <1>11, HistSameFile DEF AtFile

(* The loop over the tests ends (lib/runner.lua:161-197).                  *)
LEMMA HistLeaves == TypeInv /\ TypeInv' /\ HistInv /\ Leaves => HistInv'
<1> SUFFICES ASSUME TypeInv, TypeInv', HistInv, Leaves PROVE HistInv'
  OBVIOUS
<1>1. /\ SameFile /\ log' = log /\ M'.list = M.list /\ M'.fi = M.fi
      /\ M.stage = "before_each" /\ M.ti > Len(Src(M).tests)
      /\ M.fi \in DOMAIN M.list /\ M'.stage = "after_all" /\ M'.ti = M.ti
  BY DEF Leaves, SameFile, LoopEnds
<1>2. Src(M)' = Src(M) /\ Hooks' = Hooks
  BY <1>1 DEF Src, Hooks
<1>3. PastCalls /\ SetUp /\ TornDown /\ Progress /\ Closing
  BY <1>1, StageNames DEF HistInv, AtFile
<1>4. PastCalls'
  BY <1>1, <1>3 DEF PastCalls, Past, Behind
<1>5. SetUp' /\ TornDown' /\ Closing'
  BY <1>1, <1>2, <1>3 DEF SetUp, TornDown, Closing, IsCall
<1>6. Progress'
  <2>1. Clean(M.fi)' = Clean(M.fi) /\ \A t : Ran(M.fi, t)' = Ran(M.fi, t)
    BY <1>1 DEF Clean, Ran, IsCall
  <2>2. ASSUME NEW t \in DOMAIN Src(M).tests PROVE t < M.ti
    <3>1. Src(M).tests \in Seq(TestName) /\ M.ti \in Nat
      BY <1>1, LogTypes
    <3> QED
      BY <1>1, <2>2, <3>1
  <2> QED
    BY <1>1, <1>2, <1>3, <2>1, <2>2 DEF Progress
<1>7. M'.stage \in FileStages /\ M'.stage # "before_all"
  BY <1>1, StageNames
<1> QED
  BY <1>1, <1>4, <1>5, <1>6, <1>7, HistSameFile DEF AtFile

(* A file is done with (lib/runner.lua:310-320).                           *)
LEMMA HistTallies == TypeInv /\ TypeInv' /\ HistInv /\ Tallies => HistInv'
<1> SUFFICES ASSUME TypeInv, TypeInv', HistInv, Tallies PROVE HistInv'
  OBVIOUS
<1>1. /\ M.stage = "tally" /\ M'.stage = "file" /\ M'.list = M.list
      /\ M'.fi = M.fi + 1 /\ M'.ti = 1 /\ log' = log
  BY DEF Tallies
<1>2. M.fi \in DOMAIN M.list /\ Progress /\ Closing
  BY <1>1, LogTypes, StageNames DEF HistInv, AtFile
<1>3. Settled(M.fi)
  BY <1>1, <1>2 DEF Settled, Progress, Closing, Src, Hooks
<1>4. M.fi \in Nat /\ DOMAIN M.list = 1 .. Len(M.list)
  BY LogTypes
<1>5. \A f \in DOMAIN M.list : f < M.fi + 1 => Settled(f)
  BY <1>3, <1>4 DEF HistInv
<1>6. HookProtocol' /\ \A f \in DOMAIN M'.list : f < M'.fi => Settled(f)'
  BY <1>1, <1>5, SameLog DEF HistInv
<1>7. NoneAhead'
  <2>1. \A i \in DOMAIN log : log[i].fi \in Nat /\ log[i].fi <= M.fi
    BY LogTypes DEF HistInv, NoneAhead
  <2> QED
    BY <1>1, <1>4, <2>1 DEF NoneAhead
<1> QED
  BY <1>1, <1>6, <1>7, StageNames DEF HistInv

(* No file is left (lib/runner.lua:301, 322-330).                          *)
LEMMA HistReturns == TypeInv /\ TypeInv' /\ HistInv /\ Returns => HistInv'
<1> SUFFICES ASSUME TypeInv, TypeInv', HistInv, Returns PROVE HistInv'
  OBVIOUS
<1>1. /\ M.stage = "file" /\ M.fi > Len(M.list) /\ M'.stage = "returned"
      /\ M'.list = M.list /\ M'.fi = M.fi /\ M'.ti = M.ti /\ log' = log
  BY DEF Returns, SameFile
<1>2. HookProtocol' /\ \A f \in DOMAIN M.list : f < M.fi => Settled(f)'
  BY <1>1, SameLog DEF HistInv
<1>3. NoneAhead'
  BY <1>1, StageNames DEF HistInv, NoneAhead
<1> QED
  BY <1>1, <1>2, <1>3, StageNames DEF HistInv

(* The log after a call: the new entry comes last, the others stay.        *)
LEMMA Recorded ==
    ASSUME TypeInv, NEW e \in Entry, log' = Append(log, e)
    PROVE  /\ DOMAIN log' = 1 .. Len(log) + 1 /\ Len(log') = Len(log) + 1
           /\ \A i \in DOMAIN log : i \in DOMAIN log' /\ log'[i] = log[i]
           /\ \A i \in DOMAIN log' : i \in DOMAIN log \/ i = Len(log) + 1
           /\ Len(log) + 1 \in DOMAIN log' /\ log'[Len(log) + 1] = e
<1>1. log \in Seq(Entry)
  BY LogTypes
<1>2. /\ Len(log') = Len(log) + 1 /\ DOMAIN log' = 1 .. Len(log')
      /\ \A i \in 1 .. Len(log) : log'[i] = log[i]
      /\ log'[Len(log) + 1] = e
  BY <1>1, AppendProperties, LenProperties
<1> QED
  BY <1>1, <1>2

(* What a call must find in the log, when it is recorded last.             *)
LEMMA HookProtocolCalls ==
    ASSUME TypeInv, HistInv, NEW ok \in BOOLEAN, Calls(ok)
    PROVE  HookProtocol'
<1>1. /\ M'.list = M.list /\ Due(M) /\ M.fi \in DOMAIN M.list
  BY DEF Calls, SameFile
<1>2. PICK e \in Entry : /\ log' = Append(log, e) /\ e.fi = M.fi
                         /\ e.stage = M.stage /\ e.ti = M.ti /\ e.ok = ok
  BY DEF Calls
<1> DEFINE k == Len(log) + 1
<1>3. /\ DOMAIN log = 1 .. Len(log) /\ Len(log) \in Nat
      /\ \A i \in DOMAIN log : i \in DOMAIN log' /\ log'[i] = log[i]
      /\ \A i \in DOMAIN log' : i \in DOMAIN log \/ i = k
      /\ k \in DOMAIN log' /\ log'[k] = e
  BY <1>2, Recorded, LogTypes
<1>4. M.stage \in CallStages /\ M.stage # "tally" /\ M.stage \in FileStages
  BY <1>1, StageNames DEF Due
<1>5. PastCalls /\ SetUp /\ TornDown
  BY <1>4 DEF HistInv, AtFile
<1> SUFFICES ASSUME NEW j \in DOMAIN log' PROVE InOrder(j)'
  BY DEF HookProtocol
<1>6. CASE j \in DOMAIN log
  <2>1. \A i \in 1 .. j : i \in DOMAIN log /\ log'[i] = log[i]
    BY <1>3, <1>6
  <2>2. InOrder(j)
    BY <1>6 DEF HistInv, HookProtocol
  <2>3. \A i \in 1 .. j - 1 : i \in 1 .. j /\ i + 1 .. j - 1 \subseteq 1 .. j
    BY <1>3, <1>6
  <2>4. log'[j] = log[j] /\ M'.list[log'[j].fi].hooks = M.list[log[j].fi].hooks
    BY <1>1, <1>3, <1>6
  <2> QED
    BY <2>1, <2>2, <2>3, <2>4 DEF InOrder, IsCall
<1>7. CASE j = k
  <2>1. /\ log'[j] = e /\ 1 .. j - 1 = DOMAIN log
        /\ \A i \in DOMAIN log : log'[i] = log[i]
    BY <1>3, <1>7
  <2>2. M'.list[e.fi].hooks = Hooks
    BY <1>1, <1>2 DEF Hooks, Src
  <2>3. ASSUME NEW i \in DOMAIN log, log[i].fi = M.fi
        PROVE  /\ M.stage # "before_all"
               /\ log[i].stage # "after_all"
               /\ log[i].stage = "before_all" => log[i].ok
               /\ log[i].stage \in {"before_each", "after_each"} /\ ~log[i].ok
                      => M.stage = "after_all"
               /\ M.stage = log[i].stage => log[i].ti < M.ti
    <3>1. Past(log[i])
      BY <1>5, <2>3 DEF PastCalls
    <3>2. log[i].ti \in Nat /\ M.ti \in Nat
      BY LogTypes
    <3>3. ASSUME M.stage = log[i].stage PROVE log[i].ti # M.ti
      <4>1. M.stage \in {"before_each", "test", "after_each"}
        BY <1>4, <3>1, <3>3, StageNames DEF Past
      <4> QED
        BY <3>1, <3>3, <4>1 DEF Past, Behind
    <3> QED
      BY <1>4, <3>1, <3>2, <3>3 DEF Past
  <2>4. "before_all" \in Hooks =>
            M.stage = "before_all" \/ \E i \in DOMAIN log : IsCall(i, M.fi, "before_all")
    BY <1>5 DEF SetUp
  <2>5. M.stage = "test" /\ "before_each" \in Hooks =>
            \E i \in DOMAIN log : /\ IsCall(i, M.fi, "before_each")
                                  /\ log[i].ti = M.ti /\ log[i].ok
    BY <1>5 DEF SetUp
  <2>6. ASSUME NEW i \in DOMAIN log, IsCall(i, M.fi, "test"), "after_each" \in Hooks,
               M.stage # "after_each"
        PROVE  \E h \in i + 1 .. Len(log) : /\ IsCall(h, M.fi, "after_each")
                                            /\ log[h].ti = log[i].ti
    BY <1>5, <2>6 DEF TornDown
  <2>7. \A i \in DOMAIN log : i + 1 .. Len(log) \subseteq DOMAIN log /\ j - 1 = Len(log)
    BY <1>3, <1>7
  <2> HIDE DEF k
  <2>8. \A i \in 1 .. j - 1 : log'[i].fi = e.fi =>
            /\ e.stage # "before_all"
            /\ log'[i].stage # "after_all"
            /\ log'[i].stage = "before_all" => log'[i].ok
            /\ log'[i].stage \in {"before_each", "after_each"} /\ ~log'[i].ok
                   => e.stage = "after_all"
            /\ e.stage = log'[i].stage => log'[i].ti < e.ti
    BY <1>2, <2>1, <2>3
  <2>9. "before_all" \in Hooks =>
            e.stage = "before_all" \/ \E i \in 1 .. j - 1 : log'[i].fi = e.fi /\ log'[i].stage = "before_all"
    BY <1>2, <2>1, <2>4 DEF IsCall
  <2>10. e.stage = "test" /\ "before_each" \in Hooks =>
            \E i \in 1 .. j - 1 : /\ log'[i].fi = e.fi /\ log'[i].stage = "before_each"
                                  /\ log'[i].ti = e.ti /\ log'[i].ok
    BY <1>2, <2>1, <2>5 DEF IsCall
  <2>11. ASSUME NEW i \in 1 .. j - 1, log'[i].fi = e.fi, log'[i].stage = "test",
                "after_each" \in Hooks, e.stage # "after_each"
         PROVE \E h \in i + 1 .. j - 1 : /\ log'[h].fi = e.fi /\ log'[h].stage = "after_each"
                                         /\ log'[h].ti = log'[i].ti
    <3>1. PICK h \in i + 1 .. Len(log) : /\ IsCall(h, M.fi, "after_each")
                                         /\ log[h].ti = log[i].ti
      BY <1>2, <2>1, <2>6, <2>11 DEF IsCall
    <3> QED
      BY <1>2, <2>1, <2>7, <2>11, <3>1 DEF IsCall
  <2> QED
    BY <1>1, <2>1, <2>2, <2>8, <2>9, <2>10, <2>11 DEF InOrder, IsCall
<1> QED
  BY <1>3, <1>6, <1>7

(* A call is recorded and run_file() goes on (lib/runner.lua:138-207).     *)
LEMMA HistCalls ==
    ASSUME TypeInv, TypeInv', HistInv, NEW ok \in BOOLEAN, Calls(ok)
    PROVE  HistInv'
<1>1. /\ M'.list = M.list /\ M'.fi = M.fi /\ Due(M) /\ M.fi \in DOMAIN M.list
      /\ M'.stage = IF ok THEN OnSuccess[M.stage] ELSE OnFailure[M.stage]
      /\ M'.ti = IF ok /\ M.stage = "after_each" THEN M.ti + 1 ELSE M.ti
  BY DEF Calls, SameFile
<1>2. PICK e \in Entry : /\ log' = Append(log, e) /\ e.fi = M.fi
                         /\ e.stage = M.stage /\ e.ti = M.ti /\ e.ok = ok
  BY DEF Calls
<1> DEFINE k == Len(log) + 1
<1>3. /\ DOMAIN log = 1 .. Len(log) /\ Len(log) \in Nat
      /\ DOMAIN log' = 1 .. k /\ Len(log') = k
      /\ \A i \in DOMAIN log : i \in DOMAIN log' /\ log'[i] = log[i]
      /\ \A i \in DOMAIN log' : i \in DOMAIN log \/ i = k
      /\ k \in DOMAIN log' /\ log'[k] = e
  BY <1>2, Recorded, LogTypes
<1>4. /\ M.stage \in CallStages /\ M.stage \in FileStages /\ M.stage # "tally"
      /\ M.stage = "test" \/ M.stage \in Hooks
  BY <1>1, StageNames DEF Due, Hooks
<1>5. PastCalls /\ SetUp /\ TornDown /\ Progress
  BY <1>4 DEF HistInv, AtFile
<1>6. Src(M)' = Src(M) /\ Hooks' = Hooks
  BY <1>1 DEF Src, Hooks
<1>7. /\ M.stage = "before_all"  => M'.stage = (IF ok THEN "before_each" ELSE "tally")
      /\ M.stage = "before_each" => M'.stage = (IF ok THEN "test" ELSE "after_all")
      /\ M.stage = "test"        => M'.stage = "after_each"
      /\ M.stage = "after_each"  => M'.stage = (IF ok THEN "before_each" ELSE "after_all")
      /\ M.stage = "after_all"   => M'.stage = "tally"
      /\ M.stage \in {"before_all", "before_each", "test", "after_each", "after_all"}
  BY <1>1, <1>4, StageNames DEF OnSuccess, OnFailure
<1>8. /\ M.ti \in Nat /\ M'.ti \in Nat
      /\ \A i \in DOMAIN log : log[i].ti \in Nat /\ log[i].stage \in CallStages
  BY <1>1, LogTypes
<1> HIDE DEF k
<1>9. PastCalls'
  <2>1. ASSUME NEW c \in Entry, Past(c) PROVE Past(c)'
    <3>1. c.ti \in Nat
      BY DEF Entry
    <3>2. CASE M.stage \in {"before_each", "test"}
      BY <1>1, <1>7, <2>1, <3>1, <3>2 DEF Past, Behind
    <3>3. CASE M.stage = "after_each"
      BY <1>1, <1>7, <1>8, <2>1, <3>1, <3>3 DEF Past, Behind
    <3>4. CASE M.stage = "after_all"
      BY <1>1, <1>7, <2>1, <3>1, <3>4 DEF Past, Behind
    <3> QED
      BY <1>7, <2>1, <3>2, <3>3, <3>4 DEF Past
  <2>2. Past(e)'
    BY <1>1, <1>2, <1>7, <1>8 DEF Past, Behind
  <2>3. ASSUME NEW i \in DOMAIN log, log[i].fi = M.fi PROVE Past(log[i])'
    <3>1. Past(log[i]) /\ log[i] \in Entry /\ log'[i] = log[i]
      BY <1>3, <1>5, <2>3, LogTypes DEF PastCalls
    <3> QED
      BY <2>1, <3>1
  <2> QED
    BY <1>1, <1>3, <2>2, <2>3 DEF PastCalls
<1>10. SetUp'
  <2>1. ASSUME M'.stage # "before_all", "before_all" \in Hooks
        PROVE \E i \in DOMAIN log' : log'[i].fi = M.fi /\ log'[i].stage = "before_all"
    <3>1. CASE M.stage = "before_all"
      <4>1. k \in DOMAIN log' /\ log'[k].fi = M.fi /\ log'[k].stage = "before_all"
        BY <1>2, <1>3, <3>1
      <4> QED
        BY <4>1
    <3>2. CASE M.stage # "before_all"
      BY <1>3, <1>5, <2>1, <3>2 DEF SetUp, IsCall
    <3> QED
      BY <3>1, <3>2
  <2>2. ASSUME M'.stage = "test"
        PROVE  /\ log'[k].fi = M.fi /\ log'[k].stage = "before_each"
               /\ log'[k].ti = M'.ti /\ log'[k].ok
    BY <1>1, <1>2, <1>3, <1>7, <2>2
  <2> QED
    BY <1>1, <1>3, <1>6, <2>1, <2>2 DEF SetUp, IsCall
<1>11. TornDown'
  <2> SUFFICES ASSUME NEW i \in DOMAIN log', log'[i].fi = M.fi, log'[i].stage = "test",
                      "after_each" \in Hooks,
                      ~(M'.stage = "after_each" /\ log'[i].ti = M'.ti)
               PROVE  \E h \in i + 1 .. k : /\ log'[h].fi = M.fi /\ log'[h].stage = "after_each"
                                            /\ log'[h].ti = log'[i].ti
    BY <1>1, <1>3, <1>6 DEF TornDown, IsCall
  <2>1. CASE i = k
    BY <1>1, <1>2, <1>3, <1>7, <2>1
  <2>2. CASE i \in DOMAIN log /\ M.stage = "after_each" /\ log[i].ti = M.ti
    <3>1. k \in i + 1 .. k
      BY <1>3, <2>2 DEF k
    <3> QED
      BY <1>2, <1>3, <2>2, <3>1
  <2>3. CASE i \in DOMAIN log /\ ~(M.stage = "after_each" /\ log[i].ti = M.ti)
    <3>1. PICK h \in i + 1 .. Len(log) : /\ IsCall(h, M.fi, "after_each")
                                         /\ log[h].ti = log[i].ti
      BY <1>3, <1>5, <2>3 DEF TornDown, IsCall
    <3>2. h \in DOMAIN log /\ h \in i + 1 .. k
      BY <1>3, <2>3, <3>1 DEF k
    <3> QED
      BY <1>3, <2>3, <3>1, <3>2 DEF IsCall
  <2> QED
    BY <1>3, <2>1, <2>2, <2>3
<1>12. Progress'
  <2>1. Clean(M.fi)' => Clean(M.fi)
    BY <1>1, <1>3 DEF Clean
  <2>2. ASSUME Clean(M.fi)' PROVE M.stage = "test" \/ M.stage = "after_all" \/ ok
    BY <1>1, <1>2, <1>3, <1>7, <2>2 DEF Clean, Setups
  <2>3. \A t : Ran(M.fi, t) => Ran(M.fi, t)'
    BY <1>1, <1>3 DEF Ran, IsCall
  <2>4. M.stage = "test" => \A t : t = M.ti => Ran(M.fi, t)'
    BY <1>1, <1>2, <1>3 DEF Ran, IsCall
  <2>5. ASSUME Clean(M.fi)', NEW t \in DOMAIN Src(M).tests,
               \/ t < M'.ti
               \/ t = M'.ti /\ M'.stage = "after_each"
               \/ M'.stage \in {"after_all", "tally"}
        PROVE Ran(M.fi, t)'
    <3>1. t \in Nat
      BY <1>1, <2>5, LogTypes
    <3>2. \/ t < M.ti
          \/ t = M.ti /\ M.stage \in {"test", "after_each"}
          \/ M.stage \in {"after_all", "tally"}
      BY <1>1, <1>7, <1>8, <2>2, <2>5, <3>1
    <3> QED
      BY <1>5, <2>1, <2>3, <2>4, <2>5, <3>2 DEF Progress
  <2> QED
    BY <1>1, <1>6, <2>5 DEF Progress
<1>13. Closing'
  <2>1. ASSUME M'.stage = "tally"
        PROVE  /\ log'[k].fi = M.fi
               /\ \/ log'[k].stage = "after_all"
                  \/ log'[k].stage = "before_all" /\ ~log'[k].ok
    BY <1>2, <1>3, <1>7, <2>1
  <2> QED
    BY <1>1, <1>3, <2>1 DEF Closing, Closed, IsCall
<1>14. NoneAhead'
  BY <1>1, <1>2, <1>3, <1>7, LogTypes, StageNames DEF NoneAhead, HistInv
<1>15. ASSUME NEW f \in DOMAIN M.list, f < M.fi PROVE Settled(f)'
  <2>1. Settled(f) /\ f # M.fi
    BY <1>15, LogTypes DEF HistInv
  <2>2. Clean(f)' => Clean(f)
    BY <1>3 DEF Clean
  <2>3. (\A t : Ran(f, t) => Ran(f, t)') /\ (Closed(f) => Closed(f)')
    BY <1>3 DEF Ran, Closed, IsCall
  <2> QED
    BY <1>1, <2>1, <2>2, <2>3 DEF Settled
<1>16. M'.stage \in FileStages /\ M'.stage # "before_all"
  BY <1>7, StageNames
<1>17. HookProtocol'
  BY HookProtocolCalls
<1> QED
  BY <1>1, <1>9, <1>10, <1>11, <1>12, <1>13, <1>14, <1>15, <1>16, <1>17, StageNames
     DEF HistInv, AtFile

LEMMA HistNext == TypeInv /\ TypeInv' /\ HistInv /\ [Next]_vars => HistInv'
BY MainSteps, HistStays, HistBegins, HistEnters, HistSkips, HistLeaves, HistCalls,
   HistTallies, HistReturns DEF MainStep

-----------------------------------------------------------------------------
(* The theorems.                                                           *)

(* The hooks and the tests of a file are called in the order README.md     *)
(* promises, whichever of them fail (lib/runner.lua:138-212).              *)
THEOREM HookProtocolHolds == Spec => []HookProtocol
<1>1. HistInv => HookProtocol
  BY DEF HistInv
<1> QED
  BY <1>1, TypeInit, TypeNext, HistInit, HistNext, PTL DEF Spec

(* When run() returns, every file is settled.                              *)
LEMMA AllSettled == TypeInv /\ HistInv => NoTestForgotten
<1> SUFFICES ASSUME TypeInv, HistInv, M.stage = "returned", NEW f \in DOMAIN M.list
             PROVE  LET called(stage) == {i \in DOMAIN log : IsCall(i, f, stage)}
                        failed(stage) == called(stage) \cap Failed
                    IN  /\ failed("before_all") \cup failed("before_each")
                               \cup failed("after_each") = {}
                               => \A t \in DOMAIN M.list[f].tests :
                                      \E i \in called("test") : log[i].ti = t
                        /\ "after_all" \in M.list[f].hooks =>
                               called("after_all") # {} \/ failed("before_all") # {}
  BY DEF NoTestForgotten
<1> DEFINE called(stage) == {i \in DOMAIN log : IsCall(i, f, stage)}
           failed(stage) == called(stage) \cap Failed
<1>1. Settled(f)
  <2>1. M.fi > Len(M.list) /\ DOMAIN M.list = 1 .. Len(M.list) /\ M.fi \in Nat
    BY LogTypes DEF HistInv
  <2>2. f < M.fi
    BY <2>1
  <2> QED
    BY <2>2 DEF HistInv
<1>2. ASSUME failed("before_all") \cup failed("before_each") \cup failed("after_each") = {}
      PROVE  Clean(f)
  <2> SUFFICES ASSUME NEW i \in DOMAIN log, log[i].fi = f, log[i].stage \in Setups, ~log[i].ok
               PROVE FALSE
    BY DEF Clean
  <2>1. i \in failed(log[i].stage)
    BY DEF Failed, IsCall
  <2> HIDE DEF called, failed
  <2> QED
    BY <1>2, <2>1 DEF Setups
<1>3. ASSUME NEW t, Ran(f, t) PROVE \E i \in called("test") : log[i].ti = t
  BY <1>3 DEF Ran
<1>4. Closed(f) => called("after_all") # {} \/ failed("before_all") # {}
  BY DEF Closed, Failed, IsCall
<1> QED
  BY <1>1, <1>2, <1>3, <1>4 DEF Settled

(* A test is left out only after a failed hook of its file, and after_all  *)
(* only after a failed before_all (lib/runner.lua:148-207).                *)
THEOREM NoTestForgottenHolds == Spec => []NoTestForgotten
BY AllSettled, TypeInit, TypeNext, HistInit, HistNext, PTL DEF Spec

-----------------------------------------------------------------------------
(* The verdicts.                                                           *)

AllTests == UNION {{<<f, t>> : t \in DOMAIN M.list[f].tests} : f \in DOMAIN M.list}
PassedTest(x) == \E i \in Passed : log[i].fi = x[1] /\ log[i].ti = x[2]
Judged(x) == Called(x) \/ HookFailed(x[1])

(* A test is a file of the list and one of its tests.                      *)
LEMMA TestOf ==
    ASSUME TypeInv, NEW x \in AllTests
    PROVE  /\ x = <<x[1], x[2]>> /\ x[1] \in DOMAIN M.list
           /\ x[2] \in DOMAIN M.list[x[1]].tests
           /\ x[1] \in Nat /\ x[2] \in Nat
<1>1. PICK f \in DOMAIN M.list : \E t \in DOMAIN M.list[f].tests : x = <<f, t>>
  BY DEF AllTests
<1>2. PICK t \in DOMAIN M.list[f].tests : x = <<f, t>>
  BY <1>1
<1>3. M.list[f] \in Source /\ f \in Nat
  BY LogTypes
<1>4. M.list[f].tests \in Seq(TestName)
  BY <1>3 DEF Source
<1>5. t \in Nat
  BY <1>4
<1> QED
  BY <1>2, <1>3, <1>5

(* The verdict of one test, and the verdicts as a function of it.          *)
VerdictAt(x) ==
    IF Called(x) THEN IF PassedTest(x) THEN "passed" ELSE "failed"
    ELSE IF HookFailed(x[1]) THEN "skipped" ELSE "pending"

LEMMA VerdictAtOf ==
    /\ Verdict = [x \in AllTests |-> VerdictAt(x)]
    /\ Verdict' = [x \in AllTests' |-> VerdictAt(x)']
  BY DEF Verdict, AllTests, VerdictAt, PassedTest

(* The verdict of each test.                                               *)
LEMMA VerdictOf ==
    /\ DOMAIN Verdict = AllTests
    /\ \A x \in AllTests :
           /\ Verdict[x] = "pending" <=> ~Judged(x)
           /\ Verdict[x] = "skipped" <=> ~Called(x) /\ HookFailed(x[1])
           /\ Verdict[x] = "passed" <=> Called(x) /\ PassedTest(x)
           /\ Verdict[x] = "failed" <=> Called(x) /\ ~PassedTest(x)
  BY DEF Verdict, AllTests, Judged, PassedTest

(* In a file that is done with every test is judged.                       *)
LEMMA SettledJudged ==
    ASSUME NEW f \in DOMAIN M.list, Settled(f), NEW t \in DOMAIN M.list[f].tests
    PROVE  Judged(<<f, t>>)
<1>1. CASE Clean(f)
  BY <1>1 DEF Settled, Ran, Judged, Called
<1>2. CASE ~Clean(f)
  <2>1. PICK i \in DOMAIN log : log[i].fi = f /\ log[i].stage \in Setups /\ ~log[i].ok
    BY <1>2 DEF Clean
  <2>2. i \in Failed /\ log[i].stage # "test"
    BY <2>1 DEF Failed, Setups
  <2> QED
    BY <2>1, <2>2 DEF Judged, HookFailed
<1> QED
  BY <1>1, <1>2

(* The tests of the files behind are judged.                               *)
LEMMA BehindJudged ==
    ASSUME TypeInv, HistInv, NEW x \in AllTests, x[1] < M.fi
    PROVE  Judged(x)
<1>1. x = <<x[1], x[2]>> /\ x[1] \in DOMAIN M.list /\ x[2] \in DOMAIN M.list[x[1]].tests
  BY TestOf
<1>2. Settled(x[1])
  BY <1>1 DEF HistInv
<1> QED
  BY <1>1, <1>2, SettledJudged

(* The test that is called next is the first without a verdict.            *)
LEMMA NextJudged ==
    ASSUME TypeInv, HistInv, M.stage = "test"
    PROVE  LET x == <<M.fi, M.ti>>
           IN  /\ x \in AllTests /\ ~Judged(x)
               /\ \A y \in AllTests : Report!Before(y, x) => Judged(y)
<1> DEFINE x == <<M.fi, M.ti>>
<1>1. /\ M.fi \in DOMAIN M.list /\ M.ti \in DOMAIN M.list[M.fi].tests
      /\ PastCalls /\ Progress /\ M.ti \in Nat
  BY LogTypes, StageNames DEF HistInv, AtFile, Src
<1>2. x \in AllTests
  BY <1>1 DEF AllTests
<1>3. ~Called(x)
  BY <1>1 DEF Called, PastCalls, Past, Behind, IsCall
<1>4. ~HookFailed(M.fi)
  <2> SUFFICES ASSUME NEW i \in Failed, log[i].fi = M.fi, log[i].stage # "test"
               PROVE FALSE
    BY DEF HookFailed
  <2>1. i \in DOMAIN log /\ ~log[i].ok /\ log[i].stage \in CallStages
    BY LogTypes DEF Failed
  <2>2. Past(log[i])
    BY <1>1, <2>1 DEF PastCalls
  <2> QED
    BY <2>1, <2>2, StageNames DEF Past
<1>5. Clean(M.fi)
  BY <1>4 DEF Clean, HookFailed, Failed, Setups
<1>6. ASSUME NEW y \in AllTests, Report!Before(y, x) PROVE Judged(y)
  <2>1. /\ y = <<y[1], y[2]>> /\ y[1] \in DOMAIN M.list /\ y[2] \in DOMAIN M.list[y[1]].tests
    BY TestOf
  <2>2. CASE y[1] < M.fi
    BY <2>2, BehindJudged
  <2>3. CASE y[1] = M.fi /\ y[2] < M.ti
    <3>1. Ran(M.fi, y[2])
      BY <1>1, <1>5, <2>1, <2>3 DEF Progress, Src
    <3> QED
      BY <2>3, <3>1 DEF Ran, Judged, Called
  <2> QED
    BY <1>6, <2>2, <2>3 DEF Report!Before
<1> QED
  BY <1>2, <1>3, <1>4, <1>6 DEF Judged

-----------------------------------------------------------------------------
(* The steps that TestReport does not see.                                 *)

SameView ==
    /\ ShapeOf(M.list)' = ShapeOf(M.list)
    /\ Verdict' = Verdict
    /\ Cardinality(FailedHooks)' = Cardinality(FailedHooks)

(* What is seen of the run depends on the list and the log.                *)
LEMMA SameLogView ==
    ASSUME log' = log, M'.list = M.list
    PROVE  SameView
<1>1. ShapeOf(M.list)' = ShapeOf(M.list)
  BY DEF ShapeOf
<1>2. Failed' = Failed /\ Passed' = Passed
  BY DEF Failed, Passed
<1>3. FailedHooks' = FailedHooks
  BY <1>2 DEF FailedHooks
<1>4. Verdict' = Verdict
  BY <1>2 DEF Verdict, Called, HookFailed, IsCall
<1> QED
  BY <1>1, <1>3, <1>4 DEF SameView

(* A step inside the run.                                                  *)
LEMMA StepInside ==
    ASSUME SameView, Lives, M.stage \notin {"idle", "returned"},
           M'.stage \notin {"idle", "returned"}
    PROVE  UNCHANGED Report!vars
<1>1. Phase = "running" /\ Phase' = "running"
  BY DEF Phase, Lives, Live
<1>2. Figures' = Figures
  BY DEF Figures
<1> QED
  BY <1>1, <1>2 DEF SameView, Report!vars

(* A step of user code or between calls, or an assert that fails           *)
(* (lib/runner.lua:52, 67-68, 305-308).                                    *)
LEMMA ReportStays == Stays => [Report!Next]_(Report!vars)
<1> SUFFICES ASSUME Stays PROVE [Report!Next]_(Report!vars)
  OBVIOUS
<1>1. SameView
  BY SameLogView DEF Stays, SameFile
<1>2. Figures' = Figures
  BY DEF Figures, Stays, SameFigures
<1>3. CASE life'[Main] = life[Main]
  <2>1. Phase' = Phase
    BY <1>3 DEF Phase, Live, Stays
  <2> QED
    BY <1>1, <1>2, <2>1 DEF SameView, Report!vars
<1>4. CASE Dies
  <2>1. Phase = "running" /\ Phase' = "lost"
    BY <1>4 DEF Phase, Dies, Live, Stays
  <2>2. Report!Lose
    BY <1>1, <1>2, <2>1 DEF SameView, Report!Lose
  <2> QED
    BY <2>2 DEF Report!Next
<1> QED
  BY <1>3, <1>4 DEF Stays

(* The steps of run_file() that call nothing, and the loop of run().       *)
LEMMA ReportSilent ==
    Enters \/ Skips \/ Leaves \/ Tallies => [Report!Next]_(Report!vars)
<1> SUFFICES ASSUME Enters \/ Skips \/ Leaves \/ Tallies
             PROVE  UNCHANGED Report!vars
  OBVIOUS
<1>1. log' = log /\ M'.list = M.list /\ Lives
  BY DEF Enters, Skips, Leaves, Tallies, SameFile
<1>2. M.stage \notin {"idle", "returned"} /\ M'.stage \notin {"idle", "returned"}
  BY StageNames DEF Enters, Skips, Leaves, Tallies, OnSuccess, LoopEnds
<1> QED
  BY <1>1, <1>2, SameLogView, StepInside

(* The run begins (lib/runner.lua:281-302).                                *)
LEMMA ReportBegins ==
    TypeInv /\ TypeInv' /\ HistInv /\ Begins => [Report!Next]_(Report!vars)
<1> SUFFICES ASSUME TypeInv, TypeInv', HistInv, Begins PROVE Report!Next
  OBVIOUS
<1> DEFINE s == ShapeOf(M.list)'
<1>1. s \in {ShapeOf(l) : l \in Lists} \cup
             {ShapeOf(Selected(l, ns)) : l \in Lists, ns \in SUBSET TestName}
  BY DEF Begins, ShapeOf
<1>2. Phase = "idle" /\ Phase' = "running"
  BY DEF Begins, Phase, Lives, Live
<1>3. Figures' = Figures
  BY DEF Begins, Figures
<1>4. log = << >> /\ log' = << >>
  BY DEF Begins, HistInv
<1>5. Cardinality(FailedHooks)' = Cardinality(FailedHooks)
  BY <1>4 DEF FailedHooks, Failed
<1>6. AllTests' = Report!Tests(s)
  <2>1. M'.list \in Seq(Source)
    <3>1. M' \in Memory
      BY DEF TypeInv, TypeOK, M, Proc
    <3> QED
      BY <3>1 DEF Memory
  <2>2. DOMAIN s = DOMAIN M'.list
    BY DEF ShapeOf
  <2>3. ASSUME NEW f \in DOMAIN M'.list
        PROVE  s[f] = Len(M'.list[f].tests) /\ DOMAIN M'.list[f].tests = 1 .. s[f]
    <3>1. M'.list[f] \in Source
      BY <2>1, <2>3
    <3>2. M'.list[f].tests \in Seq(TestName)
      BY <3>1 DEF Source
    <3> QED
      BY <2>3, <3>2 DEF ShapeOf
  <2> HIDE DEF s
  <2> QED
    BY <2>2, <2>3 DEF AllTests, Report!Tests
<1>7. Verdict' = [x \in Report!Tests(s) |-> "pending"]
  <2>1. \A x : ~Called(x)' /\ \A f : ~HookFailed(f)'
    BY <1>4 DEF Called, HookFailed, Failed
  <2> QED
    BY <1>6, <2>1 DEF Verdict, AllTests
<1>8. Report!Begin(s)
  BY <1>2, <1>3, <1>5, <1>7 DEF Report!Begin
<1> QED
  BY <1>1, <1>8 DEF Report!Next

-----------------------------------------------------------------------------
(* The calls.                                                              *)

(* What a call adds to the log.                                            *)
LEMMA CallView ==
    ASSUME TypeInv, NEW ok \in BOOLEAN, Calls(ok)
    PROVE  /\ M.stage \in CallStages /\ M.fi \in DOMAIN M.list
           /\ M'.stage \notin {"idle", "returned"}
           /\ M'.list = M.list /\ ShapeOf(M.list)' = ShapeOf(M.list) /\ AllTests' = AllTests
           /\ Len(log) + 1 \notin DOMAIN log
           /\ Failed' = IF ok THEN Failed ELSE Failed \cup {Len(log) + 1}
           /\ Passed' = IF ok /\ M.stage = "test" THEN Passed \cup {Len(log) + 1} ELSE Passed
           /\ \A i \in DOMAIN log : i \in DOMAIN log' /\ log'[i] = log[i]
           /\ \A i \in DOMAIN log' : i \in DOMAIN log \/ i = Len(log) + 1
           /\ Len(log) + 1 \in DOMAIN log'
           /\ log'[Len(log) + 1].fi = M.fi /\ log'[Len(log) + 1].ti = M.ti
           /\ log'[Len(log) + 1].stage = M.stage /\ log'[Len(log) + 1].ok = ok
<1>1. PICK e \in Entry : /\ log' = Append(log, e) /\ e.fi = M.fi
                         /\ e.stage = M.stage /\ e.ti = M.ti /\ e.ok = ok
  BY DEF Calls
<1> DEFINE k == Len(log) + 1
<1>2. /\ DOMAIN log = 1 .. Len(log) /\ Len(log) \in Nat
      /\ \A i \in DOMAIN log : i \in DOMAIN log' /\ log'[i] = log[i]
      /\ \A i \in DOMAIN log' : i \in DOMAIN log \/ i = k
      /\ k \in DOMAIN log' /\ log'[k] = e
  BY <1>1, Recorded, LogTypes
<1>3. k \notin DOMAIN log
  BY <1>2
<1>4. M.stage \in CallStages /\ M.fi \in DOMAIN M.list /\ M'.list = M.list
  BY DEF Calls, Due, SameFile
<1>5. M'.stage \in FileStages
  BY <1>4, SettleStage DEF Calls
<1>6. ShapeOf(M.list)' = ShapeOf(M.list) /\ AllTests' = AllTests
  BY <1>4 DEF ShapeOf, AllTests
<1> HIDE DEF k
<1>7. Failed' = IF ok THEN Failed ELSE Failed \cup {k}
  BY <1>1, <1>2 DEF Failed
<1>8. Passed' = IF ok /\ M.stage = "test" THEN Passed \cup {k} ELSE Passed
  BY <1>1, <1>2 DEF Passed
<1> QED
  BY <1>1, <1>2, <1>3, <1>4, <1>5, <1>6, <1>7, <1>8, StageNames DEF k

(* A test passes or fails (lib/runner.lua:174-183).                        *)
LEMMA ReportTest ==
    ASSUME TypeInv, HistInv, NEW ok \in BOOLEAN, Calls(ok), M.stage = "test"
    PROVE  Report!Next
<1> DEFINE x == <<M.fi, M.ti>>
           v == IF ok THEN "passed" ELSE "failed"
           k == Len(log) + 1
<1>1. x \in AllTests /\ ~Judged(x) /\ \A y \in AllTests : Report!Before(y, x) => Judged(y)
  BY NextJudged
<1>2. /\ AllTests' = AllTests /\ ShapeOf(M.list)' = ShapeOf(M.list)
      /\ k \notin DOMAIN log
      /\ Failed' = IF ok THEN Failed ELSE Failed \cup {k}
      /\ Passed' = IF ok THEN Passed \cup {k} ELSE Passed
      /\ \A i \in DOMAIN log : i \in DOMAIN log' /\ log'[i] = log[i]
      /\ \A i \in DOMAIN log' : i \in DOMAIN log \/ i = k
      /\ k \in DOMAIN log'
      /\ log'[k].fi = M.fi /\ log'[k].ti = M.ti /\ log'[k].stage = "test"
  BY CallView
<1> HIDE DEF k
<1>3. Failed \subseteq DOMAIN log /\ Passed \subseteq DOMAIN log
  BY DEF Failed, Passed
<1>4. FailedHooks' = FailedHooks
  BY <1>2, <1>3 DEF FailedHooks
<1>5. ASSUME NEW y \in AllTests
      PROVE  /\ Called(y)' <=> Called(y) \/ y = x
             /\ HookFailed(y[1])' <=> HookFailed(y[1])
             /\ PassedTest(y)' <=> PassedTest(y) \/ (ok /\ y = x)
  <2>1. y = <<y[1], y[2]>>
    BY TestOf
  <2>2. Called(y)' <=> Called(y) \/ y = x
    BY <1>2, <2>1 DEF Called, IsCall
  <2>3. HookFailed(y[1])' <=> HookFailed(y[1])
    BY <1>2, <1>3 DEF HookFailed
  <2>4. PassedTest(y)' <=> PassedTest(y) \/ (ok /\ y = x)
    BY <1>2, <1>3, <2>1 DEF PassedTest
  <2> QED
    BY <2>2, <2>3, <2>4
<1>6. ~Called(x) /\ ~PassedTest(x)
  BY <1>1 DEF Judged, Called, PassedTest, Passed, IsCall
<1>7. Verdict' = [Verdict EXCEPT ![x] = v]
  <2>1. ASSUME NEW y \in AllTests
        PROVE  VerdictAt(y)' = IF y = x THEN v ELSE VerdictAt(y)
    <3>1. CASE y = x
      <4>1. Called(y)' /\ (PassedTest(y)' <=> ok)
        BY <1>5, <1>6, <3>1
      <4> QED
        BY <3>1, <4>1 DEF VerdictAt
    <3>2. CASE y # x
      BY <1>5, <3>2 DEF VerdictAt
    <3> QED
      BY <3>1, <3>2
  <2>2. Verdict' = [y \in AllTests |-> VerdictAt(y)']
    BY <1>2, VerdictAtOf
  <2> HIDE DEF x, v
  <2> QED
    BY <1>1, <2>1, <2>2, VerdictAtOf
<1>8. x \in {y \in DOMAIN Verdict : Verdict[y] = "pending"}
  BY <1>1, VerdictOf
<1>9. Phase = "running" /\ Phase' = "running" /\ Figures' = Figures
  BY CallView DEF Phase, Figures, Calls, Lives, Live
<1>10. \A y \in {y \in DOMAIN Verdict : Verdict[y] = "pending"} : ~Report!Before(y, x)
  BY <1>1, VerdictOf
<1>11. Report!Judge(x, v)
  BY <1>2, <1>4, <1>7, <1>8, <1>9, <1>10 DEF Report!Judge, Report!With
<1> QED
  BY <1>8, <1>11 DEF Report!Next, Report!With

(* A hook returns, or fails and takes with it the tests of its file that   *)
(* were not called (lib/runner.lua:146-158, 166-172, 186-196, 199-207).    *)
LEMMA ReportHook ==
    ASSUME TypeInv, HistInv, NEW ok \in BOOLEAN, Calls(ok), M.stage # "test"
    PROVE  [Report!Next]_(Report!vars)
<1> DEFINE k == Len(log) + 1
<1>1. /\ AllTests' = AllTests /\ ShapeOf(M.list)' = ShapeOf(M.list)
      /\ k \notin DOMAIN log
      /\ Failed' = IF ok THEN Failed ELSE Failed \cup {k}
      /\ Passed' = Passed
      /\ \A i \in DOMAIN log : i \in DOMAIN log' /\ log'[i] = log[i]
      /\ \A i \in DOMAIN log' : i \in DOMAIN log \/ i = k
      /\ k \in DOMAIN log'
      /\ log'[k].fi = M.fi /\ log'[k].stage = M.stage
      /\ M.fi \in DOMAIN M.list
  BY CallView
<1> HIDE DEF k
<1>2. Failed \subseteq DOMAIN log /\ Passed \subseteq DOMAIN log
  BY DEF Failed, Passed
<1>3. ASSUME NEW y \in AllTests
      PROVE  /\ Called(y)' <=> Called(y)
             /\ PassedTest(y)' <=> PassedTest(y)
             /\ HookFailed(y[1])' <=> HookFailed(y[1]) \/ (~ok /\ y[1] = M.fi)
  <2>1. Called(y)' <=> Called(y)
    BY <1>1 DEF Called, IsCall
  <2>2. HookFailed(y[1])' <=> HookFailed(y[1]) \/ (~ok /\ y[1] = M.fi)
    BY <1>1, <1>2 DEF HookFailed
  <2>3. PassedTest(y)' <=> PassedTest(y)
    BY <1>1, <1>2 DEF PassedTest
  <2> QED
    BY <2>1, <2>2, <2>3
<1>4. M.stage \notin {"idle", "returned"} /\ M'.stage \notin {"idle", "returned"} /\ Lives
  BY CallView, StageNames DEF Calls
<1>5. CASE ok
  <2>1. FailedHooks' = FailedHooks
    BY <1>1, <1>2, <1>5 DEF FailedHooks
  <2>2. Verdict' = Verdict
    <3>1. \A y \in AllTests : VerdictAt(y)' = VerdictAt(y)
      BY <1>3, <1>5 DEF VerdictAt
    <3> QED
      BY <1>1, <3>1, VerdictAtOf
  <2> QED
    BY <1>1, <1>4, <2>1, <2>2, StepInside DEF SameView
<1>6. CASE ~ok
  <2>1. Cardinality(FailedHooks)' = Cardinality(FailedHooks) + 1
    <3>1. FailedHooks' = FailedHooks \cup {k} /\ k \notin FailedHooks
      BY <1>1, <1>2, <1>6 DEF FailedHooks
    <3>2. IsFiniteSet(FailedHooks)
      <4>1. DOMAIN log = 1 .. Len(log) /\ Len(log) \in Nat
        BY LogTypes
      <4>2. IsFiniteSet(DOMAIN log)
        BY <4>1, FS_Interval
      <4> QED
        BY <1>2, <4>2, FS_Subset DEF FailedHooks
    <3> QED
      BY <3>1, <3>2, FS_AddElement
  <2>2. Verdict' = [x \in DOMAIN Verdict |->
                       IF x[1] = M.fi /\ Verdict[x] = "pending" THEN "skipped"
                       ELSE Verdict[x]]
    BY <1>1, <1>3, <1>6 DEF Verdict, AllTests, PassedTest
  <2>3. Phase = "running" /\ Phase' = "running" /\ Figures' = Figures
    BY <1>4 DEF Phase, Figures, Lives, Live
  <2>4. \A y \in {y \in DOMAIN Verdict : Verdict[y] = "pending"} : M.fi <= y[1]
    <3> SUFFICES ASSUME NEW y \in AllTests, ~Judged(y) PROVE M.fi <= y[1]
      BY VerdictOf
    <3>1. ~(y[1] < M.fi)
      BY BehindJudged
    <3> QED
      BY <3>1, TestOf, LogTypes
  <2>5. Report!HookFails(M.fi)
    BY <1>1, <2>1, <2>2, <2>3, <2>4 DEF Report!HookFails, Report!With
  <2>6. M.fi \in DOMAIN ShapeOf(M.list)
    BY <1>1 DEF ShapeOf
  <2> QED
    BY <2>5, <2>6 DEF Report!Next
<1> QED
  BY <1>5, <1>6

-----------------------------------------------------------------------------
(* The figures.                                                            *)

\* The tests of the files run() has come to.
Visited == {x \in AllTests : x[1] < M.fi \/ (x[1] = M.fi /\ M.stage \in FileStages)}

\* Outside run_file() its figures are 0; ntest counts the tests of the files
\* run() has come to; the tests in the log are tests of the list.
TallyInv ==
    /\ M.stage \in {"file", "returned"} => M.n = 0 /\ M.errs = << >>
    /\ M.stage # "idle" => IsFiniteSet(Visited) /\ Cardinality(Visited) = M.ntest
    /\ \A i \in DOMAIN log : log[i].stage = "test" => <<log[i].fi, log[i].ti>> \in AllTests

(* The tests of one file are as many as its length says.                   *)
LEMMA FileTests ==
    ASSUME NEW f, NEW n \in Nat
    PROVE  IsFiniteSet({<<f, t>> : t \in 1 .. n}) /\ Cardinality({<<f, t>> : t \in 1 .. n}) = n
<1> DEFINE S == 1 .. n
           T == {<<f, t>> : t \in 1 .. n}
           b == [t \in S |-> <<f, t>>]
<1>1. b \in Bijection(S, T)
  BY DEF Bijection, Injection, Surjection, IsInjective
<1>2. IsFiniteSet(S) /\ Cardinality(S) = n
  BY FS_Interval
<1> HIDE DEF S, T, b
<1>3. ExistsBijection(S, T)
  BY <1>1 DEF ExistsBijection
<1>4. IsFiniteSet(T) /\ Cardinality(T) = n
  BY <1>2, <1>3, FS_Bijection
<1> QED
  BY <1>4 DEF T

LEMMA TallyInit == Init => TallyInv
<1> SUFFICES ASSUME Init PROVE TallyInv
  OBVIOUS
<1>1. log = << >> /\ M.stage = "idle"
  BY DEF Init, M, Proc, Boot
<1> QED
  BY <1>1 DEF TallyInv

LEMMA TallyNext ==
    TypeInv /\ TypeInv' /\ HistInv /\ TallyInv /\ [Next]_vars => TallyInv'
<1> SUFFICES ASSUME TypeInv, TypeInv', HistInv, TallyInv, MainStep PROVE TallyInv'
  BY MainSteps
<1>1. ASSUME log' = log, M'.list = M.list
      PROVE  \A i \in DOMAIN log' :
                 log'[i].stage = "test" => <<log'[i].fi, log'[i].ti>> \in AllTests'
  BY <1>1 DEF TallyInv, AllTests
<1>2. ASSUME M'.list = M.list, M'.fi = M.fi,
             M.stage \in FileStages <=> M'.stage \in FileStages
      PROVE  Visited' = Visited
  BY <1>2 DEF Visited, AllTests
<1>3. CASE Stays
  BY <1>1, <1>2, <1>3 DEF TallyInv, Stays, SameFile, SameFigures, SameAccount
<1>4. CASE Begins
  <2>1. log' = << >> /\ M'.stage = "file" /\ M'.fi = 1 /\ M'.ntest = 0
        /\ M'.n = 0 /\ M'.errs = << >>
    BY <1>4 DEF Begins, HistInv
  <2>2. Visited' = {}
    <3>1. ASSUME NEW x \in AllTests' PROVE x[1] \in Nat /\ x[1] # 0
      <4>1. M' \in Memory
        BY DEF TypeInv, TypeOK, M, Proc
      <4>2. M'.list \in Seq(Source)
        BY <4>1 DEF Memory
      <4>3. PICK f \in DOMAIN M'.list : \E t \in DOMAIN M'.list[f].tests : x = <<f, t>>
        BY <3>1 DEF AllTests
      <4>4. f \in Nat /\ f # 0
        BY <4>2
      <4> QED
        BY <4>3, <4>4
    <3> QED
      BY <2>1, <3>1, StageNames DEF Visited
  <2> QED
    BY <2>1, <2>2, FS_EmptySet DEF TallyInv
<1>5. CASE Enters
  <2>1. /\ M.stage = "file" /\ M.fi \in DOMAIN M.list /\ M'.list = M.list /\ M'.fi = M.fi
        /\ M'.stage = "before_all" /\ log' = log
        /\ M'.ntest = M.ntest + Len(Src(M).tests)
    BY <1>5 DEF Enters, SameFile
  <2> DEFINE T == {<<M.fi, t>> : t \in 1 .. Len(Src(M).tests)}
  <2>2. /\ IsFiniteSet(T) /\ Cardinality(T) = Len(Src(M).tests)
        /\ DOMAIN Src(M).tests = 1 .. Len(Src(M).tests)
    <3>1. Src(M).tests \in Seq(TestName)
      BY <2>1, LogTypes
    <3>2. Len(Src(M).tests) \in Nat /\ DOMAIN Src(M).tests = 1 .. Len(Src(M).tests)
      BY <3>1
    <3> QED
      BY <3>2, FileTests
  <2>3. Visited' = Visited \cup T
    <3>1. AllTests' = AllTests
      BY <2>1 DEF AllTests
    <3>2. T = {x \in AllTests : x[1] = M.fi}
      <4>1. T \subseteq AllTests
        BY <2>1, <2>2 DEF AllTests, Src
      <4>2. ASSUME NEW x \in AllTests, x[1] = M.fi PROVE x \in T
        BY <2>2, <4>2, TestOf DEF Src
      <4> QED
        BY <4>1, <4>2
    <3> HIDE DEF T
    <3> QED
      BY <2>1, <3>1, <3>2, StageNames DEF Visited
  <2>4. Visited \cap T = {}
    BY <2>1, StageNames, LogTypes DEF Visited
  <2>5. IsFiniteSet(Visited) /\ Cardinality(Visited) = M.ntest
    BY <2>1 DEF TallyInv
  <2> HIDE DEF T
  <2>6. IsFiniteSet(Visited') /\ Cardinality(Visited') = M'.ntest
    <3>1. IsFiniteSet({}) /\ Cardinality({}) = 0 /\ Cardinality(Visited) \in Nat /\ Cardinality(T) \in Nat
      BY <2>2, <2>5, FS_EmptySet, FS_CardinalityType
    <3>2. IsFiniteSet(Visited \cup T)
          /\ Cardinality(Visited \cup T) = Cardinality(Visited) + Cardinality(T) - Cardinality({})
      BY <2>2, <2>4, <2>5, FS_Union
    <3> QED
      BY <2>1, <2>2, <2>3, <2>5, <3>1, <3>2
  <2> QED
    BY <1>1, <2>1, <2>6, StageNames DEF TallyInv
<1>6. CASE Skips \/ Leaves
  <2>1. /\ M'.list = M.list /\ M'.fi = M.fi /\ log' = log /\ M'.ntest = M.ntest
        /\ M.stage \in FileStages /\ M'.stage \in FileStages
    BY <1>6, SettleStage, StageNames DEF Skips, Leaves, LoopEnds, SameFile
  <2> QED
    BY <1>1, <1>2, <2>1, StageNames DEF TallyInv
<1>7. ASSUME NEW ok \in BOOLEAN, Calls(ok) PROVE TallyInv'
  <2>1. /\ M'.list = M.list /\ M'.fi = M.fi /\ M'.ntest = M.ntest /\ AllTests' = AllTests
        /\ M.stage \in FileStages /\ M'.stage \in FileStages
    BY <1>7, CallView, SettleStage, StageNames DEF Calls, SameFile
  <2>2. ASSUME NEW i \in DOMAIN log', log'[i].stage = "test"
        PROVE  <<log'[i].fi, log'[i].ti>> \in AllTests
    <3>1. CASE i \in DOMAIN log
      BY <1>7, <2>2, <3>1, CallView DEF TallyInv
    <3>2. CASE i = Len(log) + 1
      <4>1. M.stage = "test" /\ log'[i].fi = M.fi /\ log'[i].ti = M.ti
        BY <1>7, <2>2, <3>2, CallView
      <4> QED
        BY <4>1, NextJudged
    <3> QED
      BY <1>7, <3>1, <3>2, CallView
  <2> QED
    BY <1>2, <2>1, <2>2, StageNames DEF TallyInv
<1>8. CASE Tallies
  <2>1. /\ M.stage = "tally" /\ M'.stage = "file" /\ M'.list = M.list /\ M'.fi = M.fi + 1
        /\ log' = log /\ M'.ntest = M.ntest /\ M'.n = 0 /\ M'.errs = << >>
    BY <1>8 DEF Tallies
  <2>2. Visited' = Visited
    <3>1. AllTests' = AllTests
      BY <2>1 DEF AllTests
    <3>2. \A x \in AllTests : x[1] < M.fi + 1 <=> x[1] < M.fi \/ x[1] = M.fi
      BY TestOf, LogTypes
    <3> QED
      BY <2>1, <3>1, <3>2, StageNames DEF Visited
  <2> QED
    BY <1>1, <2>1, <2>2 DEF TallyInv
<1>9. CASE Returns
  <2>1. /\ M.stage = "file" /\ M'.stage = "returned" /\ M'.list = M.list /\ M'.fi = M.fi
        /\ log' = log /\ SameFigures /\ SameAccount
    BY <1>9 DEF Returns, SameFile
  <2> QED
    BY <1>1, <1>2, <2>1, StageNames DEF TallyInv, SameFigures, SameAccount
<1> QED
  BY <1>3, <1>4, <1>5, <1>6, <1>7, <1>8, <1>9 DEF MainStep

(* No test is called twice.                                                *)
LEMMA CalledOnce ==
    ASSUME TypeInv, HistInv, NEW i \in DOMAIN log, NEW j \in DOMAIN log,
           log[i].stage = "test", log[j].stage = "test",
           log[i].fi = log[j].fi, log[i].ti = log[j].ti
    PROVE  i = j
<1>1. DOMAIN log = 1 .. Len(log) /\ Len(log) \in Nat /\ log[i].ti \in Nat
  BY LogTypes
<1>2. ASSUME NEW a \in DOMAIN log, NEW b \in DOMAIN log, a < b,
             log[a].stage = log[b].stage, log[a].fi = log[b].fi
      PROVE  log[a].ti < log[b].ti
  <2>1. a \in 1 .. b - 1 /\ InOrder(b)
    BY <1>1, <1>2 DEF HistInv, HookProtocol
  <2> QED
    BY <1>2, <2>1 DEF InOrder
<1> QED
  BY <1>1, <1>2

(* A set of calls of tests is as large as the set of the tests called.     *)
LEMMA TestsOfCalls ==
    ASSUME TypeInv, HistInv, NEW I \in SUBSET DOMAIN log,
           \A i \in I : log[i].stage = "test"
    PROVE  /\ IsFiniteSet({<<log[i].fi, log[i].ti>> : i \in I})
           /\ Cardinality({<<log[i].fi, log[i].ti>> : i \in I}) = Cardinality(I)
<1> DEFINE T == {<<log[i].fi, log[i].ti>> : i \in I}
           b == [i \in I |-> <<log[i].fi, log[i].ti>>]
<1>1. IsFiniteSet(I)
  <2>1. DOMAIN log = 1 .. Len(log) /\ Len(log) \in Nat
    BY LogTypes
  <2>2. IsFiniteSet(DOMAIN log)
    BY <2>1, FS_Interval
  <2> QED
    BY <2>2, FS_Subset
<1>2. \A i, j \in I : b[i] = b[j] => i = j
  BY CalledOnce
<1>3. b \in Bijection(I, T)
  BY <1>2 DEF Bijection, Injection, Surjection, IsInjective
<1> HIDE DEF T, b
<1>4. IsFiniteSet(T) /\ Cardinality(T) = Cardinality(I)
  BY <1>1, <1>3, FS_Bijection DEF ExistsBijection
<1> QED
  BY <1>4 DEF T

\* The calls of tests that failed, and the tests by their verdict.
FailedTests == {i \in Failed : log[i].stage = "test"}
Of(v) == {x \in DOMAIN Verdict : Verdict[x] = v}

(* The verdicts are those of the calls.                                    *)
LEMMA VerdictsOfCalls ==
    ASSUME TypeInv, HistInv, TallyInv
    PROVE  /\ Of("passed") = {<<log[i].fi, log[i].ti>> : i \in Passed}
           /\ Of("failed") = {<<log[i].fi, log[i].ti>> : i \in FailedTests}
<1>1. \A i \in DOMAIN log : log[i].stage = "test" => <<log[i].fi, log[i].ti>> \in AllTests
  BY DEF TallyInv
<1>2. ASSUME NEW x \in Of("passed")
      PROVE  x \in {<<log[i].fi, log[i].ti>> : i \in Passed}
  <2>1. PICK i \in Passed : log[i].fi = x[1] /\ log[i].ti = x[2]
    BY <1>2, VerdictOf DEF Of, PassedTest
  <2>2. x = <<x[1], x[2]>>
    BY <1>2, VerdictOf, TestOf DEF Of
  <2> QED
    BY <2>1, <2>2
<1>3. ASSUME NEW i \in Passed PROVE <<log[i].fi, log[i].ti>> \in Of("passed")
  <2> DEFINE x == <<log[i].fi, log[i].ti>>
  <2>1. x \in AllTests /\ i \in DOMAIN log /\ log[i].stage = "test"
    BY <1>1 DEF Passed
  <2>2. Called(x) /\ PassedTest(x)
    BY <2>1 DEF Called, PassedTest, IsCall
  <2> QED
    BY <2>1, <2>2, VerdictOf DEF Of
<1>4. ASSUME NEW x \in Of("failed")
      PROVE  x \in {<<log[i].fi, log[i].ti>> : i \in FailedTests}
  <2>1. x \in AllTests /\ Called(x) /\ ~PassedTest(x)
    BY <1>4, VerdictOf DEF Of
  <2>2. PICK i \in DOMAIN log : IsCall(i, x[1], "test") /\ log[i].ti = x[2]
    BY <2>1 DEF Called
  <2>3. i \in FailedTests
    BY <2>1, <2>2 DEF PassedTest, Passed, FailedTests, Failed, IsCall
  <2>4. x = <<x[1], x[2]>>
    BY <2>1, TestOf
  <2> QED
    BY <2>2, <2>3, <2>4 DEF IsCall
<1>5. ASSUME NEW i \in FailedTests PROVE <<log[i].fi, log[i].ti>> \in Of("failed")
  <2> DEFINE x == <<log[i].fi, log[i].ti>>
  <2>1. x \in AllTests /\ i \in DOMAIN log /\ log[i].stage = "test" /\ ~log[i].ok
    BY <1>1 DEF FailedTests, Failed
  <2>2. Called(x)
    BY <2>1 DEF Called, IsCall
  <2>3. ~PassedTest(x)
    <3> SUFFICES ASSUME NEW j \in Passed, log[j].fi = log[i].fi, log[j].ti = log[i].ti
                 PROVE FALSE
      BY DEF PassedTest
    <3>1. j \in DOMAIN log /\ log[j].stage = "test" /\ log[j].ok
      BY DEF Passed
    <3>2. j = i
      BY <2>1, <3>1, CalledOnce
    <3> QED
      BY <2>1, <3>1, <3>2
  <2> QED
    BY <2>1, <2>2, <2>3, VerdictOf DEF Of
<1> QED
  BY <1>2, <1>3, <1>4, <1>5

(* TestReport counts as this module does.                                  *)
LEMMA SameCardinality == \A S : Report!Cardinality(S) = Cardinality(S)
  BY DEF Cardinality, Report!Cardinality

(* The report is made (lib/runner.lua:320-330).                            *)
LEMMA ReportReturns ==
    ASSUME TypeInv, HistInv, CountInv, TallyInv, Returns
    PROVE  Report!Next
<1>1. /\ M.stage = "file" /\ M'.stage = "returned" /\ M.fi > Len(M.list) /\ log' = log
      /\ M'.list = M.list /\ SameFigures /\ Lives
  BY DEF Returns, SameFile
<1>2. Phase = "running" /\ Phase' = "reported"
  BY <1>1 DEF Phase, Lives, Live
<1>3. \A x \in AllTests : Judged(x) /\ x[1] < M.fi
  <2>1. DOMAIN M.list = 1 .. Len(M.list) /\ M.fi \in Nat /\ Len(M.list) \in Nat
    BY LogTypes
  <2>2. \A x \in AllTests : x[1] < M.fi
    BY <1>1, <2>1, TestOf
  <2> QED
    BY <2>2, BehindJudged
<1>4. Of("pending") = {}
  BY <1>3, VerdictOf DEF Of
<1>5. IsFiniteSet(AllTests) /\ Cardinality(AllTests) = M.ntest
  <2>1. Visited = AllTests
    BY <1>3 DEF Visited
  <2> QED
    BY <1>1, <2>1 DEF TallyInv
<1>6. /\ Of("passed") \cap (Of("failed") \cup Of("skipped")) = {}
      /\ Of("passed") \cup (Of("failed") \cup Of("skipped")) = AllTests
  BY <1>4, VerdictOf DEF Of, Verdict, AllTests
<1>7. M.nsuccess \in Nat /\ M.count \in Nat /\ M.ntest \in Nat /\ Len(M.errs) = 0 /\ M.n = 0
  <2>1. M.n = 0 /\ M.errs = << >>
    BY <1>1 DEF TallyInv
  <2>2. M \in Memory
    BY DEF TypeInv, TypeOK, M, Proc
  <2> QED
    BY <2>1, <2>2, Fields
<1>8. Cardinality(Passed) = M.nsuccess /\ Cardinality(Failed) = M.count
  BY <1>7 DEF CountInv, Accounting
<1>9. Cardinality(Of("passed")) = M.nsuccess
  <2>1. Passed \in SUBSET DOMAIN log /\ \A i \in Passed : log[i].stage = "test"
    BY DEF Passed
  <2> QED
    BY <1>8, <2>1, TestsOfCalls, VerdictsOfCalls
<1>10. Cardinality(Of("failed") \cup Of("skipped")) = M.ntest - M.nsuccess
  <2> DEFINE P == Of("passed")
             F == Of("failed") \cup Of("skipped")
  <2>1. IsFiniteSet(P) /\ IsFiniteSet(F)
    BY <1>5, <1>6, FS_Subset
  <2> HIDE DEF P, F
  <2>2. /\ Cardinality(P \cup F) = Cardinality(P) + Cardinality(F) - Cardinality(P \cap F)
        /\ Cardinality(P) \in Nat /\ Cardinality(F) \in Nat
    BY <2>1, FS_Union, FS_CardinalityType
  <2>3. P \cap F = {} /\ P \cup F = AllTests /\ Cardinality(P) = M.nsuccess
    BY <1>6, <1>9 DEF P, F
  <2>4. Cardinality(P \cap F) = 0 /\ Cardinality(P \cup F) = M.ntest
    BY <1>5, <2>3, FS_EmptySet
  <2>5. Cardinality(F) = M.ntest - M.nsuccess
    BY <1>7, <2>2, <2>3, <2>4
  <2> QED
    BY <2>5 DEF F
<1>11. Cardinality(Of("failed")) + Cardinality(FailedHooks) = M.count
  <2>1. IsFiniteSet(Failed)
    <3>1. DOMAIN log = 1 .. Len(log) /\ Len(log) \in Nat /\ Failed \in SUBSET DOMAIN log
      BY LogTypes DEF Failed
    <3>2. IsFiniteSet(DOMAIN log)
      BY <3>1, FS_Interval
    <3> QED
      BY <3>1, <3>2, FS_Subset
  <2>2. /\ FailedTests \in SUBSET Failed /\ FailedHooks \in SUBSET Failed
        /\ FailedTests \cap FailedHooks = {} /\ FailedTests \cup FailedHooks = Failed
        /\ FailedTests \in SUBSET DOMAIN log
        /\ \A i \in FailedTests : log[i].stage = "test"
    BY DEF FailedTests, FailedHooks, Failed
  <2>3. IsFiniteSet(FailedTests) /\ IsFiniteSet(FailedHooks)
    BY <2>1, <2>2, FS_Subset
  <2>4. /\ Cardinality(FailedTests \cup FailedHooks)
              = Cardinality(FailedTests) + Cardinality(FailedHooks)
                - Cardinality(FailedTests \cap FailedHooks)
        /\ Cardinality(FailedTests) \in Nat /\ Cardinality(FailedHooks) \in Nat
    BY <2>3, FS_Union, FS_CardinalityType
  <2>5. Cardinality(Of("failed")) = Cardinality(FailedTests)
    BY <2>2, TestsOfCalls, VerdictsOfCalls
  <2>6. /\ Cardinality(FailedTests \cap FailedHooks) = 0
        /\ Cardinality(FailedTests \cup FailedHooks) = Cardinality(Failed)
    BY <2>2, FS_EmptySet
  <2> QED
    BY <1>8, <2>4, <2>5, <2>6
<1>12. SameView
  BY <1>1, SameLogView
<1>13. Figures' = [nsuccess |-> Cardinality(Of("passed")),
                   nfailure |-> Cardinality(Of("failed") \cup Of("skipped")),
                   nerrors  |-> Cardinality(Of("failed")) + Cardinality(FailedHooks)]
  BY <1>1, <1>9, <1>10, <1>11 DEF Figures, SameFigures
<1>14. Report!Report
  BY <1>2, <1>4, <1>12, <1>13, SameCardinality
     DEF Report!Report, Report!With, SameView, Of
<1> QED
  BY <1>14 DEF Report!Next

-----------------------------------------------------------------------------
(* The theorem.                                                            *)

LEMMA ReportInit == Init => Report!Init
<1> SUFFICES ASSUME Init PROVE Report!Init
  OBVIOUS
<1>1. log = << >> /\ M = Boot /\ Live(Main)
  BY DEF Init, M, Proc, Live
<1>2. M.stage = "idle" /\ M.list = << >> /\ DOMAIN M.list = {}
  BY <1>1 DEF Boot
<1>3. Phase = "idle" /\ Figures = Report!NoReport
  BY <1>1, <1>2 DEF Phase, Figures, Report!NoReport
<1>4. ShapeOf(M.list) = << >>
  BY <1>2 DEF ShapeOf
<1>5. Verdict = << >>
  BY <1>2 DEF Verdict
<1>6. Cardinality(FailedHooks) = 0
  <2>1. FailedHooks = {}
    BY <1>1 DEF FailedHooks, Failed
  <2> QED
    BY <2>1, FS_EmptySet
<1> QED
  BY <1>3, <1>4, <1>5, <1>6 DEF Report!Init

(* Every step is one that TestReport allows, or changes nothing it sees.   *)
LEMMA ReportNext ==
    TypeInv /\ TypeInv' /\ HistInv /\ CountInv /\ TallyInv /\ [Next]_vars
    => [Report!Next]_(Report!vars)
<1> SUFFICES ASSUME TypeInv, TypeInv', HistInv, CountInv, TallyInv, MainStep
             PROVE  [Report!Next]_(Report!vars)
  BY MainSteps
<1>1. ASSUME NEW ok \in BOOLEAN, Calls(ok) PROVE [Report!Next]_(Report!vars)
  BY <1>1, ReportTest, ReportHook
<1> QED
  BY <1>1, ReportStays, ReportSilent, ReportBegins, ReportReturns DEF MainStep

(* Whatever the test files do, the report of run() is that of one verdict  *)
(* per test, given in order, where a test that was not called is accounted *)
(* for by a failed hook of its file (lib/runner.lua:138-212, 276-330).     *)
THEOREM ReportStepsHold == Spec => Report!Steps
BY TypeInit, TypeNext, HistInit, HistNext, CountInit, CountNext, TallyInit, TallyNext,
   ReportInit, ReportNext, PTL DEF Spec, Report!Steps

-----------------------------------------------------------------------------
(* The errors of each file.                                                *)

\* What ErrorsByFile needs between the files.
ErrInv == ErrorsByFile /\ (M.stage \notin FileStages => M.errs = << >>)

(* A function on the first n + 1 numbers appends one value to the first n. *)
LEMMA MapAppend ==
    ASSUME NEW S, NEW n \in Nat, NEW F \in [1 .. n -> S], NEW G \in [1 .. n + 1 -> S],
           \A i \in 1 .. n : G[i] = F[i]
    PROVE  G = Append(F, G[n + 1])
<1>1. F \in Seq(S) /\ Len(F) = n
  OBVIOUS
<1>2. G \in Seq(S) /\ Len(G) = n + 1
  OBVIOUS
<1>3. n + 1 \in 1 .. n + 1 /\ G[n + 1] \in S
  OBVIOUS
<1>4. /\ Append(F, G[n + 1]) \in Seq(S) /\ Len(Append(F, G[n + 1])) = n + 1
      /\ \A i \in 1 .. n : Append(F, G[n + 1])[i] = F[i]
      /\ Append(F, G[n + 1])[n + 1] = G[n + 1]
  BY <1>1, <1>3, AppendProperties
<1>5. ASSUME NEW i \in 1 .. n + 1 PROVE G[i] = Append(F, G[n + 1])[i]
  <2>1. i \in 1 .. n \/ i = n + 1
    OBVIOUS
  <2> QED
    BY <1>4, <2>1
<1> QED
  BY <1>2, <1>4, <1>5, SeqEqual

(* Without a new entry the names stay.                                     *)
LEMMA SameNames ==
    ASSUME log' = log, M'.list = M.list
    PROVE  \A f : NamesOf(f)' = NamesOf(f)
  BY DEF NamesOf, NameOf

(* Nothing has failed in the files that run() has still to enter.          *)
LEMMA NamesAhead ==
    ASSUME TypeInv, HistInv, NEW f \in Nat,
           f > M.fi \/ (f = M.fi /\ M.stage \notin FileStages)
    PROVE  NamesOf(f) = << >>
<1> DEFINE S == {e \in Entry : e.fi = f /\ ~e.ok}
           q == Kept(log, S)
<1>1. log \in Seq(Entry) /\ M.fi \in Nat /\ \A i \in DOMAIN log : log[i].fi \in Nat
  BY LogTypes
<1>2. \A i \in DOMAIN log : log[i].fi # f
  BY <1>1 DEF HistInv, NoneAhead
<1>3. \A i \in DOMAIN log : log[i] \notin S
  BY <1>2
<1> HIDE DEF S
<1>4. q \in Seq(Entry \cap S) /\ \A k \in DOMAIN q : \E j \in DOMAIN log : log[j] = q[k]
  BY <1>1, KeptOK
<1> HIDE DEF q
<1>5. \A k \in DOMAIN q : q[k] \in S
  BY <1>4
<1>6. DOMAIN q = {}
  BY <1>3, <1>4, <1>5
<1>7. NamesOf(f) = [i \in DOMAIN q |-> NameOf(q[i])]
  BY DEF NamesOf, q, S
<1> QED
  BY <1>6, <1>7

(* A failed call adds its name to those of its file (lib/runner.lua:152).  *)
LEMMA NamesCall ==
    ASSUME TypeInv, NEW ok \in BOOLEAN, Calls(ok), NEW f
    PROVE  NamesOf(f)' = IF ~ok /\ f = M.fi THEN Append(NamesOf(f), CallName(M))
                         ELSE NamesOf(f)
<1> DEFINE S == {e \in Entry : e.fi = f /\ ~e.ok}
           q == Kept(log, S)
           Names(s) == [i \in DOMAIN s |-> NameOf(s[i])]
<1>1. PICK e \in Entry : /\ log' = Append(log, e)
                         /\ e.fi = M.fi /\ e.stage = M.stage /\ e.ti = M.ti /\ e.ok = ok
  BY DEF Calls
<1>2. log \in Seq(Entry) /\ M'.list = M.list
  BY LogTypes DEF Calls, SameFile
<1>3. e \in S <=> ~ok /\ f = M.fi
  BY <1>1
<1>4. NamesOf(f)' = Names(Kept(log', S))
  BY <1>2 DEF NamesOf, NameOf
<1>5. NamesOf(f) = Names(q)
  BY DEF NamesOf
<1>6. NameOf(e) = CallName(M)
  BY <1>1 DEF NameOf, CallName, Src
<1> HIDE DEF S
<1>7. Kept(log', S) = IF e \in S THEN Append(q, e) ELSE q
  BY <1>1, <1>2, KeptAppend
<1>8. q \in Seq(Entry)
  <2>1. q \in Seq(Entry \cap S)
    BY <1>2, KeptOK
  <2> QED
    BY <2>1
<1> HIDE DEF q
<1>9. ASSUME e \in S PROVE Names(Append(q, e)) = Append(Names(q), NameOf(e))
  <2> DEFINE n == Len(q)
             F == Names(q)
             G == Names(Append(q, e))
  <2>1. n \in Nat /\ DOMAIN q = 1 .. n
    BY <1>8
  <2>2. /\ DOMAIN Append(q, e) = 1 .. n + 1 /\ Append(q, e)[n + 1] = e
        /\ \A i \in 1 .. n : Append(q, e)[i] = q[i]
    BY <1>8
  <2>3. n + 1 \in 1 .. n + 1 /\ \A i \in 1 .. n : i \in 1 .. n + 1
    BY <2>1
  <2>4. DOMAIN F = 1 .. n /\ \A i \in 1 .. n : F[i] = NameOf(q[i])
    BY <2>1
  <2>5. DOMAIN G = 1 .. n + 1 /\ \A i \in 1 .. n + 1 : G[i] = NameOf(Append(q, e)[i])
    BY <2>2
  <2>6. F = [i \in DOMAIN F |-> F[i]] /\ G = [i \in DOMAIN G |-> G[i]]
    OBVIOUS
  <2> HIDE DEF F, G, n
  <2>7. G[n + 1] = NameOf(e) /\ \A i \in 1 .. n : G[i] = F[i]
    BY <2>2, <2>3, <2>4, <2>5
  <2> DEFINE V == {G[i] : i \in 1 .. n + 1}
  <2>8. F \in [1 .. n -> V] /\ G \in [1 .. n + 1 -> V]
    <3>1. \A i \in 1 .. n + 1 : G[i] \in V
      OBVIOUS
    <3>2. \A i \in 1 .. n : F[i] \in V
      BY <2>3, <2>7, <3>1
    <3> HIDE DEF V
    <3> QED
      BY <2>4, <2>5, <2>6, <3>1, <3>2
  <2> HIDE DEF V
  <2>9. G = Append(F, G[n + 1])
    BY <2>1, <2>7, <2>8, MapAppend
  <2> QED
    BY <2>7, <2>9 DEF F, G
<1> QED
  BY <1>3, <1>4, <1>5, <1>6, <1>7, <1>9

LEMMA ErrInit == Init => ErrInv
<1> SUFFICES ASSUME Init PROVE ErrInv
  OBVIOUS
<1>1. M = Boot
  BY DEF Init, M, Proc
<1>2. /\ M.stage = "idle" /\ M.fi = 1 /\ M.errs = << >> /\ DOMAIN M.errors = {}
  BY <1>1 DEF Boot
<1>3. "idle" \notin FileStages /\ 1 .. M.fi - 1 = {}
  BY <1>2, StageNames
<1> QED
  BY <1>2, <1>3 DEF ErrInv, ErrorsByFile

(* The list of errors after a step that adds nothing to it.                *)
LEMMA SameErrors ==
    ASSUME ErrInv, M'.fi = M.fi, M'.errors = M.errors,
           \A f \in 1 .. M.fi - 1 : NamesOf(f)' = NamesOf(f),
           \A k \in DOMAIN M.errors : M.errors[k].src \in 1 .. M.fi - 1,
           M'.stage \in FileStages => M'.errs = NamesOf(M.fi)',
           M'.stage \notin FileStages => M'.errs = << >>
    PROVE  ErrInv'
<1>1. \A f \in 1 .. M.fi - 1 :
          NamesOf(f)' # << >> => \E k \in DOMAIN M'.errors : M'.errors[k].src = f
  BY DEF ErrInv, ErrorsByFile
<1>2. \A k \in DOMAIN M'.errors :
          /\ M'.errors[k].src < M'.fi
          /\ M'.errors[k].errs = NamesOf(M.errors[k].src)
          /\ M'.errors[k].errs # << >>
  BY DEF ErrInv, ErrorsByFile
<1> QED
  BY <1>1, <1>2 DEF ErrInv, ErrorsByFile

(* The errors are filed under files that are behind run().                 *)
LEMMA ErrTypes ==
    ASSUME TypeInv, ErrInv
    PROVE  /\ M.errors \in Seq([src : Nat \ {0}, errs : Seq(ErrName)])
           /\ M.errs \in Seq(ErrName)
           /\ \A k \in DOMAIN M.errors : M.errors[k].src \in 1 .. M.fi - 1
<1>1. M \in Memory
  BY DEF TypeInv, TypeOK, M, Proc
<1>2. /\ M.errors \in Seq([src : Nat \ {0}, errs : Seq(ErrName)])
      /\ M.errs \in Seq(ErrName) /\ M.fi \in Nat
  BY <1>1 DEF Memory
<1>3. ASSUME NEW k \in DOMAIN M.errors PROVE M.errors[k].src \in Nat \ {0}
  <2> DEFINE R == [src : Nat \ {0}, errs : Seq(ErrName)]
  <2>1. \A r \in R : r.src \in Nat \ {0}
    OBVIOUS
  <2>2. M.errors \in Seq(R)
    BY <1>2
  <2> HIDE DEF R
  <2>3. M.errors[k] \in R
    BY <2>2
  <2> QED
    BY <2>1, <2>3
<1>4. \A k \in DOMAIN M.errors : M.errors[k].src < M.fi
  BY DEF ErrInv, ErrorsByFile
<1>5. \A k \in DOMAIN M.errors : M.errors[k].src \in 1 .. M.fi - 1
  <2> SUFFICES ASSUME NEW k \in DOMAIN M.errors PROVE M.errors[k].src \in 1 .. M.fi - 1
    OBVIOUS
  <2>1. M.errors[k].src \in Nat \ {0} /\ M.errors[k].src < M.fi /\ M.fi \in Nat
    BY <1>2, <1>3, <1>4
  <2>2. \A a \in Nat \ {0}, b \in Nat : a < b => a \in 1 .. b - 1
    OBVIOUS
  <2> QED
    BY <2>1, <2>2
<1> QED
  BY <1>2, <1>5, Zenon

(* The steps of run() that record no call and leave the list as it is.     *)
LEMMA ErrSilent ==
    ASSUME TypeInv, HistInv, ErrInv, Stays \/ Enters \/ Skips \/ Leaves \/ Returns
    PROVE  ErrInv'
<1>1. /\ M'.list = M.list /\ M'.fi = M.fi /\ log' = log
      /\ M'.errs = M.errs /\ M'.errors = M.errors
  BY DEF Stays, Enters, Skips, Leaves, Returns, SameFile, SameAccount
<1>2. \A f : NamesOf(f)' = NamesOf(f)
  BY <1>1, SameNames
<1>3. M.stage \in FileStages => M.errs = NamesOf(M.fi)
  BY DEF ErrInv, ErrorsByFile
<1>4. M.stage \notin FileStages => M.errs = << >> /\ NamesOf(M.fi) = << >>
  BY NamesAhead, LogTypes DEF ErrInv
<1>5. M'.stage \notin FileStages => M.stage \notin FileStages
  BY StageNames DEF Stays, Enters, Skips, Leaves, Returns, LoopEnds, OnSuccess
<1>6. \A f \in 1 .. M.fi - 1 : NamesOf(f)' = NamesOf(f)
  BY <1>2
<1>7. NamesOf(M.fi)' = NamesOf(M'.fi)
  BY <1>2
<1> QED
  BY <1>1, <1>3, <1>4, <1>5, <1>6, <1>7, ErrTypes, SameErrors

(* A call that fails adds its name to the errors of its file               *)
(* (lib/runner.lua:150-153, 168-171, 177-182, 188-195, 201-206).           *)
LEMMA ErrCalls ==
    ASSUME TypeInv, TypeInv', HistInv, ErrInv, NEW ok \in BOOLEAN, Calls(ok)
    PROVE  ErrInv'
<1>1. /\ M'.fi = M.fi /\ M'.errors = M.errors
      /\ M'.errs = IF ok THEN M.errs ELSE Append(M.errs, CallName(M))
      /\ M.stage \in FileStages /\ M'.stage \in FileStages
  <2>1. M.stage \in CallStages
    BY DEF Calls, Due
  <2>2. M.stage \in FileStages /\ M'.stage \in FileStages
    BY <2>1, SettleStage, StageNames DEF Calls
  <2> QED
    BY <2>2 DEF Calls, SameFile
<1>2. \A f : NamesOf(f)' = IF ~ok /\ f = M.fi THEN Append(NamesOf(f), CallName(M))
                           ELSE NamesOf(f)
  BY NamesCall
<1>3. M.errs = NamesOf(M.fi)
  BY <1>1 DEF ErrInv, ErrorsByFile
<1>4. \A f \in 1 .. M.fi - 1 : NamesOf(f)' = NamesOf(f)
  <2>1. \A f \in 1 .. M.fi - 1 : f # M.fi
    BY LogTypes
  <2> QED
    BY <1>2, <2>1
<1>5. M'.errs = NamesOf(M.fi)'
  BY <1>1, <1>2, <1>3
<1> QED
  BY <1>1, <1>4, <1>5, ErrTypes, SameErrors

(* A new run has no errors yet (lib/runner.lua:296-299).                   *)
LEMMA ErrBegins ==
    ASSUME HistInv, Begins
    PROVE  ErrInv'
<1>1. /\ M'.stage = "file" /\ M'.fi = 1 /\ M'.errs = << >> /\ DOMAIN M'.errors = {}
  BY DEF Begins
<1>2. "file" \notin FileStages /\ 1 .. M'.fi - 1 = {}
  BY <1>1, StageNames
<1> QED
  BY <1>1, <1>2 DEF ErrInv, ErrorsByFile

(* run() files the errors of run_file() under its file, if there are any   *)
(* (lib/runner.lua:310-318).                                               *)
LEMMA ErrTallies ==
    ASSUME TypeInv, HistInv, ErrInv, Tallies
    PROVE  ErrInv'
<1> DEFINE x == [src |-> M.fi, errs |-> M.errs]
           R == [src : Nat \ {0}, errs : Seq(ErrName)]
<1>1. /\ M'.list = M.list /\ log' = log /\ M'.fi = M.fi + 1
      /\ M'.errs = << >> /\ M'.stage = "file" /\ M.stage = "tally"
      /\ M'.errors = IF M.errs = << >> THEN M.errors ELSE Append(M.errors, x)
  BY DEF Tallies
<1>2. \A f : NamesOf(f)' = NamesOf(f)
  BY <1>1, SameNames
<1>3. M.errs = NamesOf(M.fi) /\ M'.stage \notin FileStages
  BY <1>1, StageNames DEF ErrInv, ErrorsByFile
<1>4. /\ M.errors \in Seq(R) /\ M.fi \in Nat \ {0} /\ M.errs \in Seq(ErrName)
      /\ \A k \in DOMAIN M.errors : M.errors[k].src \in 1 .. M.fi - 1
  BY ErrTypes, LogTypes
<1>5. x \in R /\ x.src = M.fi /\ x.errs = M.errs
  BY <1>4
<1> HIDE DEF x, R
<1>6. /\ \A f \in 1 .. M.fi - 1 :
             NamesOf(f) # << >> => \E k \in DOMAIN M.errors : M.errors[k].src = f
      /\ \A k \in DOMAIN M.errors :
             /\ M.errors[k].errs = NamesOf(M.errors[k].src)
             /\ M.errors[k].errs # << >>
      /\ \A k, n \in DOMAIN M.errors : k < n => M.errors[k].src < M.errors[n].src
  BY DEF ErrInv, ErrorsByFile
<1>7. \A f \in 1 .. M'.fi - 1 : f \in 1 .. M.fi - 1 \/ f = M.fi
  BY <1>1, <1>4
<1>8. CASE M.errs = << >>
  <2>1. M'.errors = M.errors
    BY <1>1, <1>8
  <2>2. \A f \in 1 .. M'.fi - 1 :
            NamesOf(f)' # << >> => \E k \in DOMAIN M'.errors : M'.errors[k].src = f
    BY <1>2, <1>3, <1>6, <1>7, <1>8, <2>1
  <2>3. \A k \in DOMAIN M'.errors : M'.errors[k].src < M'.fi
    <3>1. M.fi \in Nat
      BY <1>4
    <3>2. \A n \in 1 .. M.fi - 1 : n < M.fi + 1
      BY <3>1
    <3> QED
      BY <1>1, <1>4, <2>1, <3>2
  <2>4. \A k \in DOMAIN M'.errors :
            /\ M'.errors[k].errs = NamesOf(M.errors[k].src)'
            /\ M'.errors[k].errs # << >>
    BY <1>2, <1>6, <2>1
  <2> QED
    BY <1>1, <1>3, <1>6, <2>1, <2>2, <2>3, <2>4 DEF ErrInv, ErrorsByFile
<1>9. CASE M.errs # << >>
  <2> DEFINE l == Len(M.errors) + 1
  <2>1. /\ DOMAIN M.errors = 1 .. Len(M.errors) /\ Len(M.errors) \in Nat
        /\ DOMAIN M'.errors = 1 .. l /\ M'.errors[l] = x
        /\ \A k \in DOMAIN M.errors : M'.errors[k] = M.errors[k]
    BY <1>1, <1>4, <1>5, <1>9
  <2>2. \A k \in DOMAIN M'.errors : k \in DOMAIN M.errors \/ k = l
    BY <2>1
  <2>3. l \in DOMAIN M'.errors /\ \A k \in DOMAIN M.errors : k \in DOMAIN M'.errors /\ k < l
    BY <2>1
  <2> HIDE DEF l
  <2>4. ASSUME NEW f \in 1 .. M'.fi - 1, NamesOf(f)' # << >>
        PROVE  \E k \in DOMAIN M'.errors : M'.errors[k].src = f
    <3>1. CASE f = M.fi
      BY <1>5, <2>1, <2>3, <3>1
    <3>2. CASE f \in 1 .. M.fi - 1
      <4>1. NamesOf(f) # << >>
        BY <1>2, <2>4
      <4>2. PICK k \in DOMAIN M.errors : M.errors[k].src = f
        BY <1>6, <3>2, <4>1
      <4> QED
        BY <2>1, <2>3, <4>2
    <3> QED
      BY <1>7, <3>1, <3>2
  <2>5. ASSUME NEW k \in DOMAIN M'.errors
        PROVE  /\ M'.errors[k].src < M'.fi
               /\ M'.errors[k].errs = NamesOf(M.errors[k].src)'
               /\ M'.errors[k].errs # << >>
    <3>1. CASE k = l
      BY <1>1, <1>2, <1>3, <1>4, <1>5, <1>9, <2>1, <3>1
    <3>2. CASE k \in DOMAIN M.errors
      BY <1>1, <1>2, <1>4, <1>6, <2>1, <3>2
    <3> QED
      BY <2>2, <3>1, <3>2
  <2>6. ASSUME NEW k \in DOMAIN M'.errors, NEW n \in DOMAIN M'.errors, k < n
        PROVE  M'.errors[k].src < M'.errors[n].src
    <3>1. k \in DOMAIN M.errors
      BY <2>1, <2>2, <2>3, <2>6 DEF l
    <3>2. CASE n = l
      BY <1>4, <1>5, <2>1, <3>1, <3>2
    <3>3. CASE n \in DOMAIN M.errors
      BY <1>6, <2>1, <2>6, <3>1, <3>3
    <3> QED
      BY <2>2, <3>2, <3>3
  <2> QED
    BY <1>1, <1>3, <2>4, <2>5, <2>6 DEF ErrInv, ErrorsByFile
<1> QED
  BY <1>8, <1>9

LEMMA ErrNext == TypeInv /\ TypeInv' /\ HistInv /\ ErrInv /\ [Next]_vars => ErrInv'
<1> SUFFICES ASSUME TypeInv, TypeInv', HistInv, ErrInv, MainStep PROVE ErrInv'
  BY MainSteps
<1> QED
  BY ErrSilent, ErrBegins, ErrCalls, ErrTallies DEF MainStep

(* Every error that run_file() collects is reported, under its file and in *)
(* the order of the calls, and nothing else is (lib/runner.lua:138-212,    *)
(* 310-320).                                                               *)
THEOREM ErrorsByFileHolds == Spec => []ErrorsByFile
<1>1. ErrInv => ErrorsByFile
  BY DEF ErrInv
<1> QED
  BY <1>1, TypeInit, TypeNext, HistInit, HistNext, ErrInit, ErrNext, PTL DEF Spec

-----------------------------------------------------------------------------
(* The invariants of a run in one, for the modules that build on Runner.   *)

RunInv == TypeInv /\ HistInv /\ CountInv /\ TallyInv

LEMMA RunInit == Init => RunInv
  BY TypeInit, HistInit, CountInit, TallyInit DEF RunInv

LEMMA RunNext == RunInv /\ [Next]_vars => RunInv'
<1> SUFFICES ASSUME RunInv, [Next]_vars PROVE RunInv'
  OBVIOUS
<1>1. TypeInv /\ HistInv /\ CountInv /\ TallyInv
  BY DEF RunInv
<1>2. TypeInv'
  BY <1>1, TypeNext
<1>3. HistInv' /\ TallyInv'
  BY <1>1, <1>2, HistNext, TallyNext
<1>4. CountInv'
  BY <1>1, CountNext
<1> QED
  BY <1>2, <1>3, <1>4 DEF RunInv

(* The figures of the report tell whether a call has failed, and if none   *)
(* has then every test was called (lib/runner.lua:296-330).                *)
LEMMA ReportTells ==
    ASSUME RunInv, M.stage = "returned"
    PROVE  /\ M.ntest \in Nat /\ M.nsuccess \in Nat /\ M.count \in Nat
           /\ M.count = 0 => \A i \in DOMAIN log : log[i].ok
           /\ (\A i \in DOMAIN log : log[i].ok)
              => /\ M.count = 0 /\ M.nsuccess = M.ntest
                 /\ \A f \in DOMAIN M.list : \A t \in DOMAIN M.list[f].tests :
                        \E i \in DOMAIN log : IsCall(i, f, "test") /\ log[i].ti = t
<1>1. TypeInv /\ HistInv /\ CountInv /\ TallyInv
  BY DEF RunInv
<1>2. M.n = 0 /\ M.errs = << >> /\ M.fi > Len(M.list)
  BY <1>1, StageNames DEF TallyInv, HistInv
<1>3. M.ntest \in Nat /\ M.nsuccess \in Nat /\ M.count \in Nat
  <2>1. M \in Memory
    BY <1>1 DEF TypeInv, TypeOK, M, Proc
  <2> QED
    BY <2>1, Fields
<1>4. Cardinality(Passed) = M.nsuccess /\ Cardinality(Failed) = M.count
  <2>1. Len(M.errs) = 0
    BY <1>2
  <2> QED
    BY <1>1, <1>2, <1>3, <2>1 DEF CountInv, Accounting
<1>5. ASSUME M.count = 0, NEW i \in DOMAIN log PROVE log[i].ok
  <2>1. IsFiniteSet(Failed)
    <3>1. DOMAIN log = 1 .. Len(log) /\ Len(log) \in Nat /\ Failed \in SUBSET DOMAIN log
      BY <1>1, LogTypes DEF Failed
    <3>2. IsFiniteSet(DOMAIN log)
      BY <3>1, FS_Interval
    <3> QED
      BY <3>1, <3>2, FS_Subset
  <2>2. Failed = {}
    BY <1>4, <1>5, <2>1, FS_EmptySet
  <2> QED
    BY <1>5, <2>2 DEF Failed
<1>6. ASSUME \A i \in DOMAIN log : log[i].ok
      PROVE  /\ M.count = 0 /\ M.nsuccess = M.ntest
             /\ \A f \in DOMAIN M.list : \A t \in DOMAIN M.list[f].tests :
                    \E i \in DOMAIN log : IsCall(i, f, "test") /\ log[i].ti = t
  <2>1. Failed = {}
    BY <1>6 DEF Failed
  <2>2. M.count = 0
    BY <1>4, <2>1, FS_EmptySet
  <2>3. \A x \in AllTests : x[1] < M.fi
    <3>1. DOMAIN M.list = 1 .. Len(M.list) /\ M.fi \in Nat /\ Len(M.list) \in Nat
      BY <1>1, LogTypes
    <3> QED
      BY <1>1, <1>2, <3>1, TestOf
  <2>4. ASSUME NEW x \in AllTests PROVE Called(x)
    <3>1. Judged(x)
      BY <1>1, <2>3, BehindJudged
    <3> QED
      BY <2>1, <3>1 DEF Judged, HookFailed
  <2>5. ASSUME NEW x \in AllTests PROVE PassedTest(x)
    BY <1>6, <2>4 DEF Called, IsCall, PassedTest, Passed
  <2>6. Of("passed") = AllTests
    BY <2>4, <2>5, VerdictOf DEF Of
  <2>7. Cardinality(AllTests) = M.nsuccess
    <3>1. Passed \in SUBSET DOMAIN log /\ \A i \in Passed : log[i].stage = "test"
      BY DEF Passed
    <3> QED
      BY <1>1, <1>4, <2>6, <3>1, TestsOfCalls, VerdictsOfCalls
  <2>8. Visited = AllTests
    BY <2>3 DEF Visited
  <2>9. Cardinality(AllTests) = M.ntest
    BY <1>1, <2>8 DEF TallyInv
  <2>10. ASSUME NEW f \in DOMAIN M.list, NEW t \in DOMAIN M.list[f].tests
         PROVE  \E i \in DOMAIN log : IsCall(i, f, "test") /\ log[i].ti = t
    <3>1. <<f, t>> \in AllTests
      BY DEF AllTests
    <3> QED
      BY <2>4, <3>1 DEF Called
  <2> QED
    BY <2>2, <2>7, <2>9, <2>10
<1> QED
  BY <1>3, <1>5, <1>6
===============================================================================
