# A TLA+ development of lua-testcase

`testcase` is a command that finds Lua test files, loads them, runs the test
functions they register, and reports. It comes with a set of small C modules
for test code (`fork`, `socketpair`, `timer`, signals, limits). This directory
models the parts of it that keep state or depend on an order of events, checks
them with TLC, and proves the main facts of the runner, the command, the file
search, the output hook, process objects, sockets, descriptors and the
functions without state with TLAPS.

Line numbers refer to this commit; `lib/` is the Lua code, `src/` the C code,
`bin/testcase.lua` the command. `PROJECT.json` has the map from every
definition to its lines, the runs, the hazards and the disagreements found.

## The system

| Component | State | Operations | What makes it correct |
|---|---|---|---|
| runner (`lib/runner.lua`) | `DO_NOT_RUN`, `PID`, the locals of `run`, `run_file`, `call` | `block`, `unblock`, `run` | hooks called in the documented order; figures and errors those of the calls; each function in its file's directory; children of user code never report |
| registration (`lib/registry.lua`, `lib/testcase.lua`) | `REGISTRY` | `add`, `getlist`, `clear` | each registered function once in the list, in its file, in order |
| command (`bin/testcase.lua`) | the lists of files, load errors and results | its main block | the exit status says what a user takes it for |
| file search (`lib/filesystem.lua`, `readdir.c`, `stat.c`, `realpath.c`) | `CWD`, the list being built | `getfiles`, `getstat`, `chdir` | the asked files, each once; an end |
| evaluation (`lib/eval.lua`) | the parser's `ctx` | `eval` | files marked by the inline option are run, others are not |
| output hook (`lib/iohook.lua`) | the globals, three functions, two flags | `hook`, `unhook`, `block`, `unblock`, the writers | output of a call complete and between its marks; nothing left behind |
| process objects (`src/fork.c`, `src/nosigchld.c`, `src/signal.c`) | a `pid_t` per object; the SIGCHLD disposition and its saved copy | `fork`, `wait`, finalizer; `kill`, `raise`, `sigignore`, `sigdefault`, `nosigchld` | stands for its own child, kills children only, leaves none behind |
| timer (`src/timer.c`) | `total`, `start` | `start`, `stop`, `reset`, `total` | the total is the sum of the intervals |
| socket pairs (`src/socketpair.c`) | a descriptor per object | read, write, shutdown, close, options, finalizer | works on its own socket; end of stream told apart from no data |
| descriptor helpers (`src/close.c`, `src/shutdown.c`, `src/fstat.c`) | the descriptor table of the process | by number or file handle | no leak; limited damage to the owners of numbers closed behind their back |
| option parser (`lib/getopts.lua`) | none | `getopts` | every pathname, flag and test name kept, in order |
| signal names (`src/signal.c`) | a table | `tosigname`, `tosignum`, `signames` | primary names first, both ways alike |
| resource limits (`src/rlimit.c`) | two limits in the kernel | `rlimit` | all or nothing; what was shown can be given back |
| select (`src/select.c`), `stat` and `fstat` | none | | right at the edges; agree with each other |
| printer, protected call, nosigpipe | little or none | | see *Not modelled* |

How they interact. The main block blocks the runner, evaluates each file, and
the files assign functions to the table of `lib/testcase.lua`, whose
`__newindex` calls `registry.add`. `registry.getlist` makes the list that
`runner.run` visits. For each function `call` reads the working directory,
forces a garbage collection (which runs the finalizers of process objects and
sockets), hooks the output, starts the timer, calls the function under
`xpcall`, and undoes all of that. `call` is where the hard behaviour is: the
function may fork, so that two processes come back from `xpcall`; it may leave
or remove its directory; it may keep the replaced writers; it may raise an
error. `os.exit` raises an error too, because `lib/exit.lua` replaces it.

What is hard to test is listed in `PROJECT.json` under `hazards`, each at its
line with the properties that cover it.

## Modules

| Module | Models | Composed with |
|---|---|---|
| `TestReport` | what `run()` promises: one verdict per test, in order, and figures that are those of the verdicts | implemented by `Runner` |
| `Runner` | `lib/runner.lua` over several processes | instance of `TestReport` |
| `RunnerProofs` | theorems about `Runner`, and lemmas about `Selected` | extended by `ReportProofs` |
| `ReportProofs` | theorems about the calls of `Runner`: their order, the report, the error lists | an instance in `CommandProofs` |
| `Loader` | `loadfiles()`, the end of `eval()`, `registry.add`, `registry.getlist` | an instance in `Command` |
| `Command` | the main block from `runner.block()` to the exit | instances of `Loader` and `Runner` |
| `CommandProofs` | theorems about `Command`, and about `Loader` in it | |
| `Finder` | `get_pathnames`, `get_files`, `getfiles`, `walkdir`, `trim_cwd` | |
| `FinderProofs` | theorems about `Finder`, and lemmas about pathnames and what is below a directory | |
| `IOHook` | `lib/iohook.lua`, and user code that writes | extended by `Call` |
| `Timer` | `src/timer.c` | an instance in `Call` |
| `Call` | the four steps of `call()` around a user function | `IOHook` and `Timer` |
| `CallProofs` | theorems about `Call` and `IOHook` | |
| `Process` | `src/fork.c`, `src/nosigchld.c` and the calls of `src/signal.c` over a process table | |
| `ProcessProofs` | theorems about `Process` | |
| `SocketPair` | `src/socketpair.c` and `src/shutdown.c` over a descriptor table | extended by `Descriptors` |
| `Descriptors` | `src/close.c`, the descriptor of `src/fstat.c`, file handles, and the sockets | `SocketPair` |
| `DescriptorsProofs` | theorems about `SocketPair`, then about `Descriptors` | |
| `GetOpts` | `getopts` and `parse_testcase` | extended by `Helpers` |
| `Inline` | `checkline`, `parse_inlineopt`, and what `eval` does with the result | extended by `Helpers` |
| `Select` | `src/select.c` | extended by `Helpers` |
| `SignalNames` | the table of `src/signal.c` and its three lookups | extended by `Helpers` |
| `RLimit` | `src/rlimit.c` | extended by `Helpers` |
| `FileStat` | what `src/stat.c` and `src/fstat.c` tell of a pathname | extended by `Helpers` |
| `Helpers` | one question to one of these functions | |
| `HelpersProofs` | theorems about `Helpers` | |

`MCRunner`, `MCCommand` and `MCFinder` hold the values of
constants that a `.cfg` cannot write; the other modules are checked directly.
Operators named `X_word` next to an operator `X` and marked *mutant* are
plausible mistakes in `X`. `PROJECT.json` names the property that each of them
breaks; the specifications do not use them.

### Runner

`mem[p]` is the memory of process `p`: `stage` is the place `run_file()` has
come to (`before_all`, `before_each`, `test`, `after_each`, `after_all`,
`tally`), `infn` says whether the user function of that stage is running
inside `xpcall`. `Settle` is what `run_file()` does with an outcome: the next
stage, the count, the error list. `BeginCall` is `call()` up to `xpcall`,
`EndCall` the rest of it, with the three ways out: a forked child exits
(lines 62-64), the assert fails (67-68), the outcome is recorded. `NextFile`
is lines 301-308, `Tally` 310-318, `ReturnRun` 320-329. `SkipHook` and
`LeaveLoop` are the steps of `run_file()` that call nothing. User code acts
through `UserChdir`, `UserRmdir` and `UserFork`, only inside a function or
while files are being loaded (stage `idle`, where `run()` may also be called
by a test file). A fork copies `mem[p]`, so a child born inside a function
comes back from `xpcall` like its parent. `log` is a history variable and
nothing reads it but the properties.

The selection of tests by name is `Selected`: `Kept` is what both of its loops
do, which keep the elements of a list that are in a set. Its order of names and
the messages are left out. Lists of names are sets, because `getopts` leaves out
names given again (`GetOpts!AddCase`).

### Loader and Command

A function is the file and line it is *defined* at (`debug.getinfo`); the
constant `Resolve` says what a pathname leads to from each directory, since
`getstat` resolves it against the directory of the moment. Files are numbered
in the order of their names. `Listings` leaves open the order of tests defined
on one line, because `table.sort` is not stable and `pairs` has no order.
`Command` takes `Loader` and `Runner` as instances with their own variables
and no forks; `FileRuns` is a test file that calls `runner.run()` while it is
being loaded (with an empty list: a list the file makes up itself is no
different to the properties). Everything `Loader` promises is checked in
`Command`, where the files may fail and the runner is at hand; registration
stops at `MaxFuncs` functions. `status` 255 is `exit(-1)`, 1 an error that
reaches the interpreter.

### Finder

Pathnames are sequences of symbols, because `trim_cwd()` compares prefixes of
strings: `T` stands for the suffix `_test.lua`, `L` for any other `.lua`.
`Hops` follows the links of a pathname from left to right, one after the other;
`Follow` is where it stands after `MaxLinks` of them, and a link that is left
then is the kernel's ELOOP. `TreeAssumption` says what a file system is: a tree
of real pathnames, without `//` or a slash at the end, and links that lead to
real pathnames. The root is not in the model, and a link whose target is itself
reached through links is given by the real pathname it ends at.
`DirsFrom` is a directory and all below it, through links too, as the smallest
set that is closed under `Subdirs`; `ExactlyTheAsked` and `Circular` are stated
with it, and not with the recursion of `walkdir`. `walk` is the stack of the recursion of `walkdir`: the
directory being read first, then those still to come. `found` is a set: the
order of the list (`sort`) matters to no property and is left open. `Vanish`
is another process that removes a file or an empty directory at any moment.

### IOHook, Timer and Call

`global` is what `print` and `io.stdout` are, `fns` whose functions are set.
User code may keep a writer, replace the globals, block and unblock, and hook
and unhook by itself; `nested` remembers the last, because the output of such
a call is its own affair. `shown` is what the functions of `call()` print.
`Timer` is a counter of ticks and the two fields of the object. In `Call` the
steps of `lib/runner.lua:55-59` follow each other, time may pass in every one
of them, and user code may run at any moment: a finalizer runs where the Lua
code allocates, and a test file runs between calls. `spent` is the time that
passed inside user functions.

### Process

The kernel part (marked external) has processes that run, are stopped, are
about to die of SIGKILL, are zombies, or are gone; children of a process that
ends are given to a parent that waits for them at once. Where SIGCHLD is
ignored an ended child is gone at once, and a wait for it ends with ECHILD. An
object is known by the call of `fork()` that made it, and each process has its
own copy of it in `objs[p][h]`: 0 in the child, the pid in the parent, minus
the pid after `wait`. `Wait` is `wait_lua` when `waitpid` reports something;
`GcKills` the finalizer of an object whose child lives, with `GcWaited` and
`GcInterrupted` the two ways its second `waitpid` ends; `GcReaps` the
finalizer when `waitpid(WNOHANG)` is not 0; `GcInChild` the `exit(0)` of a
child. `chld` is the disposition of SIGCHLD, `saved` what `nosigchld()` keeps;
`SigIgnore` and `SigDefault` change the first and not the second. The handler
has no SA_RESTART, so that a signal ends a `waitpid` with EINTR. `SendStop`,
`SendCont`, `SendKill` and `SendChld` are `kill()` and `raise()`, from any
process. Forks are numbered in the order they are made; `left`, `stray` and
`ignored` are history.

### SocketPair and Descriptors

New sockets and files take the lowest free descriptors, as the kernel gives
them, so that closed numbers come back. Data is counted in chunks, numbered per
writer; buffer sizes too. `table` says what a number stands for; an object
works on whatever its number stands for, and so do the functions that take a
number (`ShutdownFd`, `CloseRaw`). `Descriptors` leaves out the data and adds
who else has numbers: the handles of `io.open()`, which close their number
once, and `fstat()` between its `open(2)` and its `close(2)`. `raw` counts what
`testcase.close()` closed. A handle that was closed may give it any number
(`CloseFileRaw`): since Lua 5.2 the `FILE` pointer stays in the handle, and
`fileno()` reads freed memory.

### The functions without state

`Helpers` has one variable, the question, and a step that keeps it: the
initial states are all inputs within the bounds, and an invariant compares the
function with a definition of its own. The loops are recursive functions, so that
they can be proved about. In `GetOpts` an argument is known by its
kind, and the value of `--testcase` by what stands between its commas (that
names and pathnames keep their order is `HasInOrder`, which counts positions); in
`Inline` a line by what the two patterns see in it; in `SignalNames` a name is
all its spellings in upper and lower case, and the table is that of Linux and
macOS. `RLimit` has the two refusals of `setrlimit(2)`: a soft limit above the
hard one, and a hard limit raised without privilege. `FileStat` has trees whose names are files, links to names, or nothing.

## Runs

Each run finishes within two minutes on two cores.

| Run | Question | Bounds |
|---|---|---|
| `runner` | hooks in order, figures and errors right, no test forgotten, `Runner` implements `TestReport`, by which `run()` ends | all 16 sets of hooks with 0, 1 and 2 tests, two-file lists, the empty list; every outcome of every call; with and without selected names; one directory may be removed |
| `runner_fork` | children never carry on, own directory, abort only for a lost directory | two children, which may fork each other, two removable directories, a file with a hook and a test |
| `command` | list complete and ordered, each name once in a file, exit status sound, failures have causes, load errors shown, no run while loading, the command ends | two files, a hook and a test name, two lines, three functions, a second directory where one file is hidden and which may be removed, with and without selection |
| `call` | output between marks and complete, nothing left behind, total time that of the functions | three lines per call, four ticks; calls without bound |
| `process` | finalizers kill only children of their own process, an object of the first process stands for its own child, a negative pid means gone, a collected object leaves no child unless the wait was interrupted, the wait ends | two forks by any process, two ids, so that an id is given again while an old copy is held; the first process changes its SIGCHLD disposition |
| `finder` | the asked files, each once, failures with a cause, an end | a tree with links to a file, to a directory and to the directory above, dotfiles, overlapping arguments, three things that may vanish; three links per pathname, one more than the links to directories |
| `helpers` | the functions without state, against definitions of their own | argument lists, `--testcase` values and texts of a few elements, indexes on both sides of the arguments, every signal name on both platforms, limits up to a small infinity, every tree of three names |
| `socketpair` | own socket, streams do not mix, end of stream told apart from no data | two pairs over three descriptors, so that the second takes those of the first; one chunk per side, both halves of a shutdown by object and by number, non-blocking sockets |
| `descriptors` | nothing leaks, numbers closed behind their owner stay as few as they were | two pairs, two file handles and `fstat()` over four descriptors, two numbers closed by `testcase.close()` |
| `process_eintr`, `finder_side`, `socketpair_sendbuf` | see *Disagreements* | as `process`, two directories, one pair |

Bounds are as large as an error needs and one more: two files show what leaks
from one to the next; two tests show a loop left early; an id or a descriptor
used again needs one more fork or pair than there are ids or descriptors. Three
links per pathname make the circle of links end after three rounds as the
kernel's forty do after forty. The list of calls in `Runner` is bounded by the
list of files itself and its loops need no further bound. In `socketpair` all
sockets are non-blocking: a blocking read of an empty socket is no step, and
the error of a confusion shows in non-blocking mode.

`CHECK_DEADLOCK FALSE` stands in the runs of `Process`, `SocketPair` and
`Descriptors`, where
everything made may have been collected and nothing is left to do.

### Fairness

`Runner!FairSpec` assumes that the runner takes its next step and that a user
function that was called returns or raises an error; forks and directory
changes have no fairness. The runner is one thread without waits of its own,
so it does go on unless the user function does not return, which no runner can
promise. `Command!FairSpec` assumes the same of the main block and that a file
that is being loaded ends. `Process!FairSpec` assumes that SIGKILL takes
effect, on a stopped process too, and that a `waitpid` whose child has ended
returns: both are the kernel's. Nothing is assumed of user code there.
`Finder!FairSpec` assumes that the search goes on.

### Disagreements between the code and its documentation

Three runs end in a violation. Each checks a sentence of the README against
what the code does; `PROJECT.json` quotes both.

| Run | What happens |
|---|---|
| `process_eintr` | the finalizer ignores EINTR of its second `waitpid`, a zombie stays |
| `finder_side` | working directory `/b`, argument `/bc`: `c/aT` is run in place of `/bc/aT` |
| `socketpair_sendbuf` | `sendbuf()` works on SO_RCVBUF |

Further ones show in the models, or were met while writing them, but have no
run:

- A hook that was defined in another file is filed under that file
  (`lib/registry.lua:116`); `README.md:69-70` says hooks are enabled only in
  the file that sets them. `Loader!Register` does what the code does.
- `pid()` is positive from the exit of the child until `wait()`
  (`src/fork.c:63`); `README.md:223` says it is negative after the exit.
  `NegativeMeansGone` states the direction that holds.
- A forked child holds copies of its parent's objects; when the id of one is
  given to a child of its own, the finalizer of the copy kills that child
  (`src/fork.c:115`). `KillsOnlyItsChildren` is what remains true.
- A pathname removed after `realpath` makes `getfiles()` return nil
  (`lib/filesystem.lua:104`) although line 90 promises a table; the command
  ends with a Lua error (`Finder`, stage `crashed`).
- Code behind the placeholder of the inline option, in its line, is dropped
  with it (`lib/eval.lua:66`); `README.md:926` speaks of replacing the
  placeholder. The line `placeholder_code` of `Inline` is such a line.
- The time since the last `stop()` counts when `stop()` is called twice, since
  it moves the start (`src/timer.c:161`); `README.md:840` says it is the time
  since the last `start()`.
- `nosigchld(true)` after `sigdefault` or `sigignore` returns true although its
  handler is not installed (`src/nosigchld.c:55`; `Process!NoSigChldOn`).
- From Lua 5.2 on, `testcase.close` and `testcase.shutdown` of a file handle
  that was closed take the number out of freed memory (`src/close.c:50`;
  `Descriptors!CloseFileRaw`).
- `fstat(path, false)` of a symbolic link fails with ELOOP, because of
  O_NOFOLLOW (`src/fstat.c:59`); `README.md:270` calls it equivalent to
  `lstat(2)` and `README.md:295` lists the type "symlink" (`FileStat`).
- `stop()` without `start()` adds time that is in no interval
  (`src/timer.c:159`; `README.md:881`). `call()` never does so.

## Proofs

In every module, the theorems are about all values of the constants that
satisfy the named `ASSUME`s of the modules it is about, and those say no more
than that a constant is of its type, but where it is mentioned here.

`RunnerProofs` proves five properties of `Runner` for all files, names,
directories, children and outcomes. The assumptions are those named in
`Runner`: the first process is none of the children, the root is a directory
that is not removed, and the lists are sequences of well-formed files. That
what is selected of a list is such a list, has the named tests of its files and
no others and loses none of them (`SelectedOK`, `SelectedHas`) follows by
induction over the list. The library's induction theorems take an operator
that the provers here cannot instantiate; `NatInd` states induction for a *set*
of numbers instead, from the well-foundedness of `<`, and `RoundsExist` shows
that the recursive function of `Kept` exists.

- `TypeCorrect`: `TypeInv`, that is `TypeOK` with `Located`: at a stage of a
  file the position is one of the list, at a test stage the position is one of
  the tests, and inside a function there is one to be called. `TypeOK` alone
  is not inductive: that `Src(m).tests[m.ti]` is a name needs the positions.
- `AccountingHolds`: `CountInv` adds that nothing is recorded before a run
  begins, since `RunStart` sets the figures to 0. Appending a call to `log`
  adds one to the size of `Passed` or `Failed` (`CountAppend`, from the
  library's facts on finite sets), and `Settle` adds one to `n` or `errs`.
- `OwnDirectoryHolds` and `AbortOnlyOnLostDirHolds`: `DirInv` follows the
  directory around a call: outside functions the runner is in the directory of
  its file, inside one that directory is in `saved`, whatever the function
  does with the current one; recorded calls belong to files of the list.
- `ChildReportsNothingHolds`: `ChildInv`: a process other than the first is
  inside the function it was forked in, and then exits when it returns, or has
  called nothing (`Quiet`: all figures are 0 and it visits files without
  tests and hooks that would be called).

Each proof has a lemma for the step, split by the actions of `Next`, and the
type invariant is used by the others through its named parts.

`ReportProofs` proves `HookProtocol` and `NoTestForgotten` from the same
assumptions. Both speak of the log alone, so that neither is inductive:
whether the next call is allowed depends on where `run_file()` stands.
`MainSteps` reduces every step to one of eight that matter to the log, and
`HistInv` ties the log to the stage:

- `PastCalls`: what was called is behind the stage, and a failure has taken
  the stage where it takes it; a test that was called is not called again;
- `SetUp` and `TornDown`: `before_all` was called, `before_each` of the test
  that comes next succeeded, and every test but perhaps the last is followed
  by its `after_each`;
- `Progress` and `Closing`: without a failed hook every test behind the stage
  was called, and at the end `after_all` was called or `before_all` failed;
- `Settled`: the same of the files behind, which is what `NoTestForgotten`
  says once no file is left.

Then it proves the safety part of the refinement, `Report!Steps`: the
initial state is one of `TestReport`, and every step of `Runner` is one of its
actions or leaves the view unchanged. The view is that of the mapping in
`Runner`: `Phase` is where the run stands, `Verdict` what the log says of each
test, `Figures` what was returned. It rests on `HistInv`, with one lemma for
each of the eight forms of a step:

- a recorded test gives the first test without a verdict its own
  (`NextJudged`, `ReportTest`), and a failed hook the tests of its file that
  were not called, and no others (`ReportHook`);
- the step that returns shows the right figures (`ReportReturns`). `TallyInv`
  says that `n` and `errs` are empty between two files, that `ntest` counts the
  tests of the files visited, and that a recorded test is one of the list. Since
  no test is called twice (`CalledOnce`), the calls that passed and the tests
  with the verdict "passed" are equally many (`VerdictsOfCalls`), and so are
  the tests of the list and those visited.

Last in `ReportProofs` is `ErrorsByFile`: the error lists are the names of the
calls that failed, file by file. `NamesOf` keeps the failed calls of a file
from the log; `KeptAppend` says what that gives when a call is appended, by the
same induction. `ErrorsByFile` says what `errs` is while a file is run, and
`ErrInv` adds that it is empty between files; that the names of a file do not
change once it is left, and that a file ahead has none (`NamesAhead`), is taken
from `HistInv`.

`CommandProofs` is about any files, names, lines, directories and number of
functions, from `LoaderAssumption` (a pathname leads to its own file in
the directory the command was started in) and `RunnerAssumption` (directories
and names are such; the root is not removed). `Registered` says that the registry
is finite and has a name of a file once; `ListingOf` and `GetListOK` show that
`getlist()` makes a complete list of such a registry, from what the library
says of injections between finite sets of the same size, since `SetToSeqs`
lists each element once. `MainInv` adds to it that before `run()` the memory of
the runner is as it was made, but for the flag of `block()` and the answer
"blocked" (`BeforeRun`); that the flag is set while files are loaded refuses
every `run()` of theirs.

The exit status needs what holds of the runner. `RP` is `ReportProofs` as an
instance with the variables of this runner, no children and every list of files
for `Lists`; each step of the command is a step of that runner or leaves it
alone (`RPIdle`, `RPRunning`), so that `RunInv`, which joins the invariants of
`RunnerProofs` and `ReportProofs`, holds here (`RPNext`). `ReportTells` draws
from it what the returned figures mean. `EndInv` follows the command: once it
is past the loading the list is made and stays (`listed`), while it runs the
runner works on the selected part of that list (`Chosen`), and a status is
there only at the end. `InRunList` and `InChosen` lead from a registered test
to its place in the list and in what was selected of it, `Told` from a place to
the recorded call. `ReportOK` is the step that sets the status, and
`ExitZeroSound` and `FailureHasCause` are conjuncts of the invariant, since
nothing after the exit changes what they speak of. They know a call by the
directory of its file and its name; that tests of one name in two files of one
directory are both called is `NoTestForgotten` of the runner.

`FinderProofs` proves `EachOnce` in any tree with any links, arguments and
removals: `get_files()` looks a real pathname up before it appends it, and the
list is otherwise left alone. The other two safety properties need hypotheses
about the tree, and the theorems name them. `NothingBeside`: nothing beside the
working directory has a name that begins with its name. Without it `trim_cwd()`
takes such a directory for one in the working directory, and `finder_side`
shows what comes of it. `FewLinks`, for `FailureHasCauseHolds` alone: fewer
links lead to directories than the kernel follows in one pathname; with more of
them a tree without any circle can have a pathname that ends in ELOOP. Both are
stated in `Finder`, and an assumption of `MCFinder` says that they hold of the
tree of the run `finder`. The arguments of the proofs:

- *Pathnames.* `Leads(w, d, k)` says that k links lead from a pathname w, and
  from anything looked up in it, to d. An entry that is no link keeps k, one
  that is adds 1 (`EntryLeads`), so that the pathname `walkdir()` puts together
  leads where the entry does (`EntryPath`). `TrimKeeps`: what `trim_cwd()`
  makes of a pathname leads to the same place, which takes `NothingBeside`.
- *What is asked for.* `AskedFirst` turns the closure of `Below` into the
  recursion of `walkdir()`: a file asked for with a directory is an entry of it
  or asked for with one of its subdirectories. `GoneAsked`: what vanishes is
  empty, so that nothing else that exists is asked for more or less than before.
- *Nothing else* (`SoundInv`): what is found or taken and still exists was
  asked for, and a directory that waits and still exists is one the arguments
  lead to. *Everything* (`CompleteInv`): a file that is asked for is taken, or
  found, or still ahead: in an argument, in a pathname, in a directory that
  waits or in an entry that `readdir()` has still to report. At the end nothing
  is ahead, and `ExactlyTheAskedHolds` follows.
- *Causes* (`BudgetInv`): as long as there is no cause to fail, the links in the
  pathname of a directory that waits are different ones, since each leads to a
  directory the present one is below of; the same link twice would be a circle
  (`BudgetChild`). There are at most as many as links to directories, so that
  one more can still be followed, and `CauseInv` says that the search has not
  failed.

`HelpersProofs` is about arguments, texts and values of any length, indexes and
limits of any size, and trees of any finite number of names.

- `ArgumentsKept`: `OptsSay` says what the loop of `getopts()` has made of the
  first n arguments, `NamesSay` the same of `parse_testcase()`, and each is
  kept by one more element (`OptsNext`, `NamesNext`). `OneMoreInOrder` is the
  reason for the order: an element appended at a new position is as far behind
  the first as the set of positions has grown. `LoopExists` gives the recursive
  function of a loop whose step keeps a type.
- `RunsOnlyMarked`: `Says` is what the context of `checkline()` tells of the
  first n lines: an error means that an option was invalid, given again behind
  a true one, or not followed by the placeholder (`Spoilt`); otherwise no line
  was true (`Unmarked`) or exactly one (`Marked`), with the placeholder next.
- `LimitsRestored` and `HeadAndTail` follow by cases from the definitions, and
  `FstatAgrees` from `NoLink`: a name that is not a link is followed to itself.

`ProcessProofs` proves the five invariants of `Process` for any pids,
any processes that change their signals and any number of forks, from
`PidAssumption` alone: pids are numbers above 1, and the first process is none
that `fork()` gives. `IInv` strengthens them by

- `Family`: the first process runs, and a process that is a parent or waits has
  not ended;
- `Numbered`: nothing was made by a call of `fork()` that is still to come;
- `Held`: in the parent of a process the object of its `fork()` has its pid, or
  it is what a finalizer waits for, or was given up by one. `CollectedIsGone`
  follows from it, and so does that `Wait` and the finalizers leave no other
  object with the pid of a process they take from the kernel;
- `MainHolds`: no object of the first process has 0, nor the pid its finalizer
  waits for, unless SIGCHLD has been ignored;
- `Kept`: as long as it has not, neither the disposition nor what `nosigchld()`
  saved is "ignore".

There is one lemma per operation. `DieOK` is about every way to end,
`Relabelled` about every change of a state that leaves the family alone,
`FinalizerOK` about the two finalizers that take a child from the kernel.
`ParentWaits`, which the code does not keep, is what would follow from `Held`
without its last alternative.

`CallProofs` is about any number of lines, calls and ticks. `HookInv` holds of
everything that uses the hook; beside the properties it says when output is
open (`Opened`: in a call that did not hook by itself, the hook's flag is set
exactly when something was shown) and that a call wrote no more than was
written (`Counted`). The four steps of `call()` are steps of `IOHook` or leave
it alone (`CallImplementsHook`), so that `Bracketed`, `LinesShown` and
`CallLeavesNothing` follow. `TimeInv` follows the start of the interval behind
the clock, and the total behind the start; `TotalIsCallTime` is inductive with
these bounds.

`DescriptorsProofs` begins with `SocketPair`, for any number of pairs,
descriptors, chunks and sizes. `OwnInv` says that every open number is that in the object of its
socket (`Owned`), that every object alive with a number has its own (`Owns`),
and that both objects of a pair are made together (`Paired`). `OwnSocket`
follows, and so does that every operation works on the socket of its object
(`WorksOnOwn`), on which `DataInv` rests: what was read from a socket, with
what waits there behind it, is what the peer wrote (`InOrder`), nothing is
missing as long as the socket is open (`Complete`), and where the end was read
nothing waits and nothing can come (`Over`, for `EofIsTheEnd`).

In `Descriptors` an object or a handle may have a number that is not its own,
so that `Owns` does not hold; `DInv` keeps the direction that does, from the
number to its owner (`Owned`, `Filed`, `Probed`), and `NoLeak` follows. For
`StrayBounded` the sets of strays are compared from step to step. New numbers
make nobody a stray (`Given`), since only free ones are given. A number that
is closed makes at most its owner one (`Robbed`). When a stray closes, it stops
to be one (`Replaced`); when an owner closes its own, nobody is robbed; and
`testcase.close()` counts in `raw`.

Only model-checked: liveness, which needs ENABLED (the `Ends` of `TestReport`
that the runner implements, `CommandEnds`, `FinalizerEnds`, `SearchEnds`);
and `NamesBothWays`, which is about one table: the run asks about every name on
both platforms, so that there is nothing left to prove. The type invariants of
`IOHook`, `Call`, `SocketPair` and `Descriptors` are proved and checked by no
run.

## Not modelled

- `lib/printer.lua`: the layout of the output, without state. `src/xpcall.c`:
  its outcomes are a parameter.
- `src/nosigpipe.c` ignores SIGPIPE when it is loaded. In `SocketPair` a write
  to a broken socket is an error, as it is then; without the module it ends the
  process.
- `alarm` of `src/signal.c`, the names of the resources in `src/rlimit.c`, and
  a `getrlimit(2)` that fails or shows limits the kernel clamped.
- Of the modelled files: a clock or a `fork()` that fails, errors of system
  calls other than those named, ECONNRESET of a socket whose peer closed with
  unread data, memory errors, the text of messages (the unit a time is shown in
  among them), the functions `clear`, `reset`, `elapsed` and the sleeps. User functions that never return or kill their process.

## Plan

1. Done: everything in *Modules*.
2. More of the system: `Process` under `Command`, for the children that live
   when the command leaves through `exit(-1)`; `getstat` and its `dirname`, in
   place of `Resolve`; `reset()` in `Timer`.
3. More proofs: that `Command` implements what the README says of the exit
   status as an abstract specification of its own; how long the walk of a
   circle can get, the bound behind `SearchEnds`.
