------------------------------- MODULE Helpers -------------------------------
(***************************************************************************)
(* The parts of the program that keep no state: the arguments of the       *)
(* command, the inline option, select, the signal names, resource limits   *)
(* and what a pathname is.  A state is one question to one of them.        *)
(***************************************************************************)
EXTENDS GetOpts, Inline, Select, SignalNames, RLimit, FileStat

CONSTANTS
    Words,      \* the names in the arguments
    MaxArgs,    \* the length of argument lists and of --testcase values
    MaxLines,   \* the length of texts
    MaxIndex    \* how far an index goes below zero and above the arguments

ASSUME BoundsAssumption ==
    /\ MaxArgs \in Nat /\ MaxLines \in Nat /\ MaxIndex \in Nat
    /\ "" \notin Words

VARIABLE ask    \* the function and its arguments

Values == SeqOf(Words \cup {""}, MaxArgs) \ {<< >>}
Arguments ==
    [kind : {"path"}, value : Words]
    \cup [kind : Flags \cup {"--unknown"}, value : {""}]
    \cup [kind : {"--testcase"}, value : Values]
LimitArg == {Absent, -1} \cup 0 .. Infinity - 1

Questions ==
    [fn : {"getopts"}, args : SeqOf(Arguments, MaxArgs)]
    \cup [fn : {"inline"}, text : SeqOf(TextLine, MaxLines)]
    \cup [fn : {"select"}, idx : -MaxIndex .. MaxArgs + MaxIndex, args : SeqOf(Words, MaxArgs)]
    \cup [fn : {"signal"}, on : Platform, name : SignalName]
    \cup {q \in [fn : {"rlimit"}, old : Limits, cur : LimitArg, max : LimitArg,
                 privileged : BOOLEAN] : q.cur # Absent \/ q.max # Absent}
    \cup [fn : {"stat"}, tree : Tree, name : Entry, follow : BOOLEAN]

Init == ask \in Questions
Next == UNCHANGED ask
Spec == Init /\ [][Next]_ask

-----------------------------------------------------------------------------
(* Properties.                                                             *)

\* Where the elements of a sequence occur first.
FirstOnly(s) == {i \in DOMAIN s : \A j \in 1 .. i - 1 : s[j] # s[i]}

\* The arguments of a kind, by their positions.
Given(args, kind) == {i \in DOMAIN args : args[i].kind = kind}

\* A sequence has what stands at some positions of s, in that order: the
\* element at a position i is as far behind the first as i is in P.
HasInOrder(q, s, P) ==
    /\ Len(q) = Cardinality(P)
    /\ \A i \in P : q[Cardinality({j \in P : j <= i})] = s[i]

(* The arguments are refused exactly when --testcase is given twice or a   *)
(* name in its value is empty, wherever it stands; otherwise every         *)
(* pathname is kept in its place among the pathnames, every flag counts,   *)
(* before or behind them, and every name of --testcase counts once, in the *)
(* order the names first occur (lib/getopts.lua:37-62, 68-105).            *)
ArgumentsKept ==
    ask.fn = "getopts" =>
        LET o == getopts(ask.args)
            value(i) == ask.args[i].value
            cases == Given(ask.args, "--testcase")
        IN  /\ o.ok <=> /\ \A i, j \in cases : i = j
                        /\ \A i \in cases : "" \notin ToSet(value(i))
            /\ o.ok =>
                   /\ HasInOrder(o.paths, [i \in DOMAIN ask.args |-> value(i)],
                                 Given(ask.args, "path"))
                   /\ o.flags = {f \in Flags : Given(ask.args, f) # {}}
                   /\ cases = {} => o.testcase = << >>
                   /\ \A i \in cases : HasInOrder(o.testcase, value(i), FirstOnly(value(i)))

\* The lines of the text that are the option with one of these values.
Options(values) == {i \in DOMAIN ask.text : ask.text[i] \in values}

(* A file is run as a test file exactly when the option is true once, the  *)
(* placeholder is in the next line and no other option follows; it is      *)
(* passed over exactly when no option is true or invalid                   *)
(* (README.md:924-926, lib/eval.lua:58-126).                               *)
RunsOnlyMarked ==
    ask.fn = "inline" =>
        LET outcome == Outcome(parse_inlineopt(ask.text)) IN
        /\ outcome = "run" <=>
               /\ Options({"invalid"}) = {}
               /\ \E i \in Options({"true"}) :
                      /\ i + 1 \in DOMAIN ask.text
                      /\ IsPlaceholder(ask.text[i + 1])
                      /\ \A j \in Options({"true", "false"}) :
                             j # i => j < i /\ ask.text[j] = "false"
        /\ outcome = "skipped" <=> Options({"true", "invalid"}) = {}

(* head(n, ...) and tail(n + 1, ...) cut a list of arguments in two: what  *)
(* one leaves out the other returns, for an index before the first, in or  *)
(* behind the arguments (src/select.c:31-59).                              *)
HeadAndTail ==
    ask.fn = "select" =>
        /\ head_lua(ask.idx, ask.args) \o tail_lua(ask.idx + 1, ask.args) = ask.args
        /\ len_lua(tail_lua(ask.idx, ask.args)) <= len_lua(ask.args)

\* What the comments of the table say an alias stands for.
Primary(on, name) ==
    CASE name = "SIGIOT" -> "SIGABRT"
      [] name = "SIGCLD" -> "SIGCHLD"
      [] name = "SIGIO" /\ on = "Linux" -> "SIGPOLL"
      [] OTHER -> name

(* "Canonical signals must come before their aliases so that tosigname()   *)
(* returns the primary name" (src/signal.c:38-39): on both platforms a     *)
(* name that is known leads to its number and back to its primary name,    *)
(* and signames() lists it under that number, once, behind its primary     *)
(* name and with nothing that has another number                           *)
(* (src/signal.c:40-224, 284-311, 365-414).                                *)
NamesBothWays ==
    ask.fn = "signal" =>
        LET num == tosignum(ask.on, ask.name)
            names == signames(ask.on, num)
        IN  num # 0 =>
                /\ tosigname(ask.on, num) = Primary(ask.on, ask.name)
                /\ names[1] = Primary(ask.on, ask.name)
                /\ Cardinality({i \in DOMAIN names : names[i] = ask.name}) = 1
                /\ \A i \in DOMAIN names : tosignum(ask.on, names[i]) = num

(* A call that returns an error has changed neither limit; one that        *)
(* returns none has set what it was given and left what it was not.  Then  *)
(* the limits it shows can be given back: the soft limit is restored       *)
(* unless the hard limit was lowered below it, and infinity, which is      *)
(* shown as -1, is no exception                                            *)
(* (src/rlimit.c:153-180, 182-217, 247-255).                               *)
LimitsRestored ==
    ask.fn = "rlimit" =>
        LET new == NewLimits(ask.old, ask.cur, ask.max, ask.privileged)
            back == NewLimits(new, Shown(ask.old.cur), Absent, FALSE)
            setTo(arg, old) == IF arg = Absent THEN Shown(old) ELSE arg
        IN  /\ IF Fails(ask.old, ask.cur, ask.max, ask.privileged) THEN new = ask.old
               ELSE /\ Shown(new.cur) = setTo(ask.cur, ask.old.cur)
                    /\ Shown(new.max) = setTo(ask.max, ask.old.max)
            /\ new.max >= ask.old.cur => back = [new EXCEPT !.cur = ask.old.cur]

(* "Unlike `testcase.fstat`, this calls `stat(2)` / `lstat(2)` directly     *)
(* instead of `open(2)` + `fstat(2)`, so it also succeeds on unix domain    *)
(* sockets" (README.md:308): what fstat() tells is what stat() tells with   *)
(* the same option, and it tells nothing only where stat() does not either, *)
(* of a socket, and of a link that it must not follow (src/stat.c:46-67,    *)
(* src/fstat.c:55-77).                                                      *)
FstatAgrees ==
    ask.fn = "stat" =>
        LET s == stat_lua(ask.tree, ask.name, ask.follow)
            f == fstat_lua(ask.tree, ask.name, ask.follow)
        IN  IF IsError(f)
            THEN IsError(s) \/ s = "socket" \/ (s = "symlink" /\ ~ask.follow)
            ELSE f = s
=============================================================================
