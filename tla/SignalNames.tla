----------------------------- MODULE SignalNames -----------------------------
(***************************************************************************)
(* src/signal.c: the table of signals and the functions that look into it. *)
(* A number has one name that comes first, and aliases behind it.  Names   *)
(* are compared without regard to case: a name here is all its spellings.  *)
(***************************************************************************)
EXTENDS Integers, Sequences, SequencesExt

Platform == {"Linux", "macOS"}
Nil == "nil"

\* A row of the table: the name and its number on both platforms, 0 where the
\* macro is undefined.  (macOS has SIGPOLL only where it hides SIGEMT.)
Row(name, linux, macos) == [name |-> name, num |-> [Linux |-> linux, macOS |-> macos]]

Aliases ==
    <<Row("SIGIOT", 6, 6), Row("SIGCLD", 17, 0), Row("SIGIO", 29, 23)>>

Primaries ==
    <<Row("SIGHUP", 1, 1), Row("SIGINT", 2, 2), Row("SIGQUIT", 3, 3),
      Row("SIGILL", 4, 4), Row("SIGTRAP", 5, 5), Row("SIGABRT", 6, 6),
      Row("SIGFPE", 8, 8), Row("SIGKILL", 9, 9), Row("SIGSEGV", 11, 11),
      Row("SIGPIPE", 13, 13), Row("SIGALRM", 14, 14), Row("SIGTERM", 15, 15),
      Row("SIGUSR1", 10, 30), Row("SIGUSR2", 12, 31), Row("SIGCHLD", 17, 20),
      Row("SIGCONT", 18, 19), Row("SIGSTOP", 19, 17), Row("SIGTSTP", 20, 18),
      Row("SIGTTIN", 21, 21), Row("SIGTTOU", 22, 22), Row("SIGBUS", 7, 10),
      Row("SIGPROF", 27, 27), Row("SIGSYS", 31, 12), Row("SIGURG", 23, 16),
      Row("SIGVTALRM", 26, 26), Row("SIGXCPU", 24, 24), Row("SIGXFSZ", 25, 25),
      Row("SIGPOLL", 29, 0), Row("SIGWINCH", 28, 28), Row("SIGEMT", 0, 7),
      Row("SIGINFO", 0, 29), Row("SIGPWR", 30, 0), Row("SIGSTKFLT", 16, 0)>>

SignalRows == Primaries \o Aliases

SignalName == {SignalRows[i].name : i \in DOMAIN SignalRows}

\* SIGNALS as the platform compiles it.
SIGNALS(p) == SelectSeq(SignalRows, LAMBDA r : r.num[p] # 0)

\* The position of the entry, or 0.
lookup_by_name(p, name) == SelectInSeq(SIGNALS(p), LAMBDA r : r.name = name)
lookup_by_num(p, num) == SelectInSeq(SIGNALS(p), LAMBDA r : r.num[p] = num)

tosignum(p, name) ==
    LET i == lookup_by_name(p, name) IN IF i = 0 THEN 0 ELSE SIGNALS(p)[i].num[p]

tosigname(p, num) ==
    LET i == lookup_by_num(p, num) IN IF i = 0 THEN Nil ELSE SIGNALS(p)[i].name

\* signames()[num]: << >> for nil, one name for a string, more for an array.
AddName_replace(names, r) == <<r.name>> \* mutant: an alias replaces the name
AddName(names, r) == Append(names, r.name)

signames(p, num) ==
    FoldLeft(AddName, << >>, SelectSeq(SIGNALS(p), LAMBDA r : r.num[p] = num))
=============================================================================
