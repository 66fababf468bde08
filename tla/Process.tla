------------------------------ MODULE Process ------------------------------
(***************************************************************************)
(* src/fork.c: the proc objects that testcase.fork() returns, and the      *)
(* process table of the kernel they stand for.                             *)
(*                                                                         *)
(* A proc object holds a pid_t: 0 in the child, the pid of the child in    *)
(* its parent, and minus that pid once proc:wait() saw it end.  fork()     *)
(* copies the heap, so a child also has a copy of every proc object that   *)
(* its parent held.  The garbage collector, which the runner forces before *)
(* every user function, finalizes an object in each process on its own.    *)
(* What the kernel does with a child that ends depends on the disposition  *)
(* of SIGCHLD, which src/signal.c and src/nosigchld.c change.              *)
(***************************************************************************)
EXTENDS Integers, Functions

CONSTANTS
    Main,       \* the pid of the first process
    Kids,       \* the pids that fork() may give
    Setters,    \* the processes that change their disposition of SIGCHLD
    MaxForks    \* how often fork() is called, to bound the runs

ASSUME PidAssumption ==
    /\ Main \in Nat \ {0}
    /\ Kids \subseteq Nat \ {0, 1, Main}
    /\ Setters \subseteq {Main} \cup Kids
    /\ MaxForks \in Nat

Proc == {Main} \cup Kids
Reaper == 0     \* the parent of a process whose parent has ended
Forks == 1 .. MaxForks  \* the calls of fork(), each makes one proc object
Pids == {0} \cup Kids \cup {-k : k \in Kids}
Dispositions == {"default", "ignore", "noop"}

\* An entry of the process table.  fork is the call of fork() that made the
\* process; news: it was stopped or continued, and nobody was told yet; left
\* is a history: the finalizer that killed it did not see it end.
Entry ==
    [state  : {"free", "run", "stop", "doomed", "zombie"},
     parent : Proc \cup {Reaper},
     fork   : Forks \cup {0},
     news   : BOOLEAN,
     left   : BOOLEAN]

Gone == [state |-> "free", parent |-> Reaper, fork |-> 0, news |-> FALSE, left |-> FALSE]

VARIABLES
    proc,       \* proc[p]: the entry of p in the process table
    objs,       \* objs[p]: the pid_t in each proc object in the heap of p
    chld,       \* chld[p]: the disposition of SIGCHLD
    saved,      \* saved[p]: what nosigchld() saved, or "off" (!s->enabled)
    waiting,    \* waiting[p]: the child p waits for in a finalizer, or 0
    signaled,   \* signaled[p]: the handler ran while p was waiting
    made,       \* the calls of fork() so far
    stray,      \* history: a finalizer killed a process of another parent
    ignored     \* history: the first process has had SIGCHLD ignored

signals == <<chld, saved, ignored>>
vars == <<proc, objs, signals, waiting, signaled, made, stray>>

Init ==
    /\ proc = [p \in Proc |-> IF p = Main THEN [Gone EXCEPT !.state = "run"] ELSE Gone]
    /\ objs = [p \in Proc |-> << >>]
    /\ chld = [p \in Proc |-> "default"]
    /\ saved = [p \in Proc |-> "off"]
    /\ waiting = [p \in Proc |-> 0]
    /\ signaled = [p \in Proc |-> FALSE]
    /\ made = 0
    /\ stray = FALSE
    /\ ignored = FALSE

-----------------------------------------------------------------------------
(* The kernel.                                                             *)

\* The id of a process that was waited for is free and may be given again.
Exists(p) == proc[p].state # "free"
Zombie(p) == proc[p].state = "zombie"
ChildOf(p, k) == k \in Kids /\ Exists(k) /\ proc[k].parent = p
Dying(p, k) == ChildOf(p, k) /\ ~Zombie(k)

\* p runs user code: it is neither stopped nor blocked in a finalizer.
Runs(p) == proc[p].state = "run" /\ waiting[p] = 0

\* A child of p changes its state: the handler of p interrupts its wait.
Signal(p) ==
    signaled' = IF p # Reaper /\ chld[p] = "noop" /\ waiting[p] # 0
                THEN [signaled EXCEPT ![p] = TRUE] ELSE signaled

\* Nobody is going to wait for p: it is gone at once when it ends.
Unawaited(p) == proc[p].parent = Reaper \/ chld[proc[p].parent] = "ignore"

\* p ends: it stays for its parent to wait for, and its children lose theirs.
Orphan(e) == IF e.state = "zombie" THEN Gone ELSE [e EXCEPT !.parent = Reaper]

Die(p) ==
    /\ proc' = [q \in Proc |->
                   IF q = p THEN IF Unawaited(p) THEN Gone
                                 ELSE [proc[p] EXCEPT !.state = "zombie", !.news = FALSE]
                   ELSE IF proc[q].parent = p THEN Orphan(proc[q]) ELSE proc[q]]
    /\ objs' = [objs EXCEPT ![p] = << >>]
    /\ chld' = [chld EXCEPT ![p] = "default"]
    /\ saved' = [saved EXCEPT ![p] = "off"]
    /\ waiting' = [waiting EXCEPT ![p] = 0]
    /\ Signal(proc[p].parent)
    /\ UNCHANGED <<made, stray, ignored>>

\* A process ends by itself, or by the SIGKILL it was sent.
Exit(k) == k \in Kids /\ proc[k].state = "run" /\ Die(k)
KillTakesEffect(k) == k \in Kids /\ proc[k].state = "doomed" /\ Die(k)

-----------------------------------------------------------------------------
(* kill_lua() and raise_lua() of src/signal.c, or a process outside: the   *)
(* parent is told of SIGSTOP and SIGCONT, SIGCHLD runs the handler, and    *)
(* SIGKILL ends the process.  Any other signal ends it (Exit) or does      *)
(* nothing.                                                                *)

Switch(k, from, to) ==
    /\ k \in Kids /\ proc[k].state = from
    /\ proc' = [proc EXCEPT ![k].state = to, ![k].news = TRUE]
    /\ Signal(proc[k].parent)
    /\ UNCHANGED <<objs, signals, waiting, made, stray>>

SendStop(k) == Switch(k, "run", "stop")
SendCont(k) == Switch(k, "stop", "run")

SendChld(p) ==
    /\ Exists(p)
    /\ Signal(p)
    /\ UNCHANGED <<proc, objs, signals, waiting, made, stray>>

SendKill(k) ==
    /\ k \in Kids /\ proc[k].state \in {"run", "stop"}
    /\ proc' = [proc EXCEPT ![k].state = "doomed", ![k].news = FALSE]
    /\ UNCHANGED <<objs, signals, waiting, signaled, made, stray>>

-----------------------------------------------------------------------------
(* src/fork.c                                                              *)

\* fork_lua(): the child has a copy of the heap, where the new object holds 0.
\* When fork(2) fails the new object has no finalizer, and nothing changes.
With(f, h, x) == [g \in DOMAIN f \cup {h} |-> IF g = h THEN x ELSE f[g]]
Without(f, h) == Restrict(f, DOMAIN f \ {h})

Fork(p, k, h) ==
    /\ Runs(p)
    /\ k \in Kids /\ ~Exists(k)
    /\ h = made + 1
    /\ proc' = [proc EXCEPT ![k] = [Gone EXCEPT !.state = "run", !.parent = p, !.fork = h]]
    /\ objs' = [objs EXCEPT ![p] = With(@, h, k), ![k] = With(objs[p], h, 0)]
    /\ chld' = [chld EXCEPT ![k] = chld[p]]
    /\ saved' = [saved EXCEPT ![k] = saved[p]]
    /\ made' = h
    /\ UNCHANGED <<waiting, signaled, stray, ignored>>

\* wait_lua(), when waitpid(WUNTRACED | WCONTINUED) reports on the child.  The
\* other returns (self, already waited for, no such child, EINTR) change
\* nothing, and while the child just runs the caller blocks.
EndsWait_any(k) == TRUE \* mutant: every report counts as the end
EndsWait_exit(k) == FALSE \* mutant: the pid is kept when a signal ended it
EndsWait(k) == Zombie(k)

Wait(p, h) ==
    LET k == objs[p][h] IN
    /\ Runs(p)
    /\ h \in DOMAIN objs[p] /\ ChildOf(p, k)
    /\ Zombie(k) \/ proc[k].news
    /\ objs' = [objs EXCEPT ![p][h] = IF EndsWait(k) THEN -k ELSE k]
    /\ proc' = [proc EXCEPT ![k] = IF Zombie(k) THEN Gone ELSE [@ EXCEPT !.news = FALSE]]
    /\ UNCHANGED <<signals, waiting, signaled, made, stray>>

\* waitpid(pid, NULL, WNOHANG) == 0: the object stands for a living child.
LivingChild_pidOnly(p, k) == \* mutant: kill() without asking waitpid() first
    k > 1 /\ Exists(k) /\ ~Zombie(k)
LivingChild_untraced(p, k) == \* mutant: WUNTRACED, a stopped child counts as ended
    k > 1 /\ Dying(p, k) /\ proc[k].state # "stop"
LivingChild(p, k) == k > 1 /\ Dying(p, k)

\* gc_lua(): the object is unreachable in p.
GcInChild(p, h) ==
    /\ Runs(p)
    /\ h \in DOMAIN objs[p] /\ objs[p][h] = 0
    /\ Die(p)

\* kill(pid, SIGKILL)
Killed_ignorable(k) == proc[k].state \* mutant: a signal that the child ignores
Killed(k) == "doomed"

GcKills(p, h) ==
    LET k == objs[p][h] IN
    /\ Runs(p)
    /\ h \in DOMAIN objs[p] /\ LivingChild(p, k)
    /\ proc' = [proc EXCEPT ![k].state = Killed(k), ![k].news = FALSE]
    /\ waiting' = [waiting EXCEPT ![p] = k]
    /\ objs' = [objs EXCEPT ![p] = Without(@, h)]
    /\ stray' = (stray \/ proc[k].parent # p)
    /\ UNCHANGED <<signals, signaled, made>>

GcReaps(p, h) ==
    LET k == objs[p][h] IN
    /\ Runs(p)
    /\ h \in DOMAIN objs[p] /\ k # 0 /\ ~LivingChild(p, k)
    /\ objs' = [objs EXCEPT ![p] = Without(@, h)]
    /\ proc' = IF ChildOf(p, k) /\ Zombie(k) THEN [proc EXCEPT ![k] = Gone] ELSE proc
    /\ UNCHANGED <<signals, waiting, signaled, made, stray>>

\* The second waitpid() of gc_lua() returns the child it killed, or ECHILD
\* when the kernel did not keep the child.
GcWaited(p) ==
    LET k == waiting[p] IN
    /\ k # 0
    /\ proc[p].state = "run" /\ ~Dying(p, k)
    /\ proc' = IF ChildOf(p, k) THEN [proc EXCEPT ![k] = Gone] ELSE proc
    /\ waiting' = [waiting EXCEPT ![p] = 0]
    /\ signaled' = [signaled EXCEPT ![p] = FALSE]
    /\ UNCHANGED <<objs, signals, made, stray>>

\* It returns EINTR, which gc_lua() ignores.
GcInterrupted(p) ==
    LET k == waiting[p] IN
    /\ k # 0
    /\ proc[p].state = "run" /\ Dying(p, k)
    /\ signaled[p]
    /\ proc' = [proc EXCEPT ![k].left = TRUE]
    /\ waiting' = [waiting EXCEPT ![p] = 0]
    /\ signaled' = [signaled EXCEPT ![p] = FALSE]
    /\ UNCHANGED <<objs, signals, made, stray>>

-----------------------------------------------------------------------------
(* src/signal.c and src/nosigchld.c: the disposition of SIGCHLD.           *)

SetChld(p, d) ==
    /\ Runs(p) /\ p \in Setters
    /\ chld' = [chld EXCEPT ![p] = d]
    /\ ignored' = (ignored \/ (p = Main /\ d = "ignore"))
    /\ UNCHANGED <<proc, objs, waiting, signaled, made, stray>>

\* sigignore_lua() and sigdefault_lua(), of which nosigchld() learns nothing.
SigIgnore(p) == SetChld(p, "ignore") /\ UNCHANGED saved
SigDefault(p) == SetChld(p, "default") /\ UNCHANGED saved

\* nosigchld_lua(): a call for the state it believes to be in does nothing.
NoSigChldOn(p) ==
    /\ saved[p] = "off"
    /\ SetChld(p, "noop")
    /\ saved' = [saved EXCEPT ![p] = chld[p]]

NoSigChldOff(p) ==
    /\ saved[p] # "off"
    /\ SetChld(p, saved[p])
    /\ saved' = [saved EXCEPT ![p] = "off"]

-----------------------------------------------------------------------------
Kernel ==
    \/ \E k \in Kids : Exit(k) \/ KillTakesEffect(k)
    \/ \E k \in Kids : SendStop(k) \/ SendCont(k) \/ SendKill(k)
    \/ \E p \in Proc : SendChld(p)

Next ==
    \/ Kernel
    \/ \E p \in Proc, h \in Forks :
           \/ \E k \in Kids : Fork(p, k, h)
           \/ Wait(p, h) \/ GcInChild(p, h) \/ GcKills(p, h) \/ GcReaps(p, h)
    \/ \E p \in Proc : GcWaited(p) \/ GcInterrupted(p)
    \/ \E p \in Proc :
           SigIgnore(p) \/ SigDefault(p) \/ NoSigChldOn(p) \/ NoSigChldOff(p)

Spec == Init /\ [][Next]_vars

\* SIGKILL takes effect, and a wait whose child has ended returns.
FairSpec ==
    /\ Spec
    /\ \A k \in Kids : WF_vars(KillTakesEffect(k))
    /\ WF_vars(GcWaited(Main))

-----------------------------------------------------------------------------
(* Properties.                                                             *)

TypeOK ==
    /\ proc \in [Proc -> Entry]
    /\ \A p \in Proc : DOMAIN objs[p] \subseteq Forks
    /\ \A p \in Proc : \A h \in DOMAIN objs[p] : objs[p][h] \in Pids
    /\ chld \in [Proc -> Dispositions]
    /\ saved \in [Proc -> Dispositions \cup {"off"}]
    /\ waiting \in [Proc -> Kids \cup {0}]
    /\ \A p \in Proc :
           waiting[p] # 0 => ChildOf(p, waiting[p]) \/ chld[p] = "ignore"
    /\ signaled \in [Proc -> BOOLEAN]
    /\ made \in Forks \cup {0}

(* A finalizer kills no process but a child of the process it runs in: a   *)
(* copy of a proc object that was inherited by a sibling of the process it *)
(* stands for does no harm, even when pids are given again                 *)
(* (src/fork.c:113-117).                                                   *)
KillsOnlyItsChildren == ~stray

(* proc:wait() turns the pid of an object negative only for a process that *)
(* is gone, so that no process is forgotten while it still runs or is      *)
(* stopped (src/fork.c:63-85).                                             *)
NegativeMeansGone ==
    \A p \in Proc : \A h \in DOMAIN objs[p] : LET k == -objs[p][h] IN
        k > 0 => ~(Exists(k) /\ proc[k].fork = h)

(* In the first process an object stands for the process it was made for:  *)
(* the child that wait() waits for or the finalizer kills is never another *)
(* one that was given the same id, unless SIGCHLD was ignored for a while, *)
(* when the kernel keeps no ended child (src/fork.c:35-43, 111-117;        *)
(* src/signal.c:321, src/nosigchld.c:55-64).  A copy that a child          *)
(* inherited has no such promise.                                          *)
StandsForItsOwn ==
    ~ignored => \A h \in DOMAIN objs[Main] : LET k == objs[Main][h] IN
                   k > 0 => ChildOf(Main, k) /\ proc[k].fork = h

\* k is left behind: its parent runs on without the object that stood for it.
LeftBehind(k) ==
    LET p == proc[k].parent IN
    /\ Exists(k) /\ p # Reaper
    /\ proc[k].fork \notin DOMAIN objs[p]
    /\ waiting[p] # k
    /\ proc[p].state = "run"

(* A child whose object was collected in its parent is gone, not a zombie  *)
(* or a process still dying, unless a signal interrupted the finalizer:    *)
(* neither a stopped child, nor an inherited copy of the object, nor a pid *)
(* that was given again leaves one behind (src/fork.c:113-117).            *)
CollectedIsGone == \A k \in Kids : LeftBehind(k) => proc[k].left

(* README.md:200: when the object is garbage-collected "the parent sends   *)
(* `SIGKILL` and waits".  The wait is given up when another signal comes   *)
(* (src/fork.c:116).                                                       *)
ParentWaits == \A k \in Kids : ~LeftBehind(k)

(* A finalizer never blocks the process for good: the wait for the child   *)
(* it killed returns (src/fork.c:115).                                     *)
FinalizerEnds == waiting[Main] # 0 ~> waiting[Main] = 0
=============================================================================
