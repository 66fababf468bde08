---------------------------- MODULE ProcessProofs ----------------------------
(***************************************************************************)
(* The safety properties of Process, proved for any set of process ids,    *)
(* any processes that change their signals and any number of forks.        *)
(***************************************************************************)
EXTENDS Process, TLAPS

-----------------------------------------------------------------------------
(* The inductive invariant.                                                *)

\* A process that has not ended.
Living(p) == proc[p].state \in {"run", "stop", "doomed"}

\* The first process never ends, and a parent never ends before its children
\* have lost it.
Family ==
    /\ proc[Main].state = "run" /\ proc[Main].parent = Reaper
    /\ \A k \in Kids : ~Exists(k) => proc[k].parent = Reaper
    /\ \A p \in Proc : \A k \in Kids : proc[k].parent = p => p # k /\ Living(p)
    /\ \A p \in Proc : waiting[p] # 0 => Living(p)

\* The calls of fork() are numbered in their order.
Numbered ==
    /\ \A k \in Kids : proc[k].fork <= made
    /\ \A p \in Proc : \A h \in DOMAIN objs[p] : h <= made

\* The object a child was made with still has its pid in its parent, is what
\* a finalizer waits for, or was given up by one.
Held ==
    \A p \in Proc : \A k \in Kids : ChildOf(p, k) =>
        LET h == proc[k].fork IN
        /\ h \in DOMAIN objs[p] => objs[p][h] = k
        /\ h \notin DOMAIN objs[p] => waiting[p] = k \/ proc[k].left

\* The first process has no object of a child, and none whose child it is
\* about to take from the kernel without it.
MainHolds ==
    /\ \A h \in DOMAIN objs[Main] : objs[Main][h] # 0
    /\ ~ignored => \A h \in DOMAIN objs[Main] : objs[Main][h] = waiting[Main] => waiting[Main] = 0

\* The kernel keeps the ended children of the first process.
Kept == ~ignored => chld[Main] # "ignore" /\ saved[Main] # "ignore"

IInv ==
    /\ TypeOK
    /\ DOMAIN objs = Proc
    /\ Family
    /\ Numbered
    /\ Held
    /\ MainHolds
    /\ Kept
    /\ KillsOnlyItsChildren
    /\ NegativeMeansGone
    /\ StandsForItsOwn

-----------------------------------------------------------------------------
(* Lemmas about ids and entries.                                           *)

\* What the invariant needs to know of the ids.
LEMMA Ids ==
    /\ Main \in Proc /\ Main \notin Kids /\ Reaper \notin Proc
    /\ Kids \subseteq Proc /\ \A k \in Kids : k \in Nat /\ k > 1
    /\ \A p \in Proc : p \in Nat /\ (p # Main => p \in Kids)
    /\ Forks \subseteq Nat \ {0}
BY PidAssumption DEF Proc, Reaper, Forks

\* The entries of the process table.
LEMMA GoneEntry ==
    /\ Gone \in Entry
    /\ Gone.state = "free" /\ Gone.parent = Reaper /\ Gone.fork = 0
    /\ Gone.news = FALSE /\ Gone.left = FALSE
BY DEF Gone, Entry

LEMMA EntryType ==
    ASSUME TypeOK
    PROVE  /\ DOMAIN proc = Proc
           /\ \A p \in Proc :
                  /\ proc[p] \in Entry
                  /\ proc[p].state \in {"free", "run", "stop", "doomed", "zombie"}
                  /\ proc[p].parent \in Proc \cup {Reaper}
                  /\ proc[p].fork \in Forks \cup {0}
                  /\ proc[p].left \in BOOLEAN
BY DEF TypeOK, Entry

(* The invariant holds at the beginning: no process but the first, and no  *)
(* object (src/fork.c:130-153).                                            *)
LEMMA IInvInit == Init => IInv
<1> SUFFICES ASSUME Init PROVE IInv
    OBVIOUS
<1> USE Ids
<1>1. TypeOK
  <2>1. [Gone EXCEPT !.state = "run"] \in Entry /\ Gone \in Entry
      BY GoneEntry DEF Entry
  <2>2. proc \in [Proc -> Entry]
      BY <2>1 DEF Init
  <2> QED
      BY <2>2 DEF Init, TypeOK, Dispositions
<1>2. Family /\ Held
    BY DEF Init, Family, Held, Gone, Exists, Living, ChildOf
<1>3. Numbered /\ MainHolds /\ NegativeMeansGone /\ StandsForItsOwn
    BY DEF Init, Numbered, MainHolds, NegativeMeansGone, StandsForItsOwn, Gone
<1>4. DOMAIN objs = Proc /\ Kept /\ KillsOnlyItsChildren
    BY DEF Init, Kept, KillsOnlyItsChildren
<1> QED
    BY <1>1, <1>2, <1>3, <1>4 DEF IInv

-----------------------------------------------------------------------------
(* A process ends.                                                         *)

\* What becomes of the entries when a process ends.
LEMMA DieEntries ==
    ASSUME TypeOK, NEW q \in Kids, Die(q), NEW r \in Proc
    PROVE  /\ proc'[r] \in Entry
           /\ r # q /\ proc[r].parent # q => proc'[r] = proc[r]
           /\ r # q /\ proc[r].parent = q /\ proc[r].state = "zombie" => proc'[r] = Gone
           /\ r # q /\ proc[r].parent = q /\ proc[r].state # "zombie" =>
                  /\ proc'[r].state = proc[r].state /\ proc'[r].parent = Reaper
                  /\ proc'[r].fork = proc[r].fork /\ proc'[r].left = proc[r].left
           /\ r = q /\ Unawaited(q) => proc'[r] = Gone
           /\ r = q /\ ~Unawaited(q) =>
                  /\ proc'[r].state = "zombie" /\ proc'[r].parent = proc[r].parent
                  /\ proc'[r].fork = proc[r].fork /\ proc'[r].left = proc[r].left
<1>1. proc'[r] = IF r = q THEN IF Unawaited(q) THEN Gone
                           ELSE [proc[q] EXCEPT !.state = "zombie", !.news = FALSE]
                 ELSE IF proc[r].parent = q THEN Orphan(proc[r]) ELSE proc[r]
    BY DEF Die
<1>2. proc[r] \in Entry /\ Gone \in Entry
    BY EntryType, GoneEntry
<1>3. CASE r = q
    BY <1>1, <1>2, <1>3 DEF Entry
<1>4. CASE r # q
    BY <1>1, <1>2, <1>4 DEF Entry, Orphan
<1> QED
    BY <1>3, <1>4

(* A process that ends leaves the invariant true (src/fork.c:110-112 for   *)
(* the finalizer in a child).                                              *)
LEMMA DieOK ==
    ASSUME IInv, NEW q \in Kids, proc[q].state \in {"run", "doomed"}, Die(q)
    PROVE  IInv'
<1> USE Ids
<1>0. Main # q /\ TypeOK /\ Family
    BY DEF IInv
<1>1. /\ \A p \in Proc \ {q} : objs'[p] = objs[p] /\ waiting'[p] = waiting[p] /\ chld'[p] = chld[p]
                               /\ saved'[p] = saved[p]
      /\ DOMAIN objs' = Proc /\ DOMAIN objs'[q] = {} /\ waiting'[q] = 0
      /\ made' = made /\ stray' = stray /\ ignored' = ignored
    BY DEF Die, IInv, TypeOK
<1>2. \A k \in Kids : ChildOf(q, k)' => FALSE
    BY <1>0, <1>1, EntryType, GoneEntry, DieEntries DEF Family, ChildOf, Exists
<1>3. \A p \in Proc \ {q} : \A k \in Kids : ChildOf(p, k)' =>
          ChildOf(p, k) /\ proc'[k].fork = proc[k].fork /\ proc'[k].left = proc[k].left
    BY <1>0, <1>1, EntryType, GoneEntry, DieEntries DEF ChildOf, Exists, Unawaited
<1>4. \A p \in Proc \ {q} : \A k \in Kids :
          ChildOf(p, k) => ChildOf(p, k)' \/ (k = q /\ chld[p] = "ignore")
    BY <1>0, <1>1, EntryType, GoneEntry, DieEntries DEF ChildOf, Exists, Unawaited
<1>5. TypeOK'
  <2>1. proc' \in [Proc -> Entry]
    <3>1. \A r \in Proc : proc'[r] \in Entry
        BY <1>0, DieEntries
    <3> QED
        BY <3>1 DEF Die
  <2>2. /\ chld' \in [Proc -> Dispositions] /\ saved' \in [Proc -> Dispositions \cup {"off"}]
        /\ waiting' \in [Proc -> Kids \cup {0}]
      BY <1>0 DEF Die, TypeOK, Dispositions
  <2>3. signaled' \in [Proc -> BOOLEAN]
      BY <1>0 DEF Die, Signal, TypeOK
  <2>4. /\ \A p \in Proc : DOMAIN objs'[p] \subseteq Forks
        /\ \A p \in Proc : \A h \in DOMAIN objs'[p] : objs'[p][h] \in Pids
    <3>1. \A p \in Proc : \A h \in DOMAIN objs'[p] : h \in DOMAIN objs[p] /\ objs'[p] = objs[p]
        BY <1>1
    <3>2. \A p \in Proc : \A h \in DOMAIN objs[p] : h \in Forks /\ objs[p][h] \in Pids
        BY <1>0 DEF TypeOK
    <3> QED
        BY <3>1, <3>2
  <2>5. \A p \in Proc : (waiting[p] # 0 => ChildOf(p, waiting[p]) \/ chld[p] = "ignore")'
    <3> SUFFICES ASSUME NEW p \in Proc \ {q}, waiting[p] # 0
                 PROVE  (ChildOf(p, waiting[p]) \/ chld[p] = "ignore")'
        BY <1>1
    <3>1. waiting[p] \in Kids /\ (ChildOf(p, waiting[p]) \/ chld[p] = "ignore")
        BY <1>0 DEF TypeOK
    <3> QED
        BY <1>1, <1>4, <3>1 DEF ChildOf, Exists
  <2> QED
      BY <1>0, <1>1, <2>1, <2>2, <2>3, <2>4, <2>5 DEF TypeOK
<1>6. Family'
  <2>1. proc'[Main].state = "run" /\ proc'[Main].parent = Reaper
      BY <1>0, DieEntries DEF Family
  <2>2. \A k \in Kids : ~Exists(k)' => proc'[k].parent = Reaper
      BY <1>0, <1>1, EntryType, GoneEntry, DieEntries DEF Family, Exists
  <2>3. \A p \in Proc \ {q} : Living(p) => Living(p)'
      BY <1>0, <1>1, EntryType, GoneEntry, DieEntries DEF Living
  <2>4. \A p \in Proc : \A k \in Kids : proc'[k].parent = p => p # k /\ Living(p)'
      BY <1>0, <1>1, <2>3, EntryType, GoneEntry, DieEntries DEF Family
  <2>5. \A p \in Proc : waiting'[p] # 0 => Living(p)'
      BY <1>0, <1>1, <2>3 DEF Family
  <2> QED
      BY <2>1, <2>2, <2>4, <2>5 DEF Family
<1>7. Numbered'
  <2>1. \A k \in Kids : proc'[k].fork \in {proc[k].fork, 0}
      BY <1>0, GoneEntry, DieEntries
  <2>2. made \in Nat
      BY <1>0 DEF TypeOK
  <2>3. \A p \in Proc : \A h \in DOMAIN objs'[p] : h \in DOMAIN objs[p]
      BY <1>1
  <2> QED
      BY <1>1, <2>1, <2>2, <2>3 DEF IInv, Numbered
<1>8. Held'
    BY <1>1, <1>2, <1>3 DEF IInv, Held
<1>9. MainHolds' /\ Kept' /\ KillsOnlyItsChildren'
    BY <1>0, <1>1 DEF IInv, MainHolds, Kept, KillsOnlyItsChildren
<1>10. NegativeMeansGone'
  <2> SUFFICES ASSUME NEW p \in Proc, NEW h \in DOMAIN objs'[p], NEW k, k = -objs'[p][h],
                      k > 0, Exists(k)', proc'[k].fork = h
               PROVE  FALSE
      BY DEF NegativeMeansGone
  <2>1. p # q /\ objs'[p] = objs[p] /\ h \in DOMAIN objs[p]
      BY <1>1
  <2>2. h \in Forks /\ k \in Kids
      BY <1>0, <2>1 DEF TypeOK, Pids
  <2>3. ~(Exists(k) /\ proc[k].fork = h)
      BY <2>1 DEF IInv, NegativeMeansGone
  <2> QED
      BY <1>0, <2>2, <2>3, EntryType, GoneEntry, DieEntries DEF Exists
<1>11. StandsForItsOwn'
  <2> SUFFICES ASSUME ~ignored, NEW h \in DOMAIN objs[Main], objs[Main][h] > 0
               PROVE  ChildOf(Main, objs[Main][h])' /\ proc'[objs[Main][h]].fork = h
      BY <1>0, <1>1 DEF StandsForItsOwn
  <2>1. ChildOf(Main, objs[Main][h]) /\ proc[objs[Main][h]].fork = h /\ chld[Main] # "ignore"
      BY DEF IInv, StandsForItsOwn, Kept
  <2> QED
      BY <1>0, <1>1, <1>3, <1>4, <2>1 DEF ChildOf, Exists
<1> QED
    BY <1>1, <1>5, <1>6, <1>7, <1>8, <1>9, <1>10, <1>11 DEF IInv

-----------------------------------------------------------------------------
(* Signals.                                                                *)

\* A step after which every process still has its parent and its number.
LEMMA KinOK ==
    ASSUME IInv, proc' \in [Proc -> Entry], signaled' \in [Proc -> BOOLEAN],
           UNCHANGED <<objs, chld, saved, waiting, made, stray, ignored>>,
           proc'[Main].state = "run",
           \A p \in Proc : /\ Exists(p)' <=> Exists(p)
                           /\ Living(p)' <=> Living(p)
                           /\ proc'[p].parent = proc[p].parent
                           /\ proc'[p].fork = proc[p].fork
                           /\ proc'[p].left = proc[p].left
    PROVE  IInv'
<1> USE Ids
<1>1. \A p \in Proc : \A k : ChildOf(p, k)' <=> ChildOf(p, k)
    BY DEF ChildOf
<1>2. TypeOK'
    BY <1>1 DEF IInv, TypeOK
<1>3. Family' /\ Numbered'
    BY DEF IInv, Family, Numbered
<1>4. Held'
    BY <1>1 DEF IInv, Held
<1>5. MainHolds' /\ Kept' /\ KillsOnlyItsChildren' /\ DOMAIN objs' = Proc
    BY DEF IInv, MainHolds, Kept, KillsOnlyItsChildren
<1>6. NegativeMeansGone'
  <2> SUFFICES ASSUME NEW p \in Proc, NEW h \in DOMAIN objs[p], NEW k, k = -objs[p][h],
                      k > 0, Exists(k)', proc'[k].fork = h
               PROVE  FALSE
      BY DEF NegativeMeansGone
  <2>1. k \in Kids
      BY DEF IInv, TypeOK, Pids
  <2> QED
      BY <2>1 DEF IInv, NegativeMeansGone
<1>7. StandsForItsOwn'
  <2> SUFFICES ASSUME ~ignored, NEW h \in DOMAIN objs[Main], NEW k, k = objs[Main][h], k > 0
               PROVE  ChildOf(Main, k)' /\ proc'[k].fork = h
      BY DEF StandsForItsOwn
  <2>1. ChildOf(Main, k) /\ proc[k].fork = h
      BY DEF IInv, StandsForItsOwn
  <2> QED
      BY <1>1, <2>1 DEF ChildOf
<1> QED
    BY <1>2, <1>3, <1>4, <1>5, <1>6, <1>7 DEF IInv

\* A process that has not ended is stopped, continued or killed.
LEMMA Relabelled ==
    ASSUME TypeOK, NEW k \in Kids, Living(k), NEW st \in {"run", "stop", "doomed"},
           NEW b \in BOOLEAN, proc' = [proc EXCEPT ![k].state = st, ![k].news = b]
    PROVE  /\ proc' \in [Proc -> Entry]
           /\ \A p \in Proc : /\ p # k => proc'[p] = proc[p]
                              /\ Exists(p)' <=> Exists(p)
                              /\ Living(p)' <=> Living(p)
                              /\ proc'[p].parent = proc[p].parent
                              /\ proc'[p].fork = proc[p].fork
                              /\ proc'[p].left = proc[p].left
<1> USE Ids
<1> DEFINE e == [proc[k] EXCEPT !.state = st, !.news = b]
<1>1. proc[k] \in Entry /\ DOMAIN proc = Proc
    BY EntryType
<1>2. e \in Entry /\ e.state = st /\ e.parent = proc[k].parent /\ e.fork = proc[k].fork
      /\ e.left = proc[k].left
    BY <1>1 DEF Entry
<1> HIDE DEF e
<1>3. proc' = [proc EXCEPT ![k] = e]
    BY DEF e
<1> QED
    BY <1>1, <1>2, <1>3, EntryType DEF Exists, Living, TypeOK

LEMMA SignalType == ASSUME TypeOK, NEW p, Signal(p) PROVE signaled' \in [Proc -> BOOLEAN]
BY DEF Signal, TypeOK

LEMMA SwitchOK ==
    ASSUME IInv, NEW k, NEW from \in {"run", "stop"}, NEW to \in {"run", "stop"},
           Switch(k, from, to)
    PROVE  IInv'
<1> USE Ids
<1>1. TypeOK /\ k \in Kids /\ Living(k) /\ proc[Main].state = "run" /\ k # Main
    BY DEF IInv, Switch, Living, Family
<1>2. proc' = [proc EXCEPT ![k].state = to, ![k].news = TRUE]
    BY DEF Switch
<1>3. signaled' \in [Proc -> BOOLEAN]
    BY <1>1, SignalType DEF Switch
<1> QED
    BY <1>1, <1>2, <1>3, Relabelled, KinOK DEF Switch, signals

LEMMA SendKillOK == ASSUME IInv, NEW k, SendKill(k) PROVE IInv'
<1> USE Ids
<1>1. TypeOK /\ k \in Kids /\ Living(k) /\ proc[Main].state = "run" /\ k # Main
    BY DEF IInv, SendKill, Living, Family
<1>2. proc' = [proc EXCEPT ![k].state = "doomed", ![k].news = FALSE]
    BY DEF SendKill
<1> QED
    BY <1>1, <1>2, Relabelled, KinOK DEF SendKill, signals, TypeOK

LEMMA SendChldOK == ASSUME IInv, NEW p \in Proc, SendChld(p) PROVE IInv'
<1> USE Ids
<1>1. TypeOK /\ proc[Main].state = "run"
    BY DEF IInv, Family
<1>2. signaled' \in [Proc -> BOOLEAN]
    BY <1>1, SignalType DEF SendChld
<1> QED
    BY <1>1, <1>2, KinOK DEF SendChld, signals, TypeOK, Exists, Living

\* A change of the disposition of SIGCHLD.
LEMMA SetChldOK ==
    ASSUME IInv, NEW p \in Proc, NEW d \in Dispositions, SetChld(p, d),
           saved' \in [Proc -> Dispositions \cup {"off"}],
           p = Main => ignored' \/ (d # "ignore" /\ saved'[Main] # "ignore"),
           p # Main => saved'[Main] = saved[Main]
    PROVE  IInv'
<1> USE Ids
<1>1. /\ chld' = [chld EXCEPT ![p] = d] /\ waiting[p] = 0
      /\ UNCHANGED <<proc, objs, waiting, signaled, made, stray>>
      /\ ~ignored' => ~ignored
    BY DEF SetChld, Runs
<1>2. TypeOK'
    BY <1>1 DEF IInv, TypeOK, ChildOf, Exists
<1>3. Family' /\ Numbered' /\ Held'
    BY <1>1 DEF IInv, Family, Numbered, Held, Living, Exists, ChildOf
<1>4. MainHolds' /\ KillsOnlyItsChildren' /\ DOMAIN objs' = Proc
    BY <1>1 DEF IInv, MainHolds, KillsOnlyItsChildren
<1>5. Kept'
    BY <1>1 DEF IInv, Kept, TypeOK
<1>6. NegativeMeansGone' /\ StandsForItsOwn'
    BY <1>1 DEF IInv, NegativeMeansGone, StandsForItsOwn, ChildOf, Exists
<1> QED
    BY <1>2, <1>3, <1>4, <1>5, <1>6 DEF IInv

LEMMA SignalCallsOK ==
    ASSUME IInv, NEW p \in Proc,
           SigIgnore(p) \/ SigDefault(p) \/ NoSigChldOn(p) \/ NoSigChldOff(p)
    PROVE  IInv'
<1> USE Ids
<1>0. TypeOK /\ Kept
    BY DEF IInv
<1>1. CASE SigIgnore(p)
    BY <1>0, <1>1, SetChldOK DEF SigIgnore, SetChld, TypeOK, Dispositions
<1>2. CASE SigDefault(p)
    BY <1>0, <1>2, SetChldOK DEF SigDefault, SetChld, TypeOK, Dispositions, Kept
<1>3. CASE NoSigChldOn(p)
    BY <1>0, <1>3, SetChldOK DEF NoSigChldOn, SetChld, TypeOK, Dispositions, Kept
<1>4. CASE NoSigChldOff(p)
  <2>1. saved[p] \in Dispositions
      BY <1>0, <1>4 DEF NoSigChldOff, TypeOK
  <2> QED
      BY <1>0, <1>4, <2>1, SetChldOK DEF NoSigChldOff, SetChld, TypeOK, Dispositions, Kept
<1> QED
    BY <1>1, <1>2, <1>3, <1>4

-----------------------------------------------------------------------------
(* fork(): the new process has a number of its own, and the object of its  *)
(* parent has its pid (src/fork.c:130-153).                                *)
LEMMA ForkOK ==
    ASSUME IInv, NEW p \in Proc, NEW k \in Kids, NEW h \in Forks, Fork(p, k, h)
    PROVE  IInv'
<1> USE Ids
<1> DEFINE e == [Gone EXCEPT !.state = "run", !.parent = p, !.fork = h]
<1>0. /\ TypeOK /\ Family /\ Numbered /\ DOMAIN objs = Proc
      /\ p # k /\ k # Main /\ ~Exists(k) /\ waiting[p] = 0 /\ proc[p].state = "run"
      /\ h = made + 1 /\ made \in Nat
    BY DEF IInv, Fork, Runs, Exists, TypeOK, Forks
<1>1. /\ e \in Entry
      /\ e.state = "run" /\ e.parent = p /\ e.fork = h
    BY DEF Gone, Entry
<1>2. /\ proc' = [proc EXCEPT ![k] = e]
      /\ objs' = [objs EXCEPT ![p] = With(objs[p], h, k), ![k] = With(objs[p], h, 0)]
      /\ chld' = [chld EXCEPT ![k] = chld[p]] /\ saved' = [saved EXCEPT ![k] = saved[p]]
      /\ made' = h
      /\ UNCHANGED <<waiting, signaled, stray, ignored>>
    BY DEF Fork
<1> HIDE DEF e
<1>3. /\ \A q \in Proc \ {k} : proc'[q] = proc[q]
      /\ proc'[k] = e
      /\ proc' \in [Proc -> Entry]
    BY <1>0, <1>1, <1>2 DEF TypeOK
<1>4. /\ \A q \in Proc \ {p, k} : objs'[q] = objs[q]
      /\ objs'[p] = With(objs[p], h, k) /\ objs'[k] = With(objs[p], h, 0)
      /\ DOMAIN objs' = Proc
    BY <1>0, <1>2
<1>5. \A x : /\ DOMAIN With(objs[p], h, x) = DOMAIN objs[p] \cup {h}
             /\ With(objs[p], h, x)[h] = x
             /\ \A g \in DOMAIN objs[p] : With(objs[p], h, x)[g] = objs[p][g]
  <2>1. h \notin DOMAIN objs[p]
      BY <1>0 DEF Numbered, TypeOK, Forks
  <2> QED
      BY <2>1 DEF With
<1>6. \A q \in Proc : \A c \in Kids :
          ChildOf(q, c)' <=> (c = k /\ q = p) \/ (c # k /\ ChildOf(q, c))
    BY <1>1, <1>3 DEF ChildOf, Exists
<1>7. TypeOK'
  <2>1. /\ \A q \in Proc : DOMAIN objs'[q] \subseteq Forks
        /\ \A q \in Proc : \A g \in DOMAIN objs'[q] : objs'[q][g] \in Pids
      BY <1>0, <1>4, <1>5 DEF TypeOK, Pids
  <2>2. chld' \in [Proc -> Dispositions] /\ saved' \in [Proc -> Dispositions \cup {"off"}]
      BY <1>0, <1>2 DEF TypeOK
  <2>3. \A q \in Proc : (waiting[q] # 0 => ChildOf(q, waiting[q]) \/ chld[q] = "ignore")'
    <3> SUFFICES ASSUME NEW q \in Proc, waiting[q] # 0
                 PROVE  (ChildOf(q, waiting[q]) \/ chld[q] = "ignore")'
        BY <1>2
    <3>1. q # k /\ q # p
        BY <1>0 DEF Family, Living, Exists
    <3>2. ChildOf(q, waiting[q]) \/ chld[q] = "ignore"
        BY <1>0 DEF TypeOK
    <3>3. chld'[q] = chld[q]
        BY <1>0, <1>2, <3>1 DEF TypeOK
    <3>4. CASE ChildOf(q, waiting[q])
        BY <1>0, <1>2, <1>3, <3>4 DEF ChildOf, Exists
    <3> QED
        BY <3>2, <3>3, <3>4
  <2> QED
      BY <1>0, <1>2, <1>3, <2>1, <2>2, <2>3 DEF TypeOK
<1>8. Family'
    BY <1>0, <1>1, <1>2, <1>3 DEF Family, Living, Exists
<1>9. Numbered'
  <2>1. \A q \in Proc : \A g \in DOMAIN objs[q] : g \in Nat /\ g <= h
      BY <1>0 DEF Numbered, TypeOK, Forks
  <2>2. \A q \in Proc : \A g \in DOMAIN objs'[q] : g <= h
      BY <1>0, <1>4, <1>5, <2>1 DEF Forks
  <2>3. \A c \in Kids : proc[c].fork \in Nat /\ proc[c].fork <= h
      BY <1>0, EntryType DEF Numbered, Forks
  <2>4. \A c \in Kids : proc'[c].fork <= h
      BY <1>1, <1>3, <2>3 DEF Forks
  <2> QED
      BY <1>2, <2>2, <2>4 DEF Numbered
<1>10. Held'
  <2> SUFFICES ASSUME NEW q \in Proc, NEW c \in Kids, ChildOf(q, c)'
               PROVE  LET g == proc'[c].fork IN
                      /\ g \in DOMAIN objs'[q] => objs'[q][g] = c
                      /\ g \notin DOMAIN objs'[q] => waiting'[q] = c \/ proc'[c].left
      BY DEF Held
  <2>1. CASE c = k
      BY <1>1, <1>3, <1>4, <1>5, <1>6, <2>1
  <2>2. CASE c # k
    <3>1. ChildOf(q, c) /\ proc'[c] = proc[c] /\ q # k
        BY <1>0, <1>3, <1>6, <2>2 DEF Family, ChildOf, Living, Exists
    <3>2. proc[c].fork # h
        BY <1>0 DEF Numbered, TypeOK, Entry, Forks
    <3> QED
        BY <1>2, <1>4, <1>5, <3>1, <3>2 DEF IInv, Held
  <2> QED
      BY <2>1, <2>2
<1>11. MainHolds'
    BY <1>0, <1>2, <1>4, <1>5 DEF IInv, MainHolds
<1>12. Kept' /\ KillsOnlyItsChildren'
    BY <1>0, <1>2 DEF IInv, Kept, KillsOnlyItsChildren, TypeOK
<1>13. NegativeMeansGone'
  <2> SUFFICES ASSUME NEW q \in Proc, NEW g \in DOMAIN objs'[q], NEW c, c = -objs'[q][g],
                      c > 0, Exists(c)', proc'[c].fork = g
               PROVE  FALSE
      BY DEF NegativeMeansGone
  <2>1. \E r \in Proc : g \in DOMAIN objs[r] /\ objs[r][g] = objs'[q][g]
      BY <1>0, <1>4, <1>5
  <2>2. PICK r \in Proc : g \in DOMAIN objs[r] /\ objs[r][g] = objs'[q][g]
      BY <2>1
  <2>3. c \in Kids /\ g <= made
      BY <1>0, <2>2 DEF TypeOK, Pids, Numbered
  <2>4. c # k
      BY <1>0, <1>1, <1>3, <2>3
  <2> QED
      BY <1>3, <2>2, <2>3, <2>4 DEF IInv, NegativeMeansGone, Exists
<1>14. StandsForItsOwn'
  <2> SUFFICES ASSUME ~ignored, NEW g \in DOMAIN objs'[Main], NEW c, c = objs'[Main][g], c > 0
               PROVE  ChildOf(Main, c)' /\ proc'[c].fork = g
      BY <1>2 DEF StandsForItsOwn
  <2>1. CASE p = Main /\ g = h
      BY <1>1, <1>3, <1>4, <1>5, <1>6, <2>1
  <2>2. CASE ~(p = Main /\ g = h)
    <3>1. g \in DOMAIN objs[Main] /\ objs[Main][g] = c
        BY <1>0, <1>4, <1>5, <2>2
    <3>2. ChildOf(Main, c) /\ proc[c].fork = g
        BY <3>1 DEF IInv, StandsForItsOwn
    <3> QED
        BY <1>0, <1>3, <1>6, <3>2 DEF ChildOf
  <2> QED
      BY <2>1, <2>2
<1> QED
    BY <1>4, <1>7, <1>8, <1>9, <1>10, <1>11, <1>12, <1>13, <1>14 DEF IInv

-----------------------------------------------------------------------------
(* wait().                                                                 *)

\* A child that has ended is taken from the kernel.
LEMMA Reaped ==
    ASSUME TypeOK, Family, NEW k \in Kids, Zombie(k), proc' = [proc EXCEPT ![k] = Gone]
    PROVE  /\ proc' \in [Proc -> Entry]
           /\ proc'[k] = Gone
           /\ \A p \in Proc \ {k} : proc'[p] = proc[p]
           /\ \A p \in Proc : \A c \in Kids : ChildOf(p, c)' <=> c # k /\ ChildOf(p, c)
           /\ (waiting' = waiting => Family')
<1> USE Ids, GoneEntry
<1>1. proc' \in [Proc -> Entry] /\ proc'[k] = Gone /\ \A p \in Proc \ {k} : proc'[p] = proc[p]
    BY DEF TypeOK
<1>2. \A p \in Proc : \A c \in Kids : ChildOf(p, c)' <=> c # k /\ ChildOf(p, c)
    BY <1>1 DEF ChildOf, Exists
<1>3. \A p \in Proc : Living(p) => p # k /\ Living(p)'
    BY <1>1 DEF Living, Zombie
<1>4. ASSUME waiting' = waiting PROVE Family'
    BY <1>1, <1>3, <1>4 DEF Family, Exists
<1> QED
    BY <1>1, <1>2, <1>4

(* The pid of an object turns negative exactly when its child is taken     *)
(* from the kernel (src/fork.c:36-90).                                     *)
LEMMA WaitOK ==
    ASSUME IInv, NEW p \in Proc, NEW h \in Forks, Wait(p, h)
    PROVE  IInv'
<1> USE Ids, GoneEntry
<1> DEFINE k == objs[p][h]
<1>0. /\ TypeOK /\ Family /\ DOMAIN objs = Proc /\ Numbered
      /\ h \in DOMAIN objs[p] /\ ChildOf(p, k) /\ k \in Kids /\ k # Main /\ waiting[p] = 0
    BY DEF IInv, Wait, Runs, ChildOf
<1>1. /\ objs' = [objs EXCEPT ![p][h] = IF Zombie(k) THEN -k ELSE k]
      /\ proc' = [proc EXCEPT ![k] = IF Zombie(k) THEN Gone ELSE [proc[k] EXCEPT !.news = FALSE]]
      /\ UNCHANGED <<chld, saved, ignored, waiting, signaled, made, stray>>
    BY DEF Wait, EndsWait, signals
<1>2. /\ DOMAIN objs' = Proc
      /\ \A q \in Proc : DOMAIN objs'[q] = DOMAIN objs[q]
      /\ \A q \in Proc : \A g \in DOMAIN objs[q] :
             objs'[q][g] = IF q = p /\ g = h /\ Zombie(k) THEN -k ELSE objs[q][g]
    BY <1>0, <1>1
<1> HIDE DEF k
<1>3. CASE ~Zombie(k)
  <2>1. \A q \in Proc : \A g \in DOMAIN objs[q] : objs'[q][g] = objs[q][g]
      BY <1>2, <1>3
  <2> DEFINE e == [proc[k] EXCEPT !.news = FALSE]
  <2>2. e \in Entry /\ e.state = proc[k].state /\ e.parent = proc[k].parent
        /\ e.fork = proc[k].fork /\ e.left = proc[k].left
      BY <1>0, EntryType DEF Entry
  <2> HIDE DEF e
  <2>3. proc' = [proc EXCEPT ![k] = e]
      BY <1>1, <1>3 DEF e
  <2>4. /\ proc' \in [Proc -> Entry]
        /\ \A q \in Proc : /\ proc'[q].state = proc[q].state
                           /\ proc'[q].parent = proc[q].parent
                           /\ proc'[q].fork = proc[q].fork
                           /\ proc'[q].left = proc[q].left
      BY <1>0, <2>2, <2>3 DEF TypeOK
  <2>5. \A q \in Proc : \A c : ChildOf(q, c)' <=> ChildOf(q, c)
      BY <2>4 DEF ChildOf, Exists
  <2>6. TypeOK'
      BY <1>0, <1>1, <1>2, <2>1, <2>4, <2>5 DEF TypeOK
  <2>7. Family' /\ Numbered'
      BY <1>0, <1>1, <1>2, <2>4 DEF Family, Numbered, Exists, Living
  <2>8. Held'
      BY <1>1, <1>2, <2>1, <2>4, <2>5 DEF IInv, Held
  <2>9. MainHolds' /\ Kept' /\ KillsOnlyItsChildren'
      BY <1>1, <1>2, <2>1 DEF IInv, MainHolds, Kept, KillsOnlyItsChildren
  <2>10. NegativeMeansGone'
    <3> SUFFICES ASSUME NEW q \in Proc, NEW g \in DOMAIN objs[q], NEW c, c = -objs[q][g],
                        c > 0, Exists(c)', proc'[c].fork = g
                 PROVE  FALSE
        BY <1>2, <2>1 DEF NegativeMeansGone
    <3>1. c \in Kids
        BY <1>0 DEF TypeOK, Pids
    <3> QED
        BY <2>4, <3>1 DEF IInv, NegativeMeansGone, Exists
  <2>11. StandsForItsOwn'
    <3> SUFFICES ASSUME ~ignored, NEW g \in DOMAIN objs[Main], NEW c, c = objs[Main][g], c > 0
                 PROVE  ChildOf(Main, c)' /\ proc'[c].fork = g
        BY <1>1, <1>2, <2>1 DEF StandsForItsOwn
    <3>1. ChildOf(Main, c) /\ proc[c].fork = g
        BY DEF IInv, StandsForItsOwn
    <3> QED
        BY <2>4, <2>5, <3>1 DEF ChildOf
  <2> QED
      BY <1>2, <2>6, <2>7, <2>8, <2>9, <2>10, <2>11 DEF IInv
<1>4. CASE Zombie(k)
  <2>1. /\ proc' \in [Proc -> Entry] /\ proc'[k] = Gone
        /\ \A q \in Proc \ {k} : proc'[q] = proc[q]
        /\ \A q \in Proc : \A c \in Kids : ChildOf(q, c)' <=> c # k /\ ChildOf(q, c)
        /\ Family'
      BY <1>0, <1>1, <1>4, Reaped
  <2>2. TypeOK'
    <3>1. \A q \in Proc : \A g \in DOMAIN objs'[q] : objs'[q][g] \in Pids
        BY <1>0, <1>2 DEF TypeOK, Pids
    <3>2. \A q \in Proc : (waiting[q] # 0 => ChildOf(q, waiting[q]) \/ chld[q] = "ignore")'
      <4> SUFFICES ASSUME NEW q \in Proc, waiting[q] # 0, chld[q] # "ignore"
                   PROVE  ChildOf(q, waiting[q])'
          BY <1>1
      <4>1. ChildOf(q, waiting[q])
          BY <1>0 DEF TypeOK
      <4>2. waiting[q] # k
          BY <1>0, <4>1 DEF ChildOf
      <4> QED
          BY <1>1, <2>1, <4>1, <4>2 DEF ChildOf, Exists
    <3> QED
        BY <1>0, <1>1, <1>2, <2>1, <3>1, <3>2 DEF TypeOK
  <2>3. Numbered'
      BY <1>0, <1>1, <1>2, <2>1, EntryType DEF Numbered, TypeOK, Forks
  <2>4. Held'
    <3> SUFFICES ASSUME NEW q \in Proc, NEW c \in Kids, c # k, ChildOf(q, c)
                 PROVE  LET g == proc[c].fork IN
                        /\ g \in DOMAIN objs[q] => objs'[q][g] = c
                        /\ g \notin DOMAIN objs[q] => waiting[q] = c \/ proc[c].left
        BY <1>1, <1>2, <2>1 DEF Held
    <3>1. LET g == proc[c].fork IN
          /\ g \in DOMAIN objs[q] => objs[q][g] = c
          /\ g \notin DOMAIN objs[q] => waiting[q] = c \/ proc[c].left
        BY DEF IInv, Held
    <3>2. ~(q = p /\ proc[c].fork = h)
        BY <1>0, <3>1 DEF k
    <3> QED
        BY <1>2, <3>1, <3>2
  <2>5. MainHolds'
    <3>1. k > 0 /\ \A q \in Proc : waiting[q] = 0 \/ waiting[q] > 0
        BY <1>0 DEF TypeOK
    <3> QED
        BY <1>0, <1>1, <1>2, <3>1 DEF IInv, MainHolds
  <2>6. Kept' /\ KillsOnlyItsChildren'
      BY <1>1 DEF IInv, Kept, KillsOnlyItsChildren
  <2>7. NegativeMeansGone'
    <3> SUFFICES ASSUME NEW q \in Proc, NEW g \in DOMAIN objs[q], NEW c, c = -objs'[q][g],
                        c > 0, Exists(c)', proc'[c].fork = g
                 PROVE  FALSE
        BY <1>2 DEF NegativeMeansGone
    <3>1. CASE q = p /\ g = h
        BY <1>0, <1>2, <1>4, <2>1, <3>1 DEF Exists
    <3>2. CASE ~(q = p /\ g = h)
      <4>1. objs'[q][g] = objs[q][g] /\ c \in Kids
          BY <1>0, <1>2, <3>2 DEF TypeOK, Pids
      <4> QED
          BY <2>1, <4>1 DEF IInv, NegativeMeansGone, Exists
    <3> QED
        BY <3>1, <3>2
  <2>8. StandsForItsOwn'
    <3> SUFFICES ASSUME ~ignored, NEW g \in DOMAIN objs[Main], NEW c, c = objs'[Main][g], c > 0
                 PROVE  ChildOf(Main, c)' /\ proc'[c].fork = g
        BY <1>1, <1>2 DEF StandsForItsOwn
    <3>1. ~(Main = p /\ g = h)
        BY <1>0, <1>2, <1>4
    <3>2. objs[Main][g] = c
        BY <1>2, <3>1
    <3>3. ChildOf(Main, c) /\ proc[c].fork = g
        BY <3>2 DEF IInv, StandsForItsOwn
    <3>4. c # k
      <4>1. SUFFICES ASSUME c = k PROVE FALSE
          OBVIOUS
      <4>2. p = Main
          BY <1>0, <3>3, <4>1 DEF ChildOf
      <4>3. proc[k].fork = h
          BY <1>0, <4>2 DEF IInv, StandsForItsOwn, k
      <4> QED
          BY <3>1, <3>3, <4>1, <4>2, <4>3
    <3> QED
        BY <2>1, <3>3, <3>4 DEF ChildOf
  <2> QED
      BY <1>2, <2>1, <2>2, <2>3, <2>4, <2>5, <2>6, <2>7, <2>8 DEF IInv
<1> QED
    BY <1>3, <1>4

-----------------------------------------------------------------------------
(* The finalizer (src/fork.c:106-121).                                     *)

\* An object is collected.
LEMMA Collected ==
    ASSUME DOMAIN objs = Proc, NEW p \in Proc, NEW h \in DOMAIN objs[p],
           objs' = [objs EXCEPT ![p] = Without(objs[p], h)]
    PROVE  /\ DOMAIN objs' = Proc
           /\ DOMAIN objs'[p] = DOMAIN objs[p] \ {h}
           /\ \A q \in Proc \ {p} : objs'[q] = objs[q]
           /\ \A q \in Proc : \A g \in DOMAIN objs'[q] :
                  g \in DOMAIN objs[q] /\ objs'[q][g] = objs[q][g]
BY DEF Without, Restrict

LEMMA GcInChildOK ==
    ASSUME IInv, NEW p \in Proc, NEW h \in Forks, GcInChild(p, h)
    PROVE  IInv'
<1> USE Ids
<1>1. p \in Kids /\ proc[p].state = "run" /\ Die(p)
    BY DEF IInv, MainHolds, GcInChild, Runs
<1> QED
    BY <1>1, DieOK

LEMMA GcKillsOK ==
    ASSUME IInv, NEW p \in Proc, NEW h \in Forks, GcKills(p, h)
    PROVE  IInv'
<1> USE Ids
<1> DEFINE k == objs[p][h]
<1>0. /\ TypeOK /\ Family /\ DOMAIN objs = Proc
      /\ h \in DOMAIN objs[p] /\ ChildOf(p, k) /\ k \in Kids /\ k # Main /\ ~Zombie(k)
      /\ waiting[p] = 0 /\ proc[p].state = "run" /\ Living(k)
    BY EntryType DEF IInv, GcKills, Runs, LivingChild, Dying, ChildOf, Exists, Zombie, Living
<1>1. /\ objs' = [objs EXCEPT ![p] = Without(objs[p], h)]
      /\ proc' = [proc EXCEPT ![k].state = "doomed", ![k].news = FALSE]
      /\ waiting' = [waiting EXCEPT ![p] = k]
      /\ UNCHANGED <<chld, saved, ignored, signaled, made>>
    BY DEF GcKills, Killed, signals
<1>14. ~stray'
    BY <1>0 DEF GcKills, ChildOf, IInv, KillsOnlyItsChildren
<1> HIDE DEF k
<1>2. /\ DOMAIN objs' = Proc
      /\ DOMAIN objs'[p] = DOMAIN objs[p] \ {h}
      /\ \A q \in Proc \ {p} : objs'[q] = objs[q]
      /\ \A q \in Proc : \A g \in DOMAIN objs'[q] :
             g \in DOMAIN objs[q] /\ objs'[q][g] = objs[q][g]
    BY <1>0, <1>1, Collected
<1>3. /\ proc' \in [Proc -> Entry]
      /\ \A q \in Proc : /\ q # k => proc'[q] = proc[q]
                         /\ Exists(q)' <=> Exists(q)
                         /\ Living(q)' <=> Living(q)
                         /\ proc'[q].parent = proc[q].parent
                         /\ proc'[q].fork = proc[q].fork
                         /\ proc'[q].left = proc[q].left
    BY <1>0, <1>1, Relabelled
<1>4. \A q \in Proc : \A c \in Kids : ChildOf(q, c)' <=> ChildOf(q, c)
    BY <1>3 DEF ChildOf
<1>5. waiting'[p] = k /\ \A q \in Proc \ {p} : waiting'[q] = waiting[q]
    BY <1>0, <1>1 DEF TypeOK
<1>6. TypeOK'
  <2>1. waiting' \in [Proc -> Kids \cup {0}]
      BY <1>0, <1>1 DEF TypeOK
  <2>2. \A q \in Proc : (waiting[q] # 0 => ChildOf(q, waiting[q]) \/ chld[q] = "ignore")'
    <3> SUFFICES ASSUME NEW q \in Proc, waiting'[q] # 0, chld[q] # "ignore"
                 PROVE  ChildOf(q, waiting[q])'
        BY <1>1
    <3>1. waiting'[q] \in Kids /\ ChildOf(q, waiting'[q])
        BY <1>0, <1>5 DEF TypeOK
    <3> QED
        BY <1>3, <3>1 DEF ChildOf
  <2>3. /\ \A q \in Proc : DOMAIN objs'[q] \subseteq Forks
        /\ \A q \in Proc : \A g \in DOMAIN objs'[q] : objs'[q][g] \in Pids
      BY <1>0, <1>2 DEF TypeOK
  <2> QED
      BY <1>0, <1>1, <1>3, <2>1, <2>2, <2>3 DEF TypeOK
<1>7. Family'
  <2>1. \A q \in Proc : waiting'[q] # 0 => Living(q)
      BY <1>0, <1>5 DEF Family, Living
  <2> QED
      BY <1>0, <1>3, <2>1 DEF Family
<1>8. Numbered'
    BY <1>1, <1>2, <1>3 DEF IInv, Numbered
<1>9. Held'
  <2> SUFFICES ASSUME NEW q \in Proc, NEW c \in Kids, ChildOf(q, c)
               PROVE  LET g == proc[c].fork IN
                      /\ g \in DOMAIN objs'[q] => objs'[q][g] = c
                      /\ g \notin DOMAIN objs'[q] => waiting'[q] = c \/ proc[c].left
      BY <1>3, <1>4 DEF Held
  <2>1. LET g == proc[c].fork IN
        /\ g \in DOMAIN objs[q] => objs[q][g] = c
        /\ g \notin DOMAIN objs[q] => waiting[q] = c \/ proc[c].left
      BY DEF IInv, Held
  <2>2. CASE q = p /\ proc[c].fork = h
      BY <1>0, <1>2, <1>5, <2>1, <2>2 DEF k
  <2>3. CASE ~(q = p /\ proc[c].fork = h)
      BY <1>0, <1>2, <1>5, <2>1, <2>3
  <2> QED
      BY <2>2, <2>3
<1>10. Kept' /\ KillsOnlyItsChildren'
    BY <1>1, <1>14 DEF IInv, Kept, KillsOnlyItsChildren
<1>11. MainHolds'
  <2>1. \A g \in DOMAIN objs'[Main] : objs'[Main][g] # 0
      BY <1>2 DEF IInv, MainHolds
  <2>2. ASSUME ~ignored, NEW g \in DOMAIN objs'[Main], objs'[Main][g] = waiting'[Main]
        PROVE  waiting'[Main] = 0
    <3>1. CASE p = Main
      <4>1. objs[Main][g] = k /\ objs[Main][h] = k /\ g \in DOMAIN objs[Main] /\ g # h /\ k > 0
          BY <1>0, <1>2, <1>5, <2>2, <3>1 DEF k
      <4>2. proc[k].fork = g /\ proc[k].fork = h
          BY <1>0, <2>2, <3>1, <4>1 DEF IInv, StandsForItsOwn
      <4> QED
          BY <4>1, <4>2
    <3>2. CASE p # Main
        BY <1>2, <1>5, <2>2, <3>2 DEF IInv, MainHolds
    <3> QED
        BY <3>1, <3>2
  <2> QED
      BY <1>1, <2>1, <2>2 DEF MainHolds
<1>12. NegativeMeansGone'
  <2> SUFFICES ASSUME NEW q \in Proc, NEW g \in DOMAIN objs'[q], NEW c, c = -objs'[q][g],
                      c > 0, Exists(c)', proc'[c].fork = g
               PROVE  FALSE
      BY DEF NegativeMeansGone
  <2>1. c \in Kids /\ g \in DOMAIN objs[q] /\ c = -objs[q][g]
      BY <1>0, <1>2 DEF TypeOK, Pids
  <2> QED
      BY <1>3, <2>1 DEF IInv, NegativeMeansGone
<1>13. StandsForItsOwn'
  <2> SUFFICES ASSUME ~ignored, NEW g \in DOMAIN objs'[Main], NEW c, c = objs'[Main][g], c > 0
               PROVE  ChildOf(Main, c)' /\ proc'[c].fork = g
      BY <1>1 DEF StandsForItsOwn
  <2>1. ChildOf(Main, c) /\ proc[c].fork = g
      BY <1>2 DEF IInv, StandsForItsOwn
  <2> QED
      BY <1>3, <1>4, <2>1 DEF ChildOf
<1> QED
    BY <1>2, <1>6, <1>7, <1>8, <1>9, <1>10, <1>11, <1>12, <1>13 DEF IInv

\* A zombie is taken from the kernel by a finalizer, if k is one.
LEMMA ReapedIfZombie ==
    ASSUME TypeOK, Family, NEW p \in Proc, NEW k,
           proc' = IF ChildOf(p, k) /\ Zombie(k) THEN [proc EXCEPT ![k] = Gone] ELSE proc,
           \A q \in Proc : waiting'[q] \in {waiting[q], 0}
    PROVE  /\ proc' \in [Proc -> Entry]
           /\ \A q \in Proc : proc'[q] = proc[q] \/ proc'[q] = Gone
           /\ \A q \in Proc : \A c \in Kids : ChildOf(q, c)' => ChildOf(q, c) /\ proc'[c] = proc[c]
           /\ \A q \in Proc : \A c \in Kids :
                  ChildOf(q, c) /\ ~(q = p /\ c = k /\ Zombie(k)) => ChildOf(q, c)'
           /\ Family'
<1> USE Ids, GoneEntry
<1>1. CASE ChildOf(p, k) /\ Zombie(k)
  <2>1. k \in Kids /\ proc[k].parent = p /\ proc' = [proc EXCEPT ![k] = Gone]
      BY <1>1 DEF ChildOf
  <2>2. proc' \in [Proc -> Entry] /\ proc'[k] = Gone /\ \A q \in Proc \ {k} : proc'[q] = proc[q]
      BY <2>1 DEF TypeOK
  <2>3. \A q \in Proc : \A c \in Kids : ChildOf(q, c)' <=> c # k /\ ChildOf(q, c)
      BY <2>1, <2>2 DEF ChildOf, Exists
  <2>4. \A q \in Proc : Living(q) => q # k /\ Living(q)'
      BY <1>1, <2>2 DEF Living, Zombie
  <2>5. Family'
      BY <2>1, <2>2, <2>4 DEF Family, Exists
  <2>6. \A q \in Proc : \A c \in Kids : ChildOf(q, c) => proc[c].parent = q
      BY DEF ChildOf
  <2> QED
      BY <1>1, <2>1, <2>2, <2>3, <2>5, <2>6
<1>2. CASE ~(ChildOf(p, k) /\ Zombie(k))
  <2>1. proc' = proc
      BY <1>2
  <2>2. Family'
      BY <2>1 DEF Family, Exists, Living
  <2> QED
      BY <2>1, <2>2 DEF TypeOK, ChildOf, Exists
<1> QED
    BY <1>1, <1>2

\* What a finalizer that may take k from the kernel preserves.
LEMMA FinalizerOK ==
    ASSUME IInv, NEW p \in Proc, NEW k,
           proc' = IF ChildOf(p, k) /\ Zombie(k) THEN [proc EXCEPT ![k] = Gone] ELSE proc,
           DOMAIN objs' = Proc,
           \A q \in Proc : \A g \in DOMAIN objs'[q] :
               g \in DOMAIN objs[q] /\ objs'[q][g] = objs[q][g],
           waiting' \in [Proc -> Kids \cup {0}], waiting'[p] = 0,
           \A q \in Proc : waiting'[q] \in {waiting[q], 0},
           signaled' \in [Proc -> BOOLEAN],
           UNCHANGED <<signals, made, stray>>,
           ~ignored /\ p = Main /\ ChildOf(p, k) /\ Zombie(k) =>
               \A g \in DOMAIN objs'[Main] : objs'[Main][g] # k,
           Held'
    PROVE  IInv'
<1> USE Ids, GoneEntry
<1>0. TypeOK /\ Family /\ UNCHANGED <<chld, saved, ignored, made, stray>>
    BY DEF IInv, signals
<1>1. /\ proc' \in [Proc -> Entry]
      /\ \A q \in Proc : proc'[q] = proc[q] \/ proc'[q] = Gone
      /\ \A q \in Proc : \A c \in Kids : ChildOf(q, c)' => ChildOf(q, c) /\ proc'[c] = proc[c]
      /\ \A q \in Proc : \A c \in Kids :
             ChildOf(q, c) /\ ~(q = p /\ c = k /\ Zombie(k)) => ChildOf(q, c)'
      /\ Family'
    BY <1>0, ReapedIfZombie
<1>2. TypeOK'
  <2>1. /\ \A q \in Proc : DOMAIN objs'[q] \subseteq Forks
        /\ \A q \in Proc : \A g \in DOMAIN objs'[q] : objs'[q][g] \in Pids
      BY <1>0 DEF TypeOK
  <2>2. \A q \in Proc : (waiting[q] # 0 => ChildOf(q, waiting[q]) \/ chld[q] = "ignore")'
    <3> SUFFICES ASSUME NEW q \in Proc, waiting'[q] # 0, chld[q] # "ignore"
                 PROVE  (ChildOf(q, waiting[q]))'
        BY <1>0
    <3>1. q # p /\ waiting'[q] = waiting[q] /\ waiting[q] \in Kids /\ ChildOf(q, waiting[q])
        BY <1>0 DEF TypeOK
    <3> QED
        BY <1>1, <3>1 DEF ChildOf, Exists
  <2> QED
      BY <1>0, <1>1, <2>1, <2>2 DEF TypeOK
<1>3. Numbered'
  <2>1. \A c \in Kids : proc'[c].fork <= made
      BY <1>0, <1>1 DEF IInv, Numbered, TypeOK, Forks
  <2> QED
      BY <1>0, <2>1 DEF IInv, Numbered
<1>4. MainHolds' /\ Kept' /\ KillsOnlyItsChildren'
  <2>1. \A g \in DOMAIN objs'[Main] : objs'[Main][g] # 0
      BY DEF IInv, MainHolds
  <2>2. ASSUME ~ignored, NEW g \in DOMAIN objs'[Main], objs'[Main][g] = waiting'[Main]
        PROVE  waiting'[Main] = 0
      BY <2>2 DEF IInv, MainHolds
  <2> QED
      BY <1>0, <2>1, <2>2 DEF IInv, MainHolds, Kept, KillsOnlyItsChildren
<1>5. NegativeMeansGone'
  <2> SUFFICES ASSUME NEW q \in Proc, NEW g \in DOMAIN objs'[q], NEW c, c = -objs'[q][g],
                      c > 0, Exists(c)', proc'[c].fork = g
               PROVE  FALSE
      BY DEF NegativeMeansGone
  <2>1. c \in Kids /\ g \in DOMAIN objs[q] /\ c = -objs[q][g]
      BY <1>0 DEF TypeOK, Pids
  <2>2. proc'[c] = proc[c]
      BY <1>1, <2>1 DEF Exists
  <2> QED
      BY <2>1, <2>2 DEF IInv, NegativeMeansGone, Exists
<1>6. StandsForItsOwn'
  <2> SUFFICES ASSUME ~ignored, NEW g \in DOMAIN objs'[Main], NEW c, c = objs'[Main][g], c > 0
               PROVE  ChildOf(Main, c)' /\ proc'[c].fork = g
      BY <1>0 DEF StandsForItsOwn
  <2>1. ChildOf(Main, c) /\ proc[c].fork = g
      BY DEF IInv, StandsForItsOwn
  <2>2. c \in Kids /\ ~(Main = p /\ c = k /\ Zombie(k))
      BY <2>1 DEF ChildOf
  <2> QED
      BY <1>1, <2>1, <2>2
<1> QED
    BY <1>1, <1>2, <1>3, <1>4, <1>5, <1>6 DEF IInv

LEMMA GcReapsOK ==
    ASSUME IInv, NEW p \in Proc, NEW h \in Forks, GcReaps(p, h)
    PROVE  IInv'
<1> USE Ids
<1> DEFINE k == objs[p][h]
<1>0. /\ TypeOK /\ Family /\ DOMAIN objs = Proc
      /\ h \in DOMAIN objs[p] /\ waiting[p] = 0 /\ k \in Pids /\ ~LivingChild(p, k)
    BY DEF IInv, GcReaps, Runs, TypeOK
<1>1. /\ objs' = [objs EXCEPT ![p] = Without(objs[p], h)]
      /\ proc' = IF ChildOf(p, k) /\ Zombie(k) THEN [proc EXCEPT ![k] = Gone] ELSE proc
      /\ UNCHANGED <<signals, waiting, signaled, made, stray>>
    BY DEF GcReaps
<1> HIDE DEF k
<1>2. /\ DOMAIN objs' = Proc
      /\ DOMAIN objs'[p] = DOMAIN objs[p] \ {h}
      /\ \A q \in Proc \ {p} : objs'[q] = objs[q]
      /\ \A q \in Proc : \A g \in DOMAIN objs'[q] :
             g \in DOMAIN objs[q] /\ objs'[q][g] = objs[q][g]
    BY <1>0, <1>1, Collected
<1>3. /\ waiting' \in [Proc -> Kids \cup {0}] /\ waiting'[p] = 0
      /\ \A q \in Proc : waiting'[q] \in {waiting[q], 0}
      /\ signaled' \in [Proc -> BOOLEAN]
    BY <1>0, <1>1 DEF TypeOK
<1>4. \A q \in Proc : \A c \in Kids : ChildOf(q, c)' => ChildOf(q, c) /\ proc'[c] = proc[c]
    BY <1>0, <1>1, <1>3, ReapedIfZombie
<1>5. ~ignored /\ p = Main /\ ChildOf(p, k) /\ Zombie(k) =>
          \A g \in DOMAIN objs'[Main] : objs'[Main][g] # k
  <2> SUFFICES ASSUME ~ignored, p = Main, ChildOf(p, k),
                      NEW g \in DOMAIN objs'[Main], objs'[Main][g] = k
               PROVE  FALSE
      OBVIOUS
  <2>1. k > 0 /\ g \in DOMAIN objs[Main] /\ g # h /\ objs[Main][g] = k /\ objs[Main][h] = k
      BY <1>2 DEF ChildOf, k
  <2>2. proc[k].fork = g /\ proc[k].fork = h
      BY <1>0, <2>1 DEF IInv, StandsForItsOwn
  <2> QED
      BY <2>1, <2>2
<1>6. Held'
  <2> SUFFICES ASSUME NEW q \in Proc, NEW c \in Kids, ChildOf(q, c)'
               PROVE  LET g == proc[c].fork IN
                      /\ g \in DOMAIN objs'[q] => objs'[q][g] = c
                      /\ g \notin DOMAIN objs'[q] => waiting[q] = c \/ proc[c].left
      BY <1>1, <1>4 DEF Held
  <2>1. ChildOf(q, c) /\ proc'[c] = proc[c]
      BY <1>4
  <2>2. LET g == proc[c].fork IN
        /\ g \in DOMAIN objs[q] => objs[q][g] = c
        /\ g \notin DOMAIN objs[q] => waiting[q] = c \/ proc[c].left
      BY <2>1 DEF IInv, Held
  <2>3. ~(q = p /\ proc[c].fork = h)
    <3> SUFFICES ASSUME q = p, proc[c].fork = h PROVE FALSE
        OBVIOUS
    <3>1. c = k /\ k > 1
        BY <1>0, <2>2 DEF k
    <3>2. Zombie(k)
        BY <1>0, <2>1, <3>1 DEF LivingChild, Dying
    <3>3. proc'[k] = Gone
        BY <1>0, <1>1, <2>1, <3>1, <3>2 DEF TypeOK
    <3> QED
        BY <3>1, <3>3, GoneEntry DEF ChildOf, Exists
  <2> QED
      BY <1>2, <2>2, <2>3
<1> QED
    BY <1>0, <1>1, <1>2, <1>3, <1>5, <1>6, FinalizerOK

(* A finalizer that saw its child end takes it from the kernel             *)
(* (src/fork.c:115-117).                                                   *)
LEMMA GcWaitedOK ==
    ASSUME IInv, NEW p \in Proc, GcWaited(p)
    PROVE  IInv'
<1> USE Ids
<1> DEFINE k == waiting[p]
<1>0. /\ TypeOK /\ Family /\ DOMAIN objs = Proc
      /\ k # 0 /\ k \in Kids /\ ~Dying(p, k)
    BY DEF IInv, GcWaited, TypeOK
<1>1. /\ proc' = IF ChildOf(p, k) THEN [proc EXCEPT ![k] = Gone] ELSE proc
      /\ waiting' = [waiting EXCEPT ![p] = 0]
      /\ signaled' = [signaled EXCEPT ![p] = FALSE]
      /\ UNCHANGED <<objs, signals, made, stray>>
    BY DEF GcWaited
<1> HIDE DEF k
<1>2. proc' = IF ChildOf(p, k) /\ Zombie(k) THEN [proc EXCEPT ![k] = Gone] ELSE proc
    BY <1>0, <1>1 DEF Dying
<1>3. /\ waiting' \in [Proc -> Kids \cup {0}] /\ waiting'[p] = 0
      /\ \A q \in Proc : waiting'[q] \in {waiting[q], 0}
      /\ \A q \in Proc \ {p} : waiting'[q] = waiting[q]
      /\ signaled' \in [Proc -> BOOLEAN]
    BY <1>0, <1>1 DEF TypeOK
<1>4. \A q \in Proc : \A c \in Kids : ChildOf(q, c)' => ChildOf(q, c) /\ proc'[c] = proc[c]
    BY <1>0, <1>2, <1>3, ReapedIfZombie
<1>5. ~ignored /\ p = Main => \A g \in DOMAIN objs'[Main] : objs'[Main][g] # k
    BY <1>0, <1>1 DEF IInv, MainHolds, k
<1>6. Held'
  <2> SUFFICES ASSUME NEW q \in Proc, NEW c \in Kids, ChildOf(q, c)'
               PROVE  LET g == proc[c].fork IN
                      /\ g \in DOMAIN objs[q] => objs[q][g] = c
                      /\ g \notin DOMAIN objs[q] => waiting'[q] = c \/ proc[c].left
      BY <1>1, <1>4 DEF Held
  <2>1. ChildOf(q, c) /\ proc'[c] = proc[c]
      BY <1>4
  <2>2. LET g == proc[c].fork IN
        /\ g \in DOMAIN objs[q] => objs[q][g] = c
        /\ g \notin DOMAIN objs[q] => waiting[q] = c \/ proc[c].left
      BY <2>1 DEF IInv, Held
  <2>3. ~(q = p /\ c = k)
    <3> SUFFICES ASSUME q = p, c = k PROVE FALSE
        OBVIOUS
    <3>1. proc'[k] = Gone
        BY <1>0, <1>1, <2>1 DEF TypeOK
    <3> QED
        BY <3>1, GoneEntry DEF ChildOf, Exists
  <2> QED
      BY <1>3, <2>2, <2>3 DEF k
<1> QED
    BY <1>0, <1>1, <1>2, <1>3, <1>5, <1>6, FinalizerOK

(* A finalizer that a signal interrupts gives its child up, and says so    *)
(* (src/fork.c:116).                                                       *)
LEMMA GcInterruptedOK ==
    ASSUME IInv, NEW p \in Proc, GcInterrupted(p)
    PROVE  IInv'
<1> USE Ids
<1> DEFINE k == waiting[p]
<1>0. /\ TypeOK /\ Family /\ DOMAIN objs = Proc
      /\ k # 0 /\ k \in Kids /\ ChildOf(p, k)
    BY DEF IInv, GcInterrupted, TypeOK, Dying
<1>1. /\ proc' = [proc EXCEPT ![k].left = TRUE]
      /\ waiting' = [waiting EXCEPT ![p] = 0]
      /\ signaled' = [signaled EXCEPT ![p] = FALSE]
      /\ UNCHANGED <<objs, chld, saved, ignored, made, stray>>
    BY DEF GcInterrupted, signals
<1>12. waiting[p] = k
    OBVIOUS
<1> HIDE DEF k
<1>2. waiting'[p] = 0 /\ \A q \in Proc \ {p} : waiting'[q] = waiting[q]
    BY <1>0, <1>1 DEF TypeOK
<1>3. /\ proc' \in [Proc -> Entry] /\ proc'[k].left = TRUE
      /\ \A q \in Proc : /\ q # k => proc'[q] = proc[q]
                         /\ proc'[q].state = proc[q].state
                         /\ proc'[q].parent = proc[q].parent
                         /\ proc'[q].fork = proc[q].fork
  <2> DEFINE e == [proc[k] EXCEPT !.left = TRUE]
  <2>1. e \in Entry /\ e.state = proc[k].state /\ e.parent = proc[k].parent
        /\ e.fork = proc[k].fork /\ e.left = TRUE
    <3>1. proc[k] \in Entry
        BY <1>0, EntryType
    <3>2. e \in Entry
        BY <3>1 DEF Entry
    <3>3. e.state = proc[k].state /\ e.parent = proc[k].parent /\ e.fork = proc[k].fork
        BY <3>1 DEF Entry
    <3>4. e.left = TRUE
        BY <3>1 DEF Entry
    <3> QED
        BY <3>2, <3>3, <3>4
  <2> HIDE DEF e
  <2>2. proc' = [proc EXCEPT ![k] = e]
      BY <1>1 DEF e
  <2> QED
      BY <1>0, <2>1, <2>2 DEF TypeOK
<1>4. \A q \in Proc : \A c : ChildOf(q, c)' <=> ChildOf(q, c)
    BY <1>3 DEF ChildOf, Exists
<1>5. TypeOK'
  <2>1. waiting' \in [Proc -> Kids \cup {0}] /\ signaled' \in [Proc -> BOOLEAN]
      BY <1>0, <1>1 DEF TypeOK
  <2>2. \A q \in Proc : (waiting[q] # 0 => ChildOf(q, waiting[q]) \/ chld[q] = "ignore")'
    <3> SUFFICES ASSUME NEW q \in Proc, waiting'[q] # 0, chld[q] # "ignore"
                 PROVE  (ChildOf(q, waiting[q]))'
        BY <1>1
    <3>1. waiting'[q] = waiting[q] /\ ChildOf(q, waiting[q])
        BY <1>0, <1>2 DEF TypeOK
    <3> QED
        BY <1>3, <3>1 DEF ChildOf, Exists
  <2> QED
      BY <1>0, <1>1, <1>3, <2>1, <2>2 DEF TypeOK
<1>6. Family'
  <2>1. \A q \in Proc : waiting'[q] # 0 => Living(q)
      BY <1>0, <1>2 DEF Family
  <2> QED
      BY <1>0, <1>3, <2>1 DEF Family, Exists, Living
<1>7. Numbered'
    BY <1>1, <1>3 DEF IInv, Numbered
<1>8. Held'
  <2> SUFFICES ASSUME NEW q \in Proc, NEW c \in Kids, ChildOf(q, c)
               PROVE  LET g == proc[c].fork IN
                      /\ g \in DOMAIN objs[q] => objs[q][g] = c
                      /\ g \notin DOMAIN objs[q] => waiting'[q] = c \/ proc'[c].left
      BY <1>1, <1>3, <1>4 DEF Held
  <2>1. LET g == proc[c].fork IN
        /\ g \in DOMAIN objs[q] => objs[q][g] = c
        /\ g \notin DOMAIN objs[q] => waiting[q] = c \/ proc[c].left
      BY DEF IInv, Held
  <2>2. CASE c = k
      BY <1>3, <2>1, <2>2
  <2>3. CASE c # k
      BY <1>2, <1>3, <1>12, <2>1, <2>3
  <2> QED
      BY <2>2, <2>3
<1>9. MainHolds' /\ Kept' /\ KillsOnlyItsChildren'
  <2>1. ASSUME ~ignored, NEW g \in DOMAIN objs[Main], objs[Main][g] = waiting'[Main]
        PROVE  waiting'[Main] = 0
      BY <1>2, <2>1 DEF IInv, MainHolds
  <2> QED
      BY <1>1, <2>1 DEF IInv, MainHolds, Kept, KillsOnlyItsChildren
<1>10. NegativeMeansGone'
  <2> SUFFICES ASSUME NEW q \in Proc, NEW g \in DOMAIN objs[q], NEW c, c = -objs[q][g],
                      c > 0, Exists(c)', proc'[c].fork = g
               PROVE  FALSE
      BY <1>1 DEF NegativeMeansGone
  <2>1. c \in Kids
      BY <1>0 DEF TypeOK, Pids
  <2> QED
      BY <1>3, <2>1 DEF IInv, NegativeMeansGone, Exists
<1>11. StandsForItsOwn'
  <2> SUFFICES ASSUME ~ignored, NEW g \in DOMAIN objs[Main], NEW c, c = objs[Main][g], c > 0
               PROVE  ChildOf(Main, c)' /\ proc'[c].fork = g
      BY <1>1 DEF StandsForItsOwn
  <2>1. ChildOf(Main, c) /\ proc[c].fork = g
      BY DEF IInv, StandsForItsOwn
  <2> QED
      BY <1>3, <1>4, <2>1 DEF ChildOf
<1> QED
    BY <1>0, <1>1, <1>5, <1>6, <1>7, <1>8, <1>9, <1>10, <1>11 DEF IInv

-----------------------------------------------------------------------------
(* The theorems.                                                           *)

LEMMA NextOK ==
    ASSUME IInv, [Next]_vars
    PROVE  IInv'
<1>1. CASE UNCHANGED vars
  <2>1. UNCHANGED <<proc, objs, chld, saved, ignored, waiting, signaled, made, stray>>
      BY <1>1 DEF vars, signals
  <2>2. TypeOK' /\ (DOMAIN objs = Proc)' /\ Family' /\ Numbered' /\ Held'
      BY <2>1 DEF IInv, TypeOK, Family, Numbered, Held, ChildOf, Exists, Living
  <2>3. MainHolds' /\ Kept' /\ KillsOnlyItsChildren' /\ NegativeMeansGone' /\ StandsForItsOwn'
      BY <2>1 DEF IInv, MainHolds, Kept, KillsOnlyItsChildren, NegativeMeansGone,
                  StandsForItsOwn, ChildOf, Exists
  <2> QED
      BY <2>2, <2>3 DEF IInv
<1>2. CASE Kernel
  <2>1. ASSUME NEW k \in Kids, Exit(k) \/ KillTakesEffect(k) PROVE IInv'
      BY <2>1, DieOK DEF Exit, KillTakesEffect
  <2>2. ASSUME NEW k \in Kids, SendStop(k) \/ SendCont(k) PROVE IInv'
      BY <2>2, SwitchOK DEF SendStop, SendCont
  <2>3. ASSUME NEW k \in Kids, SendKill(k) PROVE IInv'
      BY <2>3, SendKillOK
  <2>4. ASSUME NEW p \in Proc, SendChld(p) PROVE IInv'
      BY <2>4, SendChldOK
  <2> QED
      BY <1>2, <2>1, <2>2, <2>3, <2>4 DEF Kernel
<1>3. ASSUME NEW p \in Proc, NEW h \in Forks,
             \/ \E k \in Kids : Fork(p, k, h)
             \/ Wait(p, h) \/ GcInChild(p, h) \/ GcKills(p, h) \/ GcReaps(p, h)
      PROVE  IInv'
    BY <1>3, ForkOK, WaitOK, GcInChildOK, GcKillsOK, GcReapsOK
<1>4. ASSUME NEW p \in Proc, GcWaited(p) \/ GcInterrupted(p)
      PROVE  IInv'
    BY <1>4, GcWaitedOK, GcInterruptedOK
<1>5. ASSUME NEW p \in Proc,
             SigIgnore(p) \/ SigDefault(p) \/ NoSigChldOn(p) \/ NoSigChldOff(p)
      PROVE  IInv'
    BY <1>5, SignalCallsOK
<1> QED
    BY <1>1, <1>2, <1>3, <1>4, <1>5 DEF Next

LEMMA Invariant == Spec => []IInv
<1>1. Init => IInv
    BY IInvInit
<1>2. IInv /\ [Next]_vars => IInv'
    BY NextOK
<1> QED
    BY <1>1, <1>2, PTL DEF Spec

(* Whatever processes are forked, collected and signalled, a proc object   *)
(* holds 0, the pid of a child or minus one, and a finalizer waits for a   *)
(* child of its process or for one the kernel did not keep                 *)
(* (src/fork.c:106-121, 130-153).                                          *)
THEOREM TypeCorrect == Spec => []TypeOK
<1>1. IInv => TypeOK
    BY DEF IInv
<1> QED
    BY <1>1, Invariant, PTL

(* waitpid(WNOHANG) keeps a finalizer from killing a process that is not   *)
(* its child, also when pids are given again (src/fork.c:113-117).         *)
THEOREM OnlyChildrenKilled == Spec => []KillsOnlyItsChildren
<1>1. IInv => KillsOnlyItsChildren
    BY DEF IInv
<1> QED
    BY <1>1, Invariant, PTL

(* wait() makes the pid of an object negative for none but a process that  *)
(* is gone (src/fork.c:63-85).                                             *)
THEOREM NegativeIsGone == Spec => []NegativeMeansGone
<1>1. IInv => NegativeMeansGone
    BY DEF IInv
<1> QED
    BY <1>1, Invariant, PTL

(* As long as SIGCHLD is not ignored, a proc object of the first process   *)
(* stands for the child it was made for (src/fork.c:35-43, 111-117;        *)
(* src/nosigchld.c:55-64).                                                 *)
THEOREM ObjectsStandForTheirOwn == Spec => []StandsForItsOwn
<1>1. IInv => StandsForItsOwn
    BY DEF IInv
<1> QED
    BY <1>1, Invariant, PTL

(* A child that its parent runs on without was given up by a finalizer     *)
(* that a signal interrupted, and by nothing else (src/fork.c:113-117).    *)
THEOREM NoChildLeftBehind == Spec => []CollectedIsGone
<1>1. IInv => CollectedIsGone
  <2> SUFFICES ASSUME IInv, NEW k \in Kids, LeftBehind(k) PROVE proc[k].left
      BY DEF CollectedIsGone
  <2>1. proc[k].parent \in Proc
      BY Ids, EntryType DEF IInv, LeftBehind
  <2>2. ChildOf(proc[k].parent, k)
      BY DEF LeftBehind, ChildOf
  <2>3. proc[k].fork \notin DOMAIN objs[proc[k].parent] /\ waiting[proc[k].parent] # k
      BY DEF LeftBehind
  <2> QED
      BY <2>1, <2>2, <2>3 DEF IInv, Held
<1> QED
    BY <1>1, Invariant, PTL
=============================================================================
