---------------------------- MODULE CommandProofs ----------------------------
(***************************************************************************)
(* Theorems about Command, and about Loader in it: for any files, any      *)
(* names, lines and directories, and any number of functions.              *)
(***************************************************************************)
EXTENDS Command, FiniteSetTheorems, SequenceTheorems, TLAPS

\* The theorems about the runner, for every list that it may be given.
RP == INSTANCE ReportProofs WITH
          Kids <- {}, TestName <- Name, Lists <- Seq(R!Source)

-----------------------------------------------------------------------------
(* The list of the loader.                                                 *)

(* Loader counts as this module does.                                      *)
LEMMA SameCardinality == \A S : L!Cardinality(S) = Cardinality(S)
  BY DEF Cardinality, L!Cardinality

(* A sequence of the elements of a finite set has each of them once.       *)
LEMMA EachOnce ==
    ASSUME NEW S, IsFiniteSet(S), NEW q \in L!SetToSeqs(S)
    PROVE  /\ q \in Seq(S) /\ DOMAIN q = 1 .. Len(q)
           /\ \A i, j \in DOMAIN q : q[i] = q[j] => i = j
           /\ \A x \in S : \E i \in DOMAIN q : q[i] = x
<1> DEFINE n == Cardinality(S)
           D == 1 .. n
<1>1. n \in Nat /\ IsFiniteSet(D) /\ Cardinality(D) = n
  BY FS_CardinalityType, FS_Interval
<1>2. q \in [D -> S] /\ \A i, j \in D : i # j => q[i] # q[j]
  BY SameCardinality DEF L!SetToSeqs
<1>3. q \in Seq(S) /\ Len(q) = n /\ DOMAIN q = D
  BY <1>1, <1>2
<1>4. q \in Injection(D, S)
  BY <1>2 DEF Injection, IsInjective
<1> HIDE DEF D, n
<1>5. q \in Surjection(D, S)
  BY <1>1, <1>4, FS_Injection DEF n
<1>6. \A x \in S : \E i \in D : q[i] = x
  BY <1>5 DEF Surjection
<1> QED
  BY <1>2, <1>3, <1>6 DEF D

\* What the registry is while files are loaded.
Registered ==
    /\ lcwd \in Dirs
    /\ IsFiniteSet(registry)
    /\ \A r \in registry : r.file \in File /\ r.name \in Name
    /\ \A r, s \in registry : r.file = s.file /\ r.name = s.name => r = s

\* The list is a sequence of files with functions of the registry.
ListTyped ==
    /\ \E n \in Nat : DOMAIN list = 1 .. n
    /\ \A i \in DOMAIN list :
           /\ list[i].src \in File
           /\ \A r \in list[i].hooks : r.name \in L!HookNames
           /\ list[i].tests \in Seq({r \in registry : r.file = list[i].src
                                                    /\ r.name \notin L!HookNames})

\* Nothing runs any more once the list is made.
LoaderInv ==
    /\ Registered
    /\ lphase = "listed" => current = L!NoFile /\ todo = << >> /\ ListTyped
    /\ ListComplete

(* The listings of a file have its functions, each once, by line.          *)
LEMMA ListingOf ==
    ASSUME Registered, NEW f, NEW e \in L!Listings(f)
    PROVE  /\ e.src = f
           /\ \A r : r \in e.hooks <=> r \in registry /\ r.file = f /\ r.name \in L!HookNames
           /\ e.tests \in Seq({r \in registry : r.file = f /\ r.name \notin L!HookNames})
           /\ DOMAIN e.tests = 1 .. Len(e.tests)
           /\ \A i, j \in DOMAIN e.tests : e.tests[i] = e.tests[j] => i = j
           /\ \A r \in registry : r.file = f /\ r.name \notin L!HookNames
                                  => \E k \in DOMAIN e.tests : e.tests[k] = r
           /\ \A i, j \in DOMAIN e.tests : i < j => e.tests[i].line <= e.tests[j].line
<1> DEFINE mine == {r \in registry : r.file = f}
           tests == {r \in mine : ~L!IsHook(r)}
<1>1. PICK s \in L!SetToSeqs(tests) :
          /\ L!IsSorted(s, LAMBDA a, b : a.line <= b.line)
          /\ e = [src |-> f, hooks |-> {r \in mine : L!IsHook(r)}, tests |-> s]
  BY DEF L!Listings
<1>2. IsFiniteSet(tests)
  BY FS_Subset DEF Registered
<1>3. /\ s \in Seq(tests) /\ DOMAIN s = 1 .. Len(s)
      /\ \A i, j \in DOMAIN s : s[i] = s[j] => i = j
      /\ \A x \in tests : \E i \in DOMAIN s : s[i] = x
  <2> HIDE DEF tests
  <2> QED
    BY <1>2, EachOnce
<1>4. \A i, j \in DOMAIN s : i < j => s[i].line <= s[j].line
  BY <1>1, <1>3 DEF L!IsSorted
<1>5. e.src = f /\ e.hooks = {r \in mine : L!IsHook(r)} /\ e.tests = s
  BY <1>1
<1>6. tests = {r \in registry : r.file = f /\ r.name \notin L!HookNames}
  BY DEF L!IsHook
<1> HIDE DEF tests
<1> QED
  BY <1>3, <1>4, <1>5, <1>6 DEF L!IsHook

(* getlist() makes a complete list (lib/registry.lua:62-93).               *)
LEMMA GetListOK ==
    ASSUME Registered, L!GetList
    PROVE  ListTyped' /\ ListComplete'
<1> DEFINE S == {r.file : r \in registry}
<1>1. PICK files \in L!SetToSeqs(S) :
          /\ L!IsSorted(files, <)
          /\ DOMAIN list' = DOMAIN files
          /\ \A i \in DOMAIN files : list'[i] \in L!Listings(files[i])
  BY DEF L!GetList
<1>2. registry' = registry
  BY DEF L!GetList
<1>3. IsFiniteSet(S)
  <2> DEFINE b == [r \in registry |-> r.file]
  <2>1. b \in Surjection(registry, S)
    BY DEF Surjection
  <2> HIDE DEF b, S
  <2> QED
    BY <2>1, FS_Surjection DEF Registered
<1> HIDE DEF S
<1>4. /\ DOMAIN files = 1 .. Len(files) /\ files \in Seq(S)
      /\ \A i, j \in DOMAIN files : files[i] = files[j] => i = j
      /\ \A x \in S : \E i \in DOMAIN files : files[i] = x
  BY <1>1, <1>3, EachOnce
<1>5. \A i, j \in DOMAIN files : i < j => files[i] < files[j]
  BY <1>1, <1>4 DEF L!IsSorted
<1>6. ASSUME NEW i \in DOMAIN list'
      PROVE  /\ list'[i].src = files[i]
             /\ \A r : r \in list'[i].hooks <=>
                    r \in registry /\ r.file = files[i] /\ r.name \in L!HookNames
             /\ list'[i].tests \in
                    Seq({r \in registry : r.file = files[i] /\ r.name \notin L!HookNames})
             /\ DOMAIN list'[i].tests = 1 .. Len(list'[i].tests)
             /\ \A k, n \in DOMAIN list'[i].tests :
                    list'[i].tests[k] = list'[i].tests[n] => k = n
             /\ \A r \in registry :
                    r.file = files[i] /\ r.name \notin L!HookNames
                    => \E k \in DOMAIN list'[i].tests : list'[i].tests[k] = r
             /\ \A k, n \in DOMAIN list'[i].tests :
                    k < n => list'[i].tests[k].line <= list'[i].tests[n].line
  BY <1>1, <1>6, ListingOf
<1>7. ASSUME NEW r \in registry
      PROVE  /\ Cardinality({i \in DOMAIN list' : list'[i].src = r.file}) = 1
             /\ \A i \in {i \in DOMAIN list' : list'[i].src = r.file} :
                    IF r.name \in L!HookNames THEN r \in list'[i].hooks
                    ELSE Cardinality({k \in DOMAIN list'[i].tests :
                                          list'[i].tests[k] = r}) = 1
  <2>1. PICK i \in DOMAIN list' : files[i] = r.file
    BY <1>1, <1>4 DEF S
  <2>2. {j \in DOMAIN list' : list'[j].src = r.file} = {i}
    <3>1. \A j \in DOMAIN list' : list'[j].src = files[j]
      BY <1>6
    <3>2. \A j \in DOMAIN list' : files[j] = files[i] => j = i
      BY <1>1, <1>4
    <3> QED
      BY <2>1, <3>1, <3>2
  <2>3. Cardinality({i}) = 1
    BY FS_Singleton
  <2>4. ASSUME r.name \in L!HookNames PROVE r \in list'[i].hooks
    <3>1. \A m : m \in list'[i].hooks <=>
              m \in registry /\ m.file = files[i] /\ m.name \in L!HookNames
      BY <1>6
    <3> QED
      BY <2>1, <2>4, <3>1
  <2>5. ASSUME r.name \notin L!HookNames
        PROVE  Cardinality({k \in DOMAIN list'[i].tests : list'[i].tests[k] = r}) = 1
    <3> DEFINE q == list'[i].tests
    <3>1. /\ \A k, n \in DOMAIN q : q[k] = q[n] => k = n
          /\ \E k \in DOMAIN q : q[k] = r
      BY <1>6, <2>1, <2>5
    <3> HIDE DEF q
    <3>2. PICK k \in DOMAIN q : q[k] = r
      BY <3>1
    <3>3. {n \in DOMAIN q : q[n] = r} = {k}
      BY <3>1, <3>2
    <3>4. Cardinality({n \in DOMAIN q : q[n] = r}) = 1
      BY <3>3, FS_Singleton
    <3> QED
      BY <3>4 DEF q
  <2> QED
    BY <2>2, <2>3, <2>4, <2>5
<1>8. ASSUME NEW i \in DOMAIN list', NEW r \in list'[i].hooks \cup L!ToSet(list'[i].tests)
      PROVE  r \in registry /\ r.file = files[i]
  <2>1. CASE r \in list'[i].hooks
    BY <1>6, <2>1
  <2>2. CASE r \in L!ToSet(list'[i].tests)
    <3> DEFINE q == list'[i].tests
               mine == {m \in registry : m.file = files[i] /\ m.name \notin L!HookNames}
    <3>1. q \in Seq(mine)
      BY <1>6
    <3>2. PICK k \in DOMAIN q : r = q[k]
      BY <2>2 DEF L!ToSet
    <3> HIDE DEF q, mine
    <3>3. r \in mine
      BY <3>1, <3>2
    <3> QED
      BY <3>3 DEF mine
  <2> QED
    BY <1>8, <2>1, <2>2
<1>9. ASSUME NEW i \in DOMAIN list',
             NEW r \in list'[i].hooks \cup L!ToSet(list'[i].tests),
             NEW s \in list'[i].hooks \cup L!ToSet(list'[i].tests), r.name = s.name
      PROVE  r = s
  BY <1>8, <1>9 DEF Registered
<1>10. \A i, j \in DOMAIN list' : i < j => list'[i].src < list'[j].src
  <2> SUFFICES ASSUME NEW i \in DOMAIN list', NEW j \in DOMAIN list', i < j
               PROVE  list'[i].src < list'[j].src
    OBVIOUS
  <2>1. list'[i].src = files[i] /\ list'[j].src = files[j]
    BY <1>6
  <2>2. files[i] < files[j]
    BY <1>1, <1>5
  <2> QED
    BY <2>1, <2>2
<1>11. ASSUME NEW i \in DOMAIN list', NEW k \in 2 .. Len(list'[i].tests)
       PROVE  list'[i].tests[k - 1].line <= list'[i].tests[k].line
  <2> DEFINE q == list'[i].tests
  <2>1. /\ DOMAIN q = 1 .. Len(q) /\ Len(q) \in Nat
        /\ \A m, n \in DOMAIN q : m < n => q[m].line <= q[n].line
    BY <1>6, LenProperties
  <2> HIDE DEF q
  <2>2. k \in 2 .. Len(q)
    BY DEF q
  <2>3. k - 1 \in DOMAIN q /\ k \in DOMAIN q /\ k - 1 < k
    BY <2>1, <2>2
  <2>4. q[k - 1].line <= q[k].line
    BY <2>1, <2>3
  <2> QED
    BY <2>4 DEF q
<1>12. ListComplete'
  BY <1>2, <1>7, <1>8, <1>9, <1>10, <1>11, SameCardinality
     DEF ListComplete, L!ListComplete
<1>13. ListTyped'
  <2>1. Len(files) \in Nat /\ DOMAIN list' = 1 .. Len(files)
    BY <1>1, <1>4, LenProperties
  <2>2. ASSUME NEW i \in DOMAIN list'
        PROVE  /\ list'[i].src \in File
               /\ \A r \in list'[i].hooks : r.name \in L!HookNames
               /\ list'[i].tests \in Seq({r \in registry' : r.file = list'[i].src
                                                          /\ r.name \notin L!HookNames})
    <3>1. list'[i].src = files[i] /\ \A r \in list'[i].hooks : r.name \in L!HookNames
      BY <1>6
    <3>2. list'[i].tests \in Seq({r \in registry' : r.file = list'[i].src
                                                  /\ r.name \notin L!HookNames})
      BY <1>2, <1>6, <3>1
    <3>3. files[i] \in S
      <4>1. i \in DOMAIN files /\ files \in Seq(S)
        BY <1>1, <1>4
      <4> QED
        BY <4>1, ElementOfSeq
    <3>4. files[i] \in File
      BY <3>3 DEF S, Registered
    <3> QED
      BY <3>1, <3>2, <3>4
  <2> QED
    BY <2>1, <2>2 DEF ListTyped
<1> QED
  BY <1>12, <1>13

-----------------------------------------------------------------------------
(* The steps of the loader.                                                *)

LEMMA LoaderInit ==
    ASSUME L!Init
    PROVE  LoaderInv
<1>1. registry = {} /\ list = << >> /\ lphase = "load" /\ lcwd = Root
  BY DEF L!Init
<1>2. Root \in Dirs
  BY LoaderAssumption DEF L!FileAssumption
<1> QED
  BY <1>1, <1>2, FS_EmptySet
     DEF LoaderInv, Registered, ListComplete, L!ListComplete

(* What no step but the ones of a running file and getlist() disturbs.     *)
LEMMA SameLists ==
    ASSUME LoaderInv, UNCHANGED <<lcwd, registry, list, lphase>>,
           lphase = "listed" => current' = L!NoFile /\ todo' = << >>
    PROVE  LoaderInv'
<1>1. ListComplete'
  <2>1. ListComplete /\ list' = list /\ registry' = registry /\ lphase' = lphase
    BY DEF LoaderInv
  <2> QED
    BY ONLY <2>1, SameCardinality DEF ListComplete, L!ListComplete
<1>2. Registered'
  BY DEF LoaderInv, Registered
<1>3. ListTyped => ListTyped'
  <2> SUFFICES ASSUME ListTyped PROVE ListTyped'
    OBVIOUS
  <2>1. \E n \in Nat : DOMAIN list' = 1 .. n
    BY DEF ListTyped
  <2>2. ASSUME NEW i \in DOMAIN list
        PROVE  /\ list[i].src \in File
               /\ \A r \in list[i].hooks : r.name \in L!HookNames
               /\ list[i].tests \in Seq({r \in registry : r.file = list[i].src
                                                        /\ r.name \notin L!HookNames})
    BY DEF ListTyped
  <2>3. list' = list /\ registry' = registry
    OBVIOUS
  <2> QED
    BY <2>1, <2>2, <2>3 DEF ListTyped
<1> QED
  BY <1>1, <1>2, <1>3 DEF LoaderInv

(* Every step of the loader keeps the registry a function of file and name *)
(* and the list complete (lib/registry.lua:29-93).                         *)
LEMMA LoaderNext ==
    ASSUME LoaderInv, L!Next
    PROVE  LoaderInv'
<1>1. CASE L!LoadNext
  BY <1>1, SameLists DEF L!LoadNext, LoaderInv
<1>2. CASE \E ok \in BOOLEAN : L!EndFile(ok)
  BY <1>2, SameLists DEF L!EndFile, LoaderInv
<1>3. ASSUME NEW name \in Name, NEW func \in L!Func, L!Register(name, func)
      PROVE  LoaderInv'
  <2> DEFINE f == Resolve[<<lcwd, func.src>>]
             new == [file |-> f, name |-> name, line |-> func.line]
  <2>1. /\ current # L!NoFile /\ UNCHANGED <<lcwd, list, lphase>>
        /\ f # L!NoFile /\ ~L!Taken(f, name, func)
        /\ registry' = registry \cup {new}
    BY <1>3 DEF L!Register, L!Accepts
  <2>2. lphase # "listed"
    BY <2>1 DEF LoaderInv
  <2>3. f \in File
    <3>1. lcwd \in Dirs /\ func.src \in File
      BY DEF LoaderInv, Registered, L!Func
    <3>2. Resolve \in [Dirs \X File -> File \cup {0}]
      BY LoaderAssumption DEF L!FileAssumption
    <3> QED
      BY <2>1, <3>1, <3>2 DEF L!NoFile
  <2>4. new.file = f /\ new.name = name
    OBVIOUS
  <2>5. \A r \in registry : ~(r.file = f /\ r.name = name)
    BY <2>1 DEF L!Taken
  <2> HIDE DEF f, new
  <2>6. IsFiniteSet(registry')
    BY <2>1, FS_AddElement DEF LoaderInv, Registered
  <2>7. Registered'
    BY <2>1, <2>3, <2>4, <2>5, <2>6 DEF LoaderInv, Registered
  <2> QED
    BY <2>1, <2>2, <2>7 DEF LoaderInv, ListComplete, L!ListComplete
<1>4. ASSUME NEW name \in Name, NEW func \in L!Func, L!RegisterFails(name, func)
      PROVE  LoaderInv'
  BY <1>4, SameLists DEF L!RegisterFails, L!EndFile, LoaderInv
<1>5. ASSUME NEW d \in Dirs, L!LoadChdir(d)
      PROVE  LoaderInv'
  <2>1. lphase # "listed" /\ lphase' = lphase
    BY <1>5 DEF L!LoadChdir, LoaderInv
  <2>2. Registered'
    BY <1>5 DEF L!LoadChdir, LoaderInv, Registered
  <2> QED
    BY <2>1, <2>2 DEF LoaderInv, ListComplete, L!ListComplete
<1>6. CASE L!GetList
  <2>1. UNCHANGED <<lcwd, registry, current>> /\ current = L!NoFile
    BY <1>6 DEF L!GetList
  <2>2. ListTyped' /\ ListComplete' /\ todo' = << >>
    BY <1>6, GetListOK DEF LoaderInv, L!GetList
  <2>3. Registered'
    BY <2>1 DEF LoaderInv, Registered
  <2> QED
    BY <2>1, <2>2, <2>3 DEF LoaderInv
<1>7. CASE L!Listed
  BY <1>7, SameLists DEF L!Listed, L!vars, LoaderInv
<1> QED
  BY <1>1, <1>2, <1>3, <1>4, <1>5, <1>6, <1>7 DEF L!Next

-----------------------------------------------------------------------------
(* The runner of this command is the one ReportProofs is about.            *)

LEMMA SameNames ==
    /\ R!HookNames = RP!HookNames /\ R!CallStages = RP!CallStages
    /\ R!Source = RP!Source /\ R!Proc = RP!Proc /\ R!Boot = RP!Boot /\ R!M = RP!M
    /\ R!OnSuccess = RP!OnSuccess /\ R!OnFailure = RP!OnFailure
  BY DEF R!HookNames, RP!HookNames, R!CallStages, RP!CallStages, R!Source, RP!Source,
         R!Proc, RP!Proc, R!Boot, RP!Boot, R!M, RP!M,
         R!OnSuccess, RP!OnSuccess, R!OnFailure, RP!OnFailure

LEMMA SameParts ==
    /\ \A l, names : R!Selected(l, names) = RP!Selected(l, names)
    /\ \A l, names : R!NotFound(l, names) = RP!NotFound(l, names)
    /\ \A m : R!Src(m) = RP!Src(m)
    /\ \A m : R!LoopEnds(m) <=> RP!LoopEnds(m)
    /\ \A m : R!Due(m) <=> RP!Due(m)
    /\ \A m, ok : R!Settle(m, ok) = RP!Settle(m, ok)
    /\ \A m : R!Fresh(m) = RP!Fresh(m)
<1>1. \A s, S : R!Kept(s, S) = RP!Kept(s, S)
  BY DEF R!Kept, RP!Kept
<1>2. \A l, names : R!Selected(l, names) = RP!Selected(l, names)
  BY <1>1, SameNames DEF R!Selected, RP!Selected
<1>3. \A l, names : R!NotFound(l, names) = RP!NotFound(l, names)
  BY DEF R!NotFound, RP!NotFound
<1>4. \A m : R!Src(m) = RP!Src(m)
  BY DEF R!Src, RP!Src
<1>5. \A m : R!LoopEnds(m) <=> RP!LoopEnds(m)
  BY <1>4 DEF R!LoopEnds, RP!LoopEnds
<1>6. \A m : R!Due(m) <=> RP!Due(m)
  BY <1>4, <1>5, SameNames DEF R!Due, RP!Due
<1>7. \A m : R!CallName(m) = RP!CallName(m)
  BY <1>4 DEF R!CallName, RP!CallName
<1>8. \A m, ok : R!Settle(m, ok) = RP!Settle(m, ok)
  BY <1>7, SameNames DEF R!Settle, RP!Settle
<1>9. \A m : R!Fresh(m) = RP!Fresh(m)
  BY DEF R!Fresh, RP!Fresh
<1> QED
  BY <1>2, <1>3, <1>4, <1>5, <1>6, <1>8, <1>9

(* What ReportProofs assumes of its constants holds here.                  *)
LEMMA RPAssumptions ==
    /\ Main \notin {}
    /\ Root \in Dirs /\ Removable \subseteq Dirs \ {Root}
    /\ Seq(R!Source) \subseteq Seq(RP!Source)
  BY LoaderAssumption, RunnerAssumption, SameNames DEF L!FileAssumption

LEMMA RPInit == R!Init => RP!RunInv
<1>1. R!Init => RP!Init
  BY SameNames DEF R!Init, RP!Init
<1> QED
  BY <1>1, RPAssumptions, RP!RunInit
(* The steps of the command's runner are steps of that one.                *)
LEMMA RPIdle ==
    ASSUME \/ \E b \in BOOLEAN : R!SetBlocked(Main, b)
           \/ R!RunBlocked(Main)
           \/ \E l \in Seq(R!Source), names \in SUBSET Name :
                  R!RunNotFound(Main, l, names) \/ R!RunStart(Main, l, names)
    PROVE  RP!Next
<1>1. \A b : R!SetBlocked(Main, b) => RP!SetBlocked(Main, b)
  BY DEF R!SetBlocked, RP!SetBlocked, R!Idle, RP!Idle, R!Live, RP!Live
<1>2. R!RunBlocked(Main) => RP!RunBlocked(Main)
  BY DEF R!RunBlocked, RP!RunBlocked, R!Idle, RP!Idle, R!Live, RP!Live
<1>3. \A l, names : R!RunNotFound(Main, l, names) => RP!RunNotFound(Main, l, names)
  BY SameParts DEF R!RunNotFound, RP!RunNotFound, R!Idle, RP!Idle, R!Live, RP!Live
<1>4. \A l, names : R!RunStart(Main, l, names) => RP!RunStart(Main, l, names)
  BY SameNames, SameParts
     DEF R!RunStart, RP!RunStart, R!Idle, RP!Idle, R!Live, RP!Live
<1>5. RP!IdleStep(Main)
  BY <1>1, <1>2, <1>3, <1>4 DEF RP!IdleStep
<1>6. Main \in RP!Proc
  BY DEF RP!Proc
<1> QED
  BY <1>5, <1>6 DEF RP!Next

LEMMA RPRunning ==
    ASSUME R!RunStep(Main) \/ R!UserStep(Main)
    PROVE  RP!Next
<1> USE DEF R!Live, RP!Live, R!Abort, RP!Abort
<1>1. R!NextFile(Main) => RP!NextFile(Main)
  BY SameParts DEF R!NextFile, RP!NextFile
<1>2. R!SkipHook(Main) => RP!SkipHook(Main)
  BY SameNames, SameParts DEF R!SkipHook, RP!SkipHook
<1>3. R!LeaveLoop(Main) => RP!LeaveLoop(Main)
  BY SameParts DEF R!LeaveLoop, RP!LeaveLoop
<1>4. R!BeginCall(Main) => RP!BeginCall(Main)
  BY SameParts DEF R!BeginCall, RP!BeginCall
<1>5. ASSUME NEW ok, R!EndCall(Main, ok) PROVE RP!EndCall(Main, ok)
  <2>1. R!Resume(Main, ok) => RP!Resume(Main, ok)
    BY SameParts DEF R!Resume, RP!Resume, R!ReturnDir, RP!ReturnDir
  <2> QED
    BY <1>5, <2>1 DEF R!EndCall, RP!EndCall, R!Forked, RP!Forked,
                      R!ReturnDir, RP!ReturnDir
<1>6. R!Tally(Main) => RP!Tally(Main)
  BY SameParts DEF R!Tally, RP!Tally
<1>7. R!ReturnRun(Main) => RP!ReturnRun(Main)
  BY DEF R!ReturnRun, RP!ReturnRun
<1>8. R!RunStep(Main) => RP!RunStep(Main)
  BY <1>1, <1>2, <1>3, <1>4, <1>5, <1>6, <1>7 DEF R!RunStep, RP!RunStep
<1>9. R!UserStep(Main) => RP!UserStep(Main)
  BY DEF R!UserStep, RP!UserStep, R!UserChdir, RP!UserChdir, R!UserRmdir,
         RP!UserRmdir, R!InUserCode, RP!InUserCode
<1>10. Main \in RP!Proc
  BY DEF RP!Proc
<1> QED
  BY <1>8, <1>9, <1>10 DEF RP!Next

LEMMA RPNext ==
    ASSUME RP!RunInv, RP!Next \/ UNCHANGED rvars
    PROVE  RP!RunInv'
<1>1. [RP!Next]_(RP!vars)
  BY DEF rvars, RP!vars
<1> QED
  BY <1>1, RPAssumptions, RP!RunNext

-----------------------------------------------------------------------------
(* The main block.                                                         *)

\* Before run(), the runner's memory is as it was made, but for the flag of
\* block() and the answer to a file that called run() while it was loaded.
Memories(b) ==
    {[p \in R!Proc |-> [R!Boot EXCEPT !.blocked = b, !.result = r]] :
         r \in {"none", "blocked"}}

BeforeRun ==
    /\ log = << >>
    /\ step \in {"load", "listed"} => mem \in Memories(TRUE)
    /\ step \in {"block", "ready"} => mem \in Memories(FALSE)

MainInv ==
    /\ LoaderInv
    /\ step \in {"block", "load", "listed", "ready"} => BeforeRun
    /\ LoadErrorsShown

(* The runner of a process of this command.                                *)
LEMMA TheMain == R!Proc = {Main} /\ R!M = mem[Main]
  BY DEF R!Proc, R!M

LEMMA MainInit == Init => MainInv
<1> SUFFICES ASSUME Init PROVE MainInv
  OBVIOUS
<1>1. LoaderInv
  BY LoaderInit DEF Init
<1>2. step = "block" /\ log = << >> /\ mem = [p \in R!Proc |-> R!Boot]
  BY DEF Init, R!Init
<1>3. R!Boot = [R!Boot EXCEPT !.blocked = FALSE, !.result = "none"]
  <2> DEFINE b == R!Boot
  <2>1. b.blocked = FALSE /\ b.result = "none" /\ b = [x \in DOMAIN b |-> b[x]]
    BY DEF R!Boot
  <2> HIDE DEF b
  <2>2. b = [b EXCEPT !.blocked = FALSE, !.result = "none"]
    BY <2>1
  <2> QED
    BY <2>2 DEF b
<1>4. BeforeRun
  BY <1>2, <1>3 DEF BeforeRun, Memories
<1> QED
  BY <1>1, <1>2, <1>4 DEF MainInv, LoadErrorsShown

(* A step of the main block, or of the code it runs, keeps the invariant.  *)
LEMMA MainNext == MainInv /\ [Next]_vars => MainInv'
<1> SUFFICES ASSUME MainInv, [Next]_vars PROVE MainInv'
  OBVIOUS
<1>1. ASSUME UNCHANGED lvars PROVE LoaderInv'
  <2>1. lphase = "listed" => current' = L!NoFile /\ todo' = << >>
    BY <1>1 DEF lvars, MainInv, LoaderInv
  <2> QED
    BY <1>1, <2>1, SameLists DEF lvars, MainInv
<1>2. CASE Block
  <2>1. step = "block" /\ step' = "load" /\ log' = log /\ log = << >>
    BY <1>2 DEF Block, R!SetBlocked, MainInv, BeforeRun
  <2>2. PICK r \in {"none", "blocked"} :
            mem = [p \in R!Proc |-> [R!Boot EXCEPT !.blocked = FALSE, !.result = r]]
    BY <2>1 DEF MainInv, BeforeRun, Memories
  <2>3. mem' = [mem EXCEPT ![Main].blocked = TRUE]
    BY <1>2 DEF Block, R!SetBlocked
  <2>4. mem' = [p \in R!Proc |-> [R!Boot EXCEPT !.blocked = TRUE, !.result = r]]
    BY <2>2, <2>3, TheMain DEF R!Boot
  <2> QED
    BY <1>1, <1>2, <2>1, <2>4 DEF MainInv, BeforeRun, Memories, Block, LoadErrorsShown
<1>3. CASE Load
  <2>1. LoaderInv'
    BY <1>3, LoaderNext DEF Load, MainInv
  <2>2. /\ step = "load" /\ step' \in {"load", "listed"}
        /\ UNCHANGED <<mem, log>>
    BY <1>3 DEF Load, rvars
  <2> QED
    BY <2>1, <2>2 DEF MainInv, BeforeRun, LoadErrorsShown
<1>4. CASE FileRuns
  <2>1. step = "load" /\ UNCHANGED <<lvars, cvars>>
    BY <1>4 DEF FileRuns
  <2>2. log = << >>
    BY <2>1 DEF MainInv, BeforeRun, Memories
  <2>3. PICK r \in {"none", "blocked"} :
            mem = [p \in R!Proc |-> [R!Boot EXCEPT !.blocked = TRUE, !.result = r]]
    BY <2>1 DEF MainInv, BeforeRun, Memories
  <2>4. mem[Main].blocked
    BY <2>3, TheMain DEF R!Boot
  <2>5. R!RunBlocked(Main)
    BY <1>4, <2>4 DEF FileRuns, R!RunStart
  <2>6. mem' = [mem EXCEPT ![Main].result = "blocked"] /\ log' = log
    BY <2>5 DEF R!RunBlocked
  <2>7. mem' = [p \in R!Proc |->
                   [R!Boot EXCEPT !.blocked = TRUE, !.result = "blocked"]]
    BY <2>3, <2>6, TheMain DEF R!Boot
  <2>8. BeforeRun'
    BY <2>1, <2>2, <2>6, <2>7 DEF BeforeRun, Memories, cvars
  <2> QED
    BY <1>1, <2>1, <2>8 DEF MainInv, LoadErrorsShown, cvars
<1>5. CASE NothingLoaded
  BY <1>1, <1>5 DEF NothingLoaded, Exit, MainInv, LoadErrorsShown
<1>6. CASE Unblock
  <2>1. step = "listed" /\ step' = "ready" /\ log' = log /\ log = << >>
    BY <1>6 DEF Unblock, R!SetBlocked, MainInv, BeforeRun
  <2>2. PICK r \in {"none", "blocked"} :
            mem = [p \in R!Proc |-> [R!Boot EXCEPT !.blocked = TRUE, !.result = r]]
    BY <2>1 DEF MainInv, BeforeRun, Memories
  <2>3. mem' = [mem EXCEPT ![Main].blocked = FALSE]
    BY <1>6 DEF Unblock, R!SetBlocked
  <2>4. mem' = [p \in R!Proc |-> [R!Boot EXCEPT !.blocked = FALSE, !.result = r]]
    BY <2>2, <2>3, TheMain DEF R!Boot
  <2>5. BeforeRun'
    BY <2>1, <2>4 DEF BeforeRun, Memories
  <2> QED
    BY <1>1, <1>6, <2>1, <2>5 DEF MainInv, Unblock, LoadErrorsShown
<1>7. CASE Run
  <2>1. LoaderInv' /\ step = "ready"
    BY <1>1, <1>7 DEF Run, lvars
  <2>2. CASE R!RunStart(Main, RunList, wanted) /\ step' = "running"
    BY <2>1, <2>2 DEF MainInv, LoadErrorsShown
  <2>3. CASE R!RunNotFound(Main, RunList, wanted) /\ Exit(Failure)
    <3>1. step' = "exited" /\ mem' = [mem EXCEPT ![Main].result = "notfound"]
      BY <2>3 DEF R!RunNotFound, Exit
    <3>2. PICK r \in {"none", "blocked"} :
              mem = [p \in R!Proc |-> [R!Boot EXCEPT !.blocked = FALSE, !.result = r]]
      BY <2>1 DEF MainInv, BeforeRun, Memories
    <3>3. mem'[Main].result = "notfound"
      BY <3>1, <3>2, TheMain DEF R!Boot
    <3> QED
      BY <2>1, <3>1, <3>3 DEF MainInv, LoadErrorsShown, R!M
  <2> QED
    BY <1>7, <2>2, <2>3 DEF Run
<1>8. CASE Running
  BY <1>1, <1>8 DEF Running, cvars, MainInv, LoadErrorsShown
<1>9. CASE Crashed
  BY <1>1, <1>9 DEF Crashed, Exit, MainInv, LoadErrorsShown
<1>10. CASE Report
  BY <1>1, <1>10 DEF Report, ShowsErrors, Exit, lvars, MainInv, LoadErrorsShown
<1>11. CASE Exited \/ UNCHANGED vars
  <2>1. UNCHANGED vars
    BY <1>11 DEF Exited
  <2> QED
    BY <1>1, <2>1
       DEF vars, lvars, rvars, cvars, MainInv, BeforeRun, Memories,
           LoadErrorsShown, R!M
<1> QED
  BY <1>2, <1>3, <1>4, <1>5, <1>6, <1>7, <1>8, <1>9, <1>10, <1>11 DEF Next

LEMMA MainAlways == Spec => []MainInv
  BY MainInit, MainNext, PTL DEF Spec

-----------------------------------------------------------------------------
(* How the command ends.                                                   *)

\* The list that the loop of run() goes through.
Chosen == IF wanted = {} THEN RunList ELSE RP!Selected(RunList, wanted)

EndInv ==
    /\ RP!RunInv
    /\ wanted \in SUBSET Name
    /\ step \notin {"block", "load"} => lphase = "listed"
    /\ status # NoStatus => step = "exited"
    /\ step = "running" => R!M.list = Chosen
    /\ ExitZeroSound
    /\ FailureHasCause

(* What getlist() returned is a list that run() may be given.              *)
LEMMA RunListOK ==
    ASSUME LoaderInv, lphase = "listed"
    PROVE  RunList \in Seq(R!Source)
<1>1. ListTyped
  BY DEF LoaderInv
<1>2. PICK n \in Nat : DOMAIN list = 1 .. n
  BY <1>1 DEF ListTyped
<1>3. ASSUME NEW i \in 1 .. n
      PROVE  RunList[i] \in R!Source
  <2> DEFINE q == list[i].tests
             mine == {r \in registry : r.file = list[i].src /\ r.name \notin L!HookNames}
             names == [k \in DOMAIN q |-> q[k].name]
             hooks == {r.name : r \in list[i].hooks}
  <2>1. DirOf[list[i].src] \in Dirs
    BY <1>1, <1>2, RunnerAssumption DEF ListTyped
  <2>2. hooks \in SUBSET R!HookNames
    BY <1>1, <1>2 DEF ListTyped, L!HookNames, R!HookNames
  <2>3. q \in Seq(mine)
    BY <1>1, <1>2 DEF ListTyped
  <2>4. \A r \in mine : r.name \in Name
    BY DEF LoaderInv, Registered
  <2>5. RunList[i] = [dir |-> DirOf[list[i].src], hooks |-> hooks, tests |-> names]
    BY <1>2 DEF RunList
  <2> HIDE DEF q, mine, hooks
  <2>6. Len(q) \in Nat /\ DOMAIN q = 1 .. Len(q) /\ \A k \in DOMAIN q : q[k] \in mine
    BY <2>3
  <2>7. names \in [1 .. Len(q) -> Name]
    BY <2>4, <2>6
  <2>8. names \in Seq(Name)
    BY <2>6, <2>7
  <2> HIDE DEF names
  <2> QED
    BY <2>1, <2>2, <2>5, <2>8 DEF R!Source
<1>4. RunList \in [1 .. n -> R!Source]
  <2>1. RunList = [i \in 1 .. n |-> RunList[i]]
    BY <1>2 DEF RunList
  <2> QED
    BY <1>3, <2>1
<1> QED
  BY <1>2, <1>4

(* Every test of the registry is in that list, in the directory of its     *)
(* file (lib/registry.lua:62-93, lib/runner.lua:305-308).                  *)
LEMMA InRunList ==
    ASSUME LoaderInv, lphase = "listed", NEW r \in registry, ~L!IsHook(r)
    PROVE  \E f \in DOMAIN RunList : 
               /\ RunList[f].dir = DirOf[r.file]
               /\ \E t \in DOMAIN RunList[f].tests : RunList[f].tests[t] = r.name
<1> DEFINE place == {i \in DOMAIN list : list[i].src = r.file}
           at(i) == {k \in DOMAIN list[i].tests : list[i].tests[k] = r}
<1>1. /\ Cardinality(place) = 1
      /\ \A i \in place : Cardinality(at(i)) = 1
  BY SameCardinality DEF LoaderInv, ListComplete, L!ListComplete, L!IsHook
<1>2. \A S : Cardinality(S) = 1 => S # {}
  BY FS_EmptySet
<1>3. PICK i \in place : TRUE
  <2> HIDE DEF place
  <2> QED
    BY <1>1, <1>2
<1>4. PICK k \in at(i) : TRUE
  <2>1. Cardinality(at(i)) = 1
    BY <1>1, <1>3
  <2> HIDE DEF at
  <2> QED
    BY <1>2, <2>1
<1>5. /\ i \in DOMAIN RunList
      /\ RunList[i].dir = DirOf[r.file]
      /\ RunList[i].tests = [n \in DOMAIN list[i].tests |-> list[i].tests[n].name]
  BY <1>3 DEF RunList
<1>6. k \in DOMAIN RunList[i].tests /\ RunList[i].tests[k] = r.name
  BY <1>4, <1>5
<1> QED
  BY <1>5, <1>6

(* ... and, if it was asked for, in the list that the loop goes through    *)
(* (lib/runner.lua:215-243).                                               *)
LEMMA InChosen ==
    ASSUME LoaderInv, lphase = "listed", NEW r \in Asked
    PROVE  \E f \in DOMAIN Chosen :
               /\ Chosen[f].dir = DirOf[r.file]
               /\ \E t \in DOMAIN Chosen[f].tests : Chosen[f].tests[t] = r.name
<1>1. r \in registry /\ ~L!IsHook(r) /\ (wanted = {} \/ r.name \in wanted)
  BY DEF Asked
<1>2. PICK f \in DOMAIN RunList :
          /\ RunList[f].dir = DirOf[r.file]
          /\ \E t \in DOMAIN RunList[f].tests : RunList[f].tests[t] = r.name
  BY <1>1, InRunList
<1>3. CASE wanted = {}
  BY <1>2, <1>3 DEF Chosen
<1>4. CASE wanted # {}
  <2> DEFINE l == RunList
  <2>1. l \in Seq(RP!Source)
    BY RunListOK, SameNames
  <2>2. PICK t \in DOMAIN l[f].tests : l[f].tests[t] = r.name
    BY <1>2
  <2>3. f \in DOMAIN l /\ l[f].dir = DirOf[r.file]
    BY <1>2
  <2> HIDE DEF l
  <2>4. PICK k \in DOMAIN RP!Selected(l, wanted) :
            /\ RP!Selected(l, wanted)[k].dir = l[f].dir
            /\ \E n \in DOMAIN RP!Selected(l, wanted)[k].tests :
                   RP!Selected(l, wanted)[k].tests[n] = l[f].tests[t]
    BY <1>1, <1>4, <2>1, <2>2, <2>3, RPAssumptions, RP!SelectedHas
  <2> QED
    BY <1>4, <2>2, <2>3, <2>4 DEF Chosen, l
<1> QED
  BY <1>3, <1>4

(* No step of run() after its start changes the list.                      *)
LEMMA SameChoice ==
    ASSUME RP!RunInv, R!RunStep(Main) \/ R!UserStep(Main)
    PROVE  R!M'.list = R!M.list
<1>1. mem \in [R!Proc -> RP!Memory] /\ Main \in R!Proc
  BY SameNames DEF RP!RunInv, RP!TypeInv, RP!TypeOK, R!Proc
<1>2. mem[Main] \in RP!Memory
  BY <1>1
<1>3. CASE R!RunStep(Main)
  <2>1. ASSUME NEW ok
        PROVE  /\ R!Settle(mem[Main], ok).list = mem[Main].list
               /\ [R!Settle(mem[Main], ok) EXCEPT !.infn = FALSE].list = mem[Main].list
    <3> DEFINE m == mem[Main]
    <3>1. m \in RP!Memory
      BY <1>2
    <3> HIDE DEF m
    <3>2. /\ R!Settle(m, ok).list = m.list
          /\ [R!Settle(m, ok) EXCEPT !.infn = FALSE].list = m.list
      BY <3>1 DEF R!Settle, RP!Memory
    <3> QED
      BY <3>2 DEF m
  <2>2. CASE R!NextFile(Main)
    <3>1. \/ mem' = mem
          \/ mem' = [mem EXCEPT ![Main] =
                        [mem[Main] EXCEPT !.stage = "before_all",
                                          !.ntest = @ + Len(R!Src(mem[Main]).tests)]]
      BY <2>2 DEF R!NextFile, R!Abort
    <3> QED
      BY <1>1, <1>2, <3>1 DEF R!M, RP!Memory
  <2>3. CASE R!SkipHook(Main)
    BY <1>1, <2>1, <2>3 DEF R!SkipHook, R!M
  <2>4. CASE R!LeaveLoop(Main)
    BY <1>1, <1>2, <2>4 DEF R!LeaveLoop, R!M
  <2>5. CASE R!BeginCall(Main)
    <3>1. \/ mem' = mem
          \/ mem' = [mem EXCEPT ![Main].infn = TRUE, ![Main].saved = cwd[Main]]
      BY <2>5 DEF R!BeginCall, R!Abort
    <3> QED
      BY <1>1, <1>2, <3>1 DEF R!M, RP!Memory
  <2>6. ASSUME NEW ok \in BOOLEAN, R!EndCall(Main, ok)
        PROVE  R!M'.list = R!M.list
    <3>1. \/ mem' = mem
          \/ mem' = [mem EXCEPT ![Main] =
                        [R!Settle(mem[Main], ok) EXCEPT !.infn = FALSE]]
      BY <2>6 DEF R!EndCall, R!Resume, R!Abort
    <3> QED
      BY <1>1, <2>1, <3>1 DEF R!M
  <2>7. CASE R!Tally(Main)
    BY <1>1, <1>2, <2>7 DEF R!Tally, R!Fresh, R!M
  <2>8. CASE R!ReturnRun(Main)
    BY <1>1, <1>2, <2>8 DEF R!ReturnRun, R!M
  <2> QED
    BY <1>3, <2>2, <2>3, <2>4, <2>5, <2>6, <2>7, <2>8 DEF R!RunStep
<1>4. CASE R!UserStep(Main)
  BY <1>4 DEF R!UserStep, R!UserChdir, R!UserRmdir, R!M
<1> QED
  BY <1>3, <1>4

(* The report tells the truth: what its figures say of the calls, ...      *)
LEMMA Told ==
    ASSUME RP!RunInv, R!M.stage = "returned"
    PROVE  /\ R!M.ntest \in Nat /\ R!M.nsuccess \in Nat /\ R!M.count \in Nat
           /\ R!M.count = 0 => \A i \in DOMAIN log : log[i].ok
           /\ (\A i \in DOMAIN log : log[i].ok)
              => /\ R!M.count = 0 /\ R!M.nsuccess = R!M.ntest
                 /\ \A f \in DOMAIN R!M.list : \A t \in DOMAIN R!M.list[f].tests :
                        \E i \in DOMAIN log :
                            log[i].fi = f /\ log[i].stage = "test" /\ log[i].ti = t
  BY RPAssumptions, SameNames, RP!ReportTells DEF RP!IsCall

(* ... and what a status that is made of them says (bin/testcase.lua:      *)
(* 192-236).                                                               *)
LEMMA ReportOK ==
    ASSUME MainInv, EndInv, Report
    PROVE  ExitZeroSound' /\ FailureHasCause'
<1>1. /\ step = "running" /\ R!M.stage = "returned" /\ UNCHANGED <<lvars, rvars, wanted>>
      /\ status' = IF Failed THEN Failure ELSE 0
  BY DEF Report, Exit
<1>2. /\ LoaderInv /\ lphase = "listed" /\ R!M.list = Chosen
      /\ todo = << >> /\ current = L!NoFile
  BY <1>1 DEF MainInv, EndInv, LoaderInv
<1>3. /\ R!M.ntest \in Nat /\ R!M.nsuccess \in Nat /\ R!M.count \in Nat
      /\ R!M.count = 0 => \A i \in DOMAIN log : log[i].ok
      /\ (\A i \in DOMAIN log : log[i].ok)
         => /\ R!M.count = 0 /\ R!M.nsuccess = R!M.ntest
            /\ \A f \in DOMAIN R!M.list : \A t \in DOMAIN R!M.list[f].tests :
                   \E i \in DOMAIN log :
                       log[i].fi = f /\ log[i].stage = "test" /\ log[i].ti = t
  BY <1>1, Told DEF EndInv
<1>4. UNCHANGED <<lvars, rvars, wanted, Asked, R!M>>
  BY <1>1 DEF lvars, rvars, Asked, L!IsHook, R!M
<1>5. CASE Failed
  <2>1. errfiles # {} \/ \E i \in DOMAIN log : ~log[i].ok
    BY <1>3, <1>5 DEF Failed
  <2>2. status' = Failure
    BY <1>1, <1>5
  <2> QED
    BY <1>4, <2>1, <2>2 DEF ExitZeroSound, FailureHasCause, Failure, lvars, rvars
<1>6. CASE ~Failed
  <2>1. R!M.count = 0 /\ errfiles = {}
    BY <1>3, <1>6 DEF Failed
  <2>2. \A i \in DOMAIN log : log[i].ok
    BY <1>3, <2>1
  <2>3. ASSUME NEW r \in Asked
        PROVE  \E i \in DOMAIN log :
                   /\ log[i].stage = "test" /\ log[i].ok = TRUE
                   /\ R!M.list[log[i].fi].dir = DirOf[r.file]
                   /\ R!M.list[log[i].fi].tests[log[i].ti] = r.name
    <3>1. PICK f \in DOMAIN R!M.list :
              /\ R!M.list[f].dir = DirOf[r.file]
              /\ \E t \in DOMAIN R!M.list[f].tests : R!M.list[f].tests[t] = r.name
      BY <1>2, InChosen
    <3>2. PICK t \in DOMAIN R!M.list[f].tests : R!M.list[f].tests[t] = r.name
      BY <3>1
    <3>3. PICK i \in DOMAIN log :
              log[i].fi = f /\ log[i].stage = "test" /\ log[i].ti = t
      BY <1>3, <2>2, <3>1, <3>2
    <3>4. log[i].ok = TRUE
      <4>1. log[i] \in RP!Entry
        <5>1. log \in Seq(RP!Entry)
          BY DEF EndInv, RP!RunInv, RP!TypeInv, RP!TypeOK
        <5> QED
          BY <3>3, <5>1
      <4>2. log[i].ok \in BOOLEAN
        BY <4>1 DEF RP!Entry
      <4> QED
        BY <2>2, <3>3, <4>2
    <3> QED
      BY <3>1, <3>2, <3>3, <3>4
  <2>4. \A r \in Asked : Recorded(r, TRUE)
    BY <2>3 DEF Recorded
  <2>5. /\ log' = log /\ errfiles' = errfiles /\ todo' = todo /\ current' = current
        /\ Asked' = Asked /\ R!M' = R!M
    BY <1>4 DEF lvars, rvars
  <2>6. (\A r \in Asked : Recorded(r, TRUE))'
    BY <2>4, <2>5 DEF Recorded
  <2>7. ExitZeroSound'
    BY <1>2, <2>1, <2>2, <2>5, <2>6 DEF ExitZeroSound
  <2>8. status' = 0
    BY <1>1, <1>6
  <2> QED
    BY <2>7, <2>8 DEF FailureHasCause, Failure
<1> QED
  BY <1>5, <1>6

(* Names that run() refuses are in no file (lib/runner.lua:245-252).       *)
LEMMA NowhereFound ==
    ASSUME LoaderInv, lphase = "listed", R!NotFound(RunList, wanted) # {}
    PROVE  \E name \in wanted : \A r \in registry : L!IsHook(r) \/ r.name # name
<1>1. PICK name \in wanted :
          \A i \in DOMAIN RunList : \A k \in DOMAIN RunList[i].tests :
              RunList[i].tests[k] # name
  BY DEF R!NotFound
<1>2. ASSUME NEW r \in registry, ~L!IsHook(r) PROVE r.name # name
  BY <1>1, <1>2, InRunList
<1> QED
  BY <1>2

LEMMA EndInit == Init => EndInv
<1> SUFFICES ASSUME Init PROVE EndInv
  OBVIOUS
<1>1. RP!RunInv
  BY RPInit DEF Init
<1>2. wanted \in SUBSET Name /\ step = "block" /\ status = NoStatus
  BY RunnerAssumption DEF Init
<1> QED
  BY <1>1, <1>2
     DEF EndInv, ExitZeroSound, FailureHasCause, NoStatus, Failure

(* Before the command leaves its status says nothing.                      *)
LEMMA NotYet ==
    ASSUME status' = NoStatus
    PROVE  ExitZeroSound' /\ FailureHasCause'
  BY DEF ExitZeroSound, FailureHasCause, NoStatus, Failure

LEMMA EndNext == MainInv /\ EndInv /\ [Next]_vars => EndInv'
<1> SUFFICES ASSUME MainInv, EndInv, [Next]_vars PROVE EndInv'
  OBVIOUS
<1> USE DEF EndInv
<1>1. Main \in R!Proc /\ wanted \in SUBSET Name
  BY DEF R!Proc
<1>2. CASE Block
  <2>1. RP!RunInv'
    BY <1>2, RPIdle, RPNext DEF Block
  <2>2. /\ step = "block" /\ step' = "load" /\ status' = status /\ wanted' = wanted
    BY <1>2 DEF Block
  <2>3. status' = NoStatus
    BY <2>2
  <2> QED
    BY <1>1, <2>1, <2>2, <2>3, NotYet
<1>3. CASE Load
  <2>1. RP!RunInv'
    BY <1>3, RPNext DEF Load
  <2>2. /\ step = "load" /\ status' = status /\ wanted' = wanted
        /\ step' = IF lphase' = "listed" THEN "listed" ELSE "load"
    BY <1>3 DEF Load
  <2>3. status' = NoStatus
    BY <2>2
  <2> QED
    BY <1>1, <2>1, <2>2, <2>3, NotYet
<1>4. CASE FileRuns
  <2>1. << >> \in Seq(R!Source) /\ {} \in SUBSET Name
    OBVIOUS
  <2>2. RP!RunInv'
    BY <1>4, <2>1, RPIdle, RPNext DEF FileRuns
  <2>3. /\ step = "load" /\ step' = step /\ status' = status /\ wanted' = wanted
    BY <1>4 DEF FileRuns, cvars
  <2>4. status' = NoStatus
    BY <2>3
  <2> QED
    BY <1>1, <2>2, <2>3, <2>4, NotYet
<1>5. CASE NothingLoaded
  <2>1. RP!RunInv'
    BY <1>5, RPNext DEF NothingLoaded
  <2>2. /\ step = "listed" /\ step' = "exited" /\ status' = Failure
        /\ errfiles # {} /\ errfiles' = errfiles /\ lphase' = lphase /\ wanted' = wanted
    BY <1>5 DEF NothingLoaded, Exit, lvars
  <2>3. ExitZeroSound' /\ FailureHasCause'
    BY <2>2 DEF ExitZeroSound, FailureHasCause, Failure
  <2> QED
    BY <1>1, <2>1, <2>2, <2>3
<1>6. CASE Unblock
  <2>1. RP!RunInv'
    BY <1>6, RPIdle, RPNext DEF Unblock
  <2>2. /\ step = "listed" /\ step' = "ready" /\ status' = status
        /\ wanted' = wanted /\ lphase' = lphase
    BY <1>6 DEF Unblock, lvars
  <2>3. status' = NoStatus
    BY <2>2
  <2> QED
    BY <1>1, <2>1, <2>2, <2>3, NotYet
<1>7. CASE Run
  <2>1. /\ step = "ready" /\ lphase = "listed" /\ status = NoStatus
        /\ UNCHANGED <<lvars, wanted>>
    BY <1>7 DEF Run
  <2>2. LoaderInv /\ RunList \in Seq(R!Source)
    BY <2>1, RunListOK DEF MainInv
  <2>3. lphase' = lphase /\ wanted' = wanted /\ registry' = registry /\ list' = list
    BY <2>1 DEF lvars
  <2>4. CASE R!RunStart(Main, RunList, wanted) /\ step' = "running" /\ UNCHANGED status
    <3>1. RP!RunInv'
      BY <1>1, <2>2, <2>4, RPIdle, RPNext
    <3>2. mem' = [mem EXCEPT ![Main] =
                     [R!Boot EXCEPT
                         !.stage = "file",
                         !.list = IF wanted = {} THEN RunList
                                  ELSE R!Selected(RunList, wanted)]]
      BY <2>4 DEF R!RunStart
    <3>3. Main \in DOMAIN mem
      BY <1>1, SameNames DEF RP!RunInv, RP!TypeInv, RP!TypeOK
    <3>4. R!M'.list = Chosen
      BY <3>2, <3>3, SameParts DEF R!M, R!Boot, Chosen
    <3>5. Chosen' = Chosen
      BY <2>3 DEF Chosen, RunList
    <3> QED
      BY <1>1, <2>1, <2>3, <2>4, <3>1, <3>4, <3>5, NotYet
  <2>5. CASE R!RunNotFound(Main, RunList, wanted) /\ Exit(Failure)
    <3>1. RP!RunInv'
      BY <1>1, <2>2, <2>5, RPIdle, RPNext
    <3>2. step' = "exited" /\ status' = Failure /\ R!NotFound(RunList, wanted) # {}
      BY <2>5 DEF Exit, R!RunNotFound
    <3>3. \E name \in wanted : \A r \in registry : L!IsHook(r) \/ r.name # name
      BY <2>1, <2>2, <3>2, NowhereFound
    <3>4. ExitZeroSound' /\ FailureHasCause'
      BY <2>3, <3>2, <3>3 DEF ExitZeroSound, FailureHasCause, Failure, L!IsHook
    <3> QED
      BY <1>1, <2>1, <2>3, <3>1, <3>2, <3>4
  <2> QED
    BY <1>7, <2>4, <2>5 DEF Run
<1>8. CASE Running
  <2>1. R!RunStep(Main) \/ R!UserStep(Main)
    BY <1>8 DEF Running
  <2>2. RP!RunInv' /\ R!M'.list = R!M.list
    BY <2>1, RPRunning, RPNext, SameChoice
  <2>3. /\ step = "running" /\ step' = step /\ status' = status /\ wanted' = wanted
        /\ lphase' = lphase /\ list' = list
    BY <1>8 DEF Running, lvars, cvars
  <2>4. status' = NoStatus /\ Chosen' = Chosen
    BY <2>3 DEF Chosen, RunList
  <2> QED
    BY <1>1, <2>2, <2>3, <2>4, NotYet
<1>9. CASE Crashed
  <2>1. RP!RunInv'
    BY <1>9, RPNext DEF Crashed
  <2>2. /\ step = "running" /\ step' = "exited" /\ status' = Crash
        /\ wanted' = wanted /\ lphase' = lphase
    BY <1>9 DEF Crashed, Exit, lvars
  <2>3. ExitZeroSound' /\ FailureHasCause'
    BY <2>2 DEF ExitZeroSound, FailureHasCause, Failure, Crash
  <2> QED
    BY <1>1, <2>1, <2>2, <2>3
<1>10. CASE Report
  <2>1. RP!RunInv'
    BY <1>10, RPNext DEF Report
  <2>2. step = "running" /\ step' = "exited" /\ wanted' = wanted /\ lphase' = lphase
    BY <1>10 DEF Report, Exit, lvars
  <2>3. ExitZeroSound' /\ FailureHasCause'
    BY <1>10, ReportOK
  <2> QED
    BY <1>1, <2>1, <2>2, <2>3
<1>11. CASE Exited \/ UNCHANGED vars
  <2>1. UNCHANGED vars
    BY <1>11 DEF Exited
  <2>2. RP!RunInv'
    BY <2>1, RPNext DEF vars
  <2>3. /\ UNCHANGED <<lcwd, todo, current, errfiles, registry, list, lphase,
                       mem, log, wanted, step, status>>
    BY <2>1 DEF vars, lvars, rvars, cvars
  <2>4. Chosen' = Chosen /\ Asked' = Asked /\ R!M' = R!M
    BY <2>3 DEF Chosen, RunList, Asked, L!IsHook, R!M
  <2>5. \A r : Recorded(r, TRUE)' <=> Recorded(r, TRUE)
    BY <2>3, <2>4 DEF Recorded
  <2>6. ExitZeroSound'
    BY <2>3, <2>4, <2>5 DEF ExitZeroSound
  <2>7. FailureHasCause'
    BY <2>3 DEF FailureHasCause, L!IsHook
  <2> QED
    BY <1>1, <2>2, <2>3, <2>4, <2>6, <2>7
<1> QED
  BY <1>2, <1>3, <1>4, <1>5, <1>6, <1>7, <1>8, <1>9, <1>10, <1>11 DEF Next

LEMMA EndAlways == Spec => []EndInv
  BY MainAlways, EndInit, EndNext, PTL DEF Spec

-----------------------------------------------------------------------------
(* The theorems.                                                           *)

(* Whatever the files define, in whatever order they are read, however     *)
(* often they move about and fail, the list that run() is given has each   *)
(* registered function once, where it belongs (lib/registry.lua:62-93).    *)
THEOREM ListCompleteHolds == Spec => []ListComplete
<1>1. MainInv => ListComplete
  BY DEF MainInv, LoaderInv
<1> QED
  BY <1>1, MainAlways, PTL

(* The flag of block() holds back every run() of a file that is being      *)
(* loaded (bin/testcase.lua:184-202, lib/runner.lua:256-259).              *)
THEOREM NoRunWhileLoadingHolds == Spec => []NoRunWhileLoading
<1>1. ASSUME MainInv PROVE NoRunWhileLoading
  <2> SUFFICES ASSUME step \in {"load", "listed"}
               PROVE  R!M.stage = "idle" /\ log = << >>
    BY DEF NoRunWhileLoading
  <2>1. BeforeRun
    BY <1>1 DEF MainInv
  <2>2. PICK r \in {"none", "blocked"} :
            mem = [p \in R!Proc |-> [R!Boot EXCEPT !.blocked = TRUE, !.result = r]]
    BY <2>1 DEF BeforeRun, Memories
  <2> QED
    BY <2>1, <2>2, TheMain DEF BeforeRun, R!Boot
<1> QED
  BY <1>1, MainAlways, PTL

(* A load error never goes unreported, whichever way the command leaves    *)
(* but for a name that is nowhere or an assert that failed                 *)
(* (bin/testcase.lua:198, 206-208, 228-230).                               *)
THEOREM LoadErrorsShownHolds == Spec => []LoadErrorsShown
<1>1. MainInv => LoadErrorsShown
  BY DEF MainInv
<1> QED
  BY <1>1, MainAlways, PTL
(* Exit status 0 is not given away: whatever the files do and whichever    *)
(* tests are asked for, every file was loaded to its end, every test that  *)
(* was registered and asked for was called and passed, and no hook failed  *)
(* (bin/testcase.lua:192-236, lib/runner.lua:215-330).                     *)
THEOREM ExitZeroSoundHolds == Spec => []ExitZeroSound
<1>1. EndInv => ExitZeroSound
  BY DEF EndInv
<1> QED
  BY <1>1, EndAlways, PTL

(* A failure status is never without a cause: a file that did not load, a  *)
(* name that no file has, or a function that failed (bin/testcase.lua:     *)
(* 197-201, 206-208, 233-235).                                             *)
THEOREM FailureHasCauseHolds == Spec => []FailureHasCause
<1>1. EndInv => FailureHasCause
  BY DEF EndInv
<1> QED
  BY <1>1, EndAlways, PTL
===============================================================================
