------------------------------- MODULE Loader -------------------------------
(****************************************************************************)
(* The loading of the test files: loadfiles() of bin/testcase.lua runs each *)
(* file once through lib/eval.lua; the file assigns its functions to the    *)
(* table of lib/testcase.lua, which files them in lib/registry.lua; and     *)
(* registry.getlist() turns the registry into the list the runner is given. *)
(*                                                                          *)
(* Files are told apart by the pathname they were given, relative to the    *)
(* directory the command was started in, and are numbered in the order of   *)
(* their names.  A function carries the file and the line it was *defined*  *)
(* at: a file may register a function that another file defined.            *)
(****************************************************************************)
EXTENDS Integers, Sequences, FiniteSets, SequencesExt

CONSTANTS
    File,       \* the lua files, as the positions of their names
    Given,      \* the test files to load, in order
    Name,       \* the names a function may be registered under
    Line,       \* the line numbers at which functions are defined
    MaxFuncs,   \* how many functions are registered, to bound the runs
    Dir,        \* the directories that test files move to
    Home,       \* the directory the command was started in
    Resolve     \* Resolve[<<d, f>>]: the file that pathname f names in d, or 0

HookNames == {"before_all", "before_each", "after_each", "after_all"}

\* What the constants are; Command, which gives them values, assumes it.
FileAssumption ==
    /\ File \subseteq Nat \ {0}
    /\ Given \in Seq(File)
    /\ MaxFuncs \in Nat
    /\ Home \in Dir
    /\ Resolve \in [Dir \X File -> File \cup {0}]
    /\ \A f \in File : Resolve[<<Home, f>>] = f

Func == [src : File, line : Line]
NoFile == 0

VARIABLES
    cwd,        \* the working directory
    todo,       \* the files that loadfiles() has still to load
    current,    \* the file that is running, or NoFile
    errfiles,   \* the files that failed to load
    registry,   \* REGISTRY: [file, name, line] records
    list,       \* what getlist() returned
    phase       \* "load", "listed"

vars == <<cwd, todo, current, errfiles, registry, list, phase>>

Init ==
    /\ cwd = Home
    /\ todo = Given
    /\ current = NoFile
    /\ errfiles = {}
    /\ registry = {}
    /\ list = << >>
    /\ phase = "load"

\* loadfiles() takes the next file: eval() opens it, or fails to.
LoadNext ==
    /\ phase = "load" /\ current = NoFile
    /\ todo # << >>
    /\ todo' = Tail(todo)
    /\ IF Resolve[<<cwd, Head(todo)>>] = NoFile
       THEN errfiles' = errfiles \cup {Head(todo)} /\ UNCHANGED current
       ELSE current' = Head(todo) /\ UNCHANGED errfiles
    /\ UNCHANGED <<cwd, registry, list, phase>>

EndFile_retry(ok) == \* mutant: a file that failed is loaded again
    /\ current # NoFile
    /\ current' = NoFile
    /\ todo' = IF ok THEN todo ELSE Append(todo, current)
    /\ errfiles' = IF ok THEN errfiles ELSE errfiles \cup {current}
    /\ UNCHANGED <<cwd, registry, list, phase>>
\* The file that is running ends, with an error or without.
EndFile(ok) ==
    /\ current # NoFile
    /\ current' = NoFile
    /\ errfiles' = IF ok THEN errfiles ELSE errfiles \cup {current}
    /\ UNCHANGED <<cwd, todo, registry, list, phase>>

\* registry.add(): where it files func, when it does not return an error.
Taken(f, name, func) == \E r \in registry : r.file = f /\ r.name = name

Accepts(name, func) ==
    LET f == Resolve[<<cwd, func.src>>]
    IN  f # NoFile /\ ~Taken(f, name, func)

\* testcase[name] = func in the file that is running.
Register(name, func) ==
    LET f == Resolve[<<cwd, func.src>>] IN
    /\ current # NoFile
    /\ Accepts(name, func)
    /\ Cardinality(registry) < MaxFuncs
    /\ registry' = registry \cup {[file |-> f, name |-> name, line |-> func.line]}
    /\ UNCHANGED <<cwd, todo, current, errfiles, list, phase>>

\* testcase[name] = func raises the error of registry.add(), which the file
\* does not catch.  (When it catches the error nothing has changed.)
RegisterFails(name, func) ==
    /\ ~Accepts(name, func)
    /\ EndFile(FALSE)

\* The file changes the working directory.
LoadChdir(d) ==
    /\ current # NoFile
    /\ cwd' = d
    /\ UNCHANGED <<todo, current, errfiles, registry, list, phase>>

\* getlist(): a file of the registry with its hooks and its sorted tests.
IsHook(r) == r.name \in HookNames
Listings_unsorted(f) == \* mutant: the tests come in the order of pairs()
    LET mine == {r \in registry : r.file = f}
    IN  {[src |-> f, hooks |-> {r \in mine : IsHook(r)}, tests |-> s] :
             s \in SetToSeqs({r \in mine : ~IsHook(r)})}
Listings(f) ==
    LET mine == {r \in registry : r.file = f}
    IN  {[src |-> f, hooks |-> {r \in mine : IsHook(r)}, tests |-> s] :
             s \in {s \in SetToSeqs({r \in mine : ~IsHook(r)}) :
                        IsSorted(s, LAMBDA a, b : a.line <= b.line)}}

\* getlist() sorts the files by name; tests of one line come in any order.
GetList ==
    /\ phase = "load" /\ current = NoFile /\ todo = << >>
    /\ \E files \in SetToSeqs({r.file : r \in registry}) :
           /\ IsSorted(files, <)
           /\ list' \in {l \in [DOMAIN files -> UNION {Listings(f) : f \in File}] :
                           \A i \in DOMAIN files : l[i] \in Listings(files[i])}
    /\ phase' = "listed"
    /\ UNCHANGED <<cwd, todo, current, errfiles, registry>>

Listed == phase = "listed" /\ UNCHANGED vars

Next ==
    \/ LoadNext
    \/ \E ok \in BOOLEAN : EndFile(ok)
    \/ \E name \in Name, func \in Func : Register(name, func) \/ RegisterFails(name, func)
    \/ \E d \in Dir : LoadChdir(d)
    \/ GetList
    \/ Listed

Spec == Init /\ [][Next]_vars
-----------------------------------------------------------------------------
(* Properties.                                                             *)

(* The list that is run has each registered test once, in the file it is   *)
(* filed under and ordered by its line, and each hook in its file, also    *)
(* when the file that registered them failed later on; a name is defined   *)
(* once in a file, as the second definition neither replaces the first nor *)
(* joins it (lib/registry.lua:62-93, 132-143).                             *)
ListComplete ==
    phase = "listed" =>
        LET place(r) == {i \in DOMAIN list : list[i].src = r.file}
            entries(i) == list[i].hooks \cup ToSet(list[i].tests)
        IN  /\ \A r \in registry :
                   /\ Cardinality(place(r)) = 1
                   /\ \A i \in place(r) :
                          IF r.name \in HookNames THEN r \in list[i].hooks
                          ELSE Cardinality({k \in DOMAIN list[i].tests :
                                                list[i].tests[k] = r}) = 1
            /\ \A i \in DOMAIN list :
                   /\ entries(i) \subseteq registry
                   /\ \A r, s \in entries(i) : r.name = s.name => r = s
            /\ \A i, j \in DOMAIN list : i < j => list[i].src < list[j].src
            /\ \A i \in DOMAIN list : \A k \in 2 .. Len(list[i].tests) :
                   list[i].tests[k - 1].line <= list[i].tests[k].line
=============================================================================
