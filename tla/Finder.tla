------------------------------- MODULE Finder -------------------------------
(***************************************************************************)
(* Which files the command runs: get_pathnames() and get_files() of        *)
(* bin/testcase.lua with getfiles() and walkdir() of lib/filesystem.lua.   *)
(* Others may remove files while the search goes on.                       *)
(*                                                                         *)
(* A pathname is a sequence of symbols: "/", the letters of the names, and *)
(* for a suffix one symbol, "T" for "_test.lua" and "L" for another        *)
(* ".lua".  The search works on pathnames as strings, so a prefix of a     *)
(* pathname need not end where a name ends.                                *)
(***************************************************************************)
EXTENDS Integers, Sequences, FiniteSets, SequencesExt, FiniteSetsExt

CONSTANTS
    Cwd,        \* the directory the command was started in
    Type,       \* Type[p]: "file", "dir" or "other", by absolute real pathname
    Links,      \* Links[p]: the real pathname the symbolic link p leads to
    MaxLinks,   \* how many links the kernel follows in one pathname
    Args,       \* the lists of pathnames that may be given
    CheckAll,   \* opts.checkall
    Removable   \* the files and directories that others may remove

-----------------------------------------------------------------------------
(* Pathnames.                                                              *)

Abs(p) == IF IsPrefix(<<"/">>, p) THEN p ELSE Cwd \o <<"/">> \o p
Child(d, name) == d \o <<"/">> \o name

\* The kernel follows the links in a pathname from left to right.
LinkEnds(p) ==
    {n \in 1 .. Len(p) : /\ SubSeq(p, 1, n) \in DOMAIN Links
                         /\ n = Len(p) \/ p[n + 1] = "/"}
FollowOne[p \in Seq(STRING)] ==
    IF LinkEnds(p) = {} THEN p
    ELSE LET n == Min(LinkEnds(p))
         IN  Links[SubSeq(p, 1, n)] \o SubSeq(p, n + 1, Len(p))
Hops(p) ==
    LET f[n \in 0 .. MaxLinks] == IF n = 0 THEN Abs(p) ELSE FollowOne[f[n - 1]]
    IN  f
Follow(p) == Hops(p)[MaxLinks]

\* An absolute pathname without an empty name in it, and not the root.
PathName(p) ==
    /\ p \in Seq(STRING) /\ p # << >>
    /\ p[1] = "/" /\ Last(p) # "/"
    /\ \A i \in 1 .. Len(p) - 1 : p[i] = "/" => p[i + 1] # "/"

ASSUME TreeAssumption ==
    /\ \A p \in DOMAIN Type :
           PathName(p) /\ LinkEnds(p) = {} /\ Type[p] \in {"file", "dir", "other"}
    /\ \A l \in DOMAIN Links :
           /\ PathName(l) /\ LinkEnds(l) = {Len(l)}
           /\ PathName(Links[l]) /\ LinkEnds(Links[l]) = {}
    /\ IsFiniteSet(DOMAIN Links)
    /\ \A a \in Args : a \in Seq(Seq(STRING))
    /\ Cwd \in DOMAIN Type /\ Type[Cwd] = "dir"
    /\ Removable \subseteq DOMAIN Type
    /\ MaxLinks \in Nat /\ CheckAll \in BOOLEAN

VARIABLES
    present,    \* what exists of DOMAIN Type
    args,       \* the arguments
    todo,       \* the arguments get_pathnames() has still to resolve
    paths,      \* the pathnames to search
    walk,       \* the directories walkdir() has still to read
    reading,    \* readdir() is reading the first of them
    entries,    \* the entries it has still to report
    subdirs,    \* dirs of the walkdir() that is reading
    found,      \* files of getfiles(); its order is left open
    files,      \* files of get_files(): [name, real] records
    stage       \* "args", "stat", "walk", "check", "done", "failed", "crashed"

wvars == <<walk, reading, entries, subdirs>>
vars == <<present, args, todo, paths, wvars, found, files, stage>>

-----------------------------------------------------------------------------
(* What the system calls tell of a pathname.                               *)

\* stat() of a pathname: a type, "ENOENT" or "ELOOP".
Stat(p) ==
    IF LinkEnds(Follow(p)) # {} THEN "ELOOP"
    ELSE IF Follow(p) \notin present THEN "ENOENT"
    ELSE Type[Follow(p)]

\* The name of an entry of directory d, and the entries that exist.
EntryName(d, p) == SubSeq(p, Len(d) + 2, Len(p))
Listing(d) ==
    {EntryName(d, p) : p \in {p \in present \cup DOMAIN Links :
        /\ IsStrictPrefix(d \o <<"/">>, p)
        /\ "/" \notin ToSet(EntryName(d, p))}}

\* trim_cwd()
Trim_slash(p) == \* mutant: the slash after the prefix stays
    IF IsPrefix(Cwd, p) THEN SubSeq(p, Len(Cwd) + 1, Len(p)) ELSE p
Trim(p) ==
    IF IsPrefix(Cwd, p)
    THEN LET rest == SubSeq(p, Len(Cwd) + 1, Len(p))
         IN  IF IsPrefix(<<"/">>, rest) THEN Tail(rest) ELSE rest
    ELSE p

\* The tests of walkdir() on the name of an entry.
Ignored(name) == name[1] = "."
Matches_lua(name) == Last(name) \in {"T", "L"} \* mutant: always --checkall
Matches(name) ==
    \/ Last(name) = "T"
    \/ CheckAll /\ Last(name) = "L"

-----------------------------------------------------------------------------
Init ==
    /\ present = DOMAIN Type
    /\ args \in Args
    /\ todo = args
    /\ paths = << >>
    /\ walk = << >> /\ reading = FALSE /\ entries = {} /\ subdirs = << >>
    /\ found = {}
    /\ files = << >>
    /\ stage = "args"

Fail ==
    /\ stage' = "failed"
    /\ UNCHANGED <<present, args, todo, paths, wvars, found, files>>

\* check_pathname(): realpath() finds something.
Resolves(p) == Stat(p) \notin {"ENOENT", "ELOOP"}

\* get_pathnames() resolves the next argument.
TakeArg ==
    /\ stage = "args" /\ todo # << >>
    /\ IF Resolves(Head(todo)) /\ Follow(Head(todo)) \notin ToSet(paths)
       THEN /\ paths' = Append(paths, Follow(Head(todo)))
            /\ todo' = Tail(todo)
            /\ UNCHANGED <<present, args, wvars, found, files, stage>>
       ELSE Fail

ArgsTaken ==
    /\ stage = "args" /\ todo = << >>
    /\ stage' = "stat"
    /\ UNCHANGED <<present, args, todo, paths, wvars, found, files>>

\* getfiles() up to walkdir(); nil for a list is the end of the command.
GetFiles ==
    /\ stage = "stat" /\ paths # << >>
    /\ LET p == Head(paths) IN
       \/ /\ Stat(p) = "ENOENT"
          /\ stage' = "crashed"
          /\ UNCHANGED <<walk, found>>
       \/ /\ Stat(p) = "file"
          /\ stage' = "check"
          /\ found' = {Trim(p)}
          /\ UNCHANGED walk
       \/ /\ Stat(p) = "dir"
          /\ stage' = "walk"
          /\ walk' = <<p>>
          /\ UNCHANGED found
       \/ /\ Stat(p) = "other"
          /\ stage' = "check"
          /\ UNCHANGED <<walk, found>>
    /\ UNCHANGED <<present, args, todo, paths, reading, entries, subdirs, files>>

\* walkdir() opens the next directory.
OpenDir ==
    /\ stage = "walk" /\ ~reading /\ walk # << >>
    /\ IF Stat(Head(walk)) = "dir"
       THEN /\ reading' = TRUE
            /\ entries' = Listing(Follow(Head(walk)))
            /\ subdirs' = << >>
            /\ UNCHANGED <<present, args, todo, paths, walk, found, files, stage>>
       ELSE Fail

\* readdir() reports an entry, in any order.
StatEntry(name) ==
    LET p == Child(Head(walk), name) IN
    /\ stage = "walk" /\ reading /\ name \in entries
    /\ IF ~Ignored(name) /\ Stat(p) = "ELOOP" THEN Fail
       ELSE /\ entries' = entries \ {name}
            /\ subdirs' = IF ~Ignored(name) /\ Stat(p) = "dir"
                          THEN Append(subdirs, p) ELSE subdirs
            /\ found' = IF ~Ignored(name) /\ Stat(p) = "file" /\ Matches(name)
                        THEN found \cup {Trim(p)} ELSE found
            /\ UNCHANGED <<present, args, todo, paths, walk, reading, files, stage>>

\* The directory is read: walkdir() goes on with its subdirectories.
Remaining_all == subdirs \o walk \* mutant: the directory is read again
Remaining == subdirs \o Tail(walk)

CloseDir ==
    /\ stage = "walk" /\ reading /\ entries = {}
    /\ reading' = FALSE
    /\ walk' = Remaining
    /\ UNCHANGED <<present, args, todo, paths, entries, subdirs, found, files, stage>>

WalkDone ==
    /\ stage = "walk" /\ ~reading /\ walk = << >>
    /\ stage' = "check"
    /\ UNCHANGED <<present, args, todo, paths, wvars, found, files>>

\* get_files() takes a file of the list, unless it has it already.
Seen_byName(name) == \E i \in DOMAIN files : files[i].name = name \* mutant
Seen(name) == \E i \in DOMAIN files : files[i].real = Follow(name)

CheckFile(name) ==
    /\ stage = "check" /\ name \in found
    /\ IF Resolves(name)
       THEN /\ found' = found \ {name}
            /\ files' = IF Seen(name) THEN files
                        ELSE Append(files, [name |-> name, real |-> Follow(name)])
            /\ UNCHANGED <<present, args, todo, paths, wvars, stage>>
       ELSE Fail

NextPath ==
    /\ stage = "check" /\ found = {}
    /\ paths' = Tail(paths)
    /\ stage' = "stat"
    /\ UNCHANGED <<present, args, todo, wvars, found, files>>

Done ==
    /\ stage = "stat" /\ paths = << >>
    /\ stage' = "done"
    /\ UNCHANGED <<present, args, todo, paths, wvars, found, files>>

\* Others remove a file or an empty directory.
Vanish(p) ==
    /\ p \in present
    /\ \A q \in present \cup DOMAIN Links : ~IsStrictPrefix(p \o <<"/">>, q)
    /\ present' = present \ {p}
    /\ UNCHANGED <<args, todo, paths, wvars, found, files, stage>>

Ended == stage \in {"done", "failed", "crashed"}
Search ==
    \/ TakeArg \/ ArgsTaken \/ GetFiles
    \/ OpenDir \/ CloseDir \/ WalkDone \/ NextPath \/ Done
    \/ \E name \in entries : StatEntry(name)
    \/ \E name \in found : CheckFile(name)

Next ==
    \/ Search
    \/ \E p \in Removable : ~Ended /\ Vanish(p)
    \/ Ended /\ UNCHANGED vars

Spec == Init /\ [][Next]_vars
FairSpec == Spec /\ WF_vars(Search)

-----------------------------------------------------------------------------
(* Properties.                                                             *)

(* "duplicate files collected from overlapping pathnames are executed only *)
(* once" (README.md:42): one file is taken once, under whichever of its    *)
(* names it is met first (bin/testcase.lua:131-137).                       *)
EachOnce ==
    \A i, j \in DOMAIN files : files[i].real = files[j].real => i = j

\* The directories in directory d and, by their real pathnames, those that
\* links in it lead to.
Subdirs(d) ==
    {q \in {Follow(Child(d, n)) : n \in {n \in Listing(d) : n[1] # "."}} :
        q \in present /\ Type[q] = "dir"}

\* The directories below d: those in every set of directories that holds the
\* ones in d and, with a directory, the ones in it.
Closed ==
    {S \in SUBSET {q \in present : Type[q] = "dir"} : \A s \in S : Subdirs(s) \subseteq S}
Below(d) ==
    LET here == Subdirs(d)
        sets == {S \in Closed : here \subseteq S}
    IN  {q \in present : Type[q] = "dir" /\ \A S \in sets : q \in S}
DirsFrom(d) == {d} \cup Below(d)

\* The files a user asks for with the pathname p, of those that exist.
FilesIn(d) ==
    {Follow(Child(d, n)) : n \in {n \in Listing(d) :
        /\ n[1] # "."
        /\ Last(n) \in IF CheckAll THEN {"T", "L"} ELSE {"T"}
        /\ Stat(Child(d, n)) = "file"}}
AskedBy(p) ==
    IF Stat(p) # "dir" THEN {Follow(p)}
    ELSE UNION {FilesIn(d) : d \in DirsFrom(Follow(p))}
Asked == UNION {AskedBy(args[i]) : i \in DOMAIN args}

(* "the testcase command searches for a test file with the suffix          *)
(* `_test.lua` in each specified `pathname` and executes the test files"   *)
(* (README.md:42): every file asked for that exists at the end is taken,   *)
(* and no file is taken that was not asked for, unless it was removed      *)
(* since (lib/filesystem.lua:41-119, bin/testcase.lua:101-142).            *)
ExactlyTheAsked ==
    stage = "done" =>
        LET taken == {files[i].real : i \in DOMAIN files}
        IN  /\ Asked \cap {p \in present : Type[p] = "file"} \subseteq taken
            /\ taken \cap present \subseteq Asked

\* From a directory below p, or from p, links lead round to that directory.
Circular(p) == \E d \in DirsFrom(p) : d \in Below(d)

(* The search fails only for a pathname that is missing or given twice,    *)
(* for a directory from which links lead round in a circle, or because     *)
(* something was removed while it went on (bin/testcase.lua:86-115,        *)
(* 127-133, lib/filesystem.lua:74-76).                                     *)
FailureHasCause ==
    stage \in {"failed", "crashed"} =>
        \/ present # DOMAIN Type
        \/ \E i \in DOMAIN args : ~Resolves(args[i])
        \/ \E i, j \in DOMAIN args : i # j /\ Follow(args[i]) = Follow(args[j])
        \/ \E i \in DOMAIN args : Circular(Follow(args[i]))

(* What of these holds only in some trees: trim_cwd() compares strings, and *)
(* the kernel follows so many links and no more.                           *)

\* Nothing beside the working directory has a name that begins with its name.
NothingBeside ==
    \A p \in DOMAIN Type \cup DOMAIN Links :
        IsPrefix(Cwd, p) => p = Cwd \/ IsPrefix(Cwd \o <<"/">>, p)

\* The links to directories, fewer than the kernel follows in a pathname.
DirLinks == {l \in DOMAIN Links : Links[l] \in DOMAIN Type /\ Type[Links[l]] = "dir"}
FewLinks == Cardinality(DirLinks) < MaxLinks

(* The search ends, also when a link leads to a directory above it         *)
(* (lib/filesystem.lua:53-84).                                             *)
SearchEnds == <>Ended
=============================================================================
