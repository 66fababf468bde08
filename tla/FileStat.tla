------------------------------ MODULE FileStat ------------------------------
(***************************************************************************)
(* src/stat.c and src/fstat.c: what the two tell of a pathname.  A file    *)
(* tree gives each name a type, the name a symbolic link leads to, or      *)
(* nothing.  An answer is a type or an error.                              *)
(***************************************************************************)
EXTENDS Integers, FiniteSets

CONSTANT Entry      \* the names

ASSUME EntryAssumption == IsFiniteSet(Entry)

FileType == {"file", "directory", "character_device", "fifo", "socket"}
Tree == [Entry -> FileType \cup {"nothing"} \cup Entry]

\* The kernel follows links; in a circle it gives up.
Target(tree, name) ==
    LET at[n \in 0 .. Cardinality(Entry)] ==
            IF n = 0 THEN name
            ELSE IF tree[at[n - 1]] \in Entry THEN tree[at[n - 1]] ELSE at[n - 1]
    IN  at[Cardinality(Entry)]

stat2(tree, name) ==
    LET what == tree[Target(tree, name)] IN
    CASE what \in Entry -> "ELOOP" [] what = "nothing" -> "ENOENT" [] OTHER -> what

lstat2(tree, name) ==
    IF tree[name] \in Entry THEN "symlink"
    ELSE IF tree[name] = "nothing" THEN "ENOENT" ELSE tree[name]

\* open(2) for reading: an error, or the type of what was opened.  Opening a
\* fifo waits for a writer, and "fifo" is the answer once there is one.
open2(tree, name, nofollow) ==
    IF nofollow /\ tree[name] \in Entry THEN "ELOOP"
    ELSE IF stat2(tree, name) = "socket" THEN "ENXIO"
    ELSE stat2(tree, name)

\* stat_lua()
stat_lua(tree, name, follow) ==
    IF follow THEN stat2(tree, name) ELSE lstat2(tree, name)

\* The O_NOFOLLOW of fstat_lua().
NoFollow_always(follow) == TRUE \* mutant: the option is not looked at
NoFollow(follow) == ~follow

\* fstat_lua()
fstat_lua(tree, name, follow) == open2(tree, name, NoFollow(follow))

IsError(answer) == answer \in {"ENOENT", "ELOOP", "ENXIO"}
=============================================================================
