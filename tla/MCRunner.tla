------------------------------ MODULE MCRunner ------------------------------
(* Instances of Runner for TLC.                                            *)
EXTENDS Runner, TLC

MCDirs == {"root", "d1", "d2"}

AllHooks == HookNames
File(dir, hooks, tests) == [dir |-> dir, hooks |-> hooks, tests |-> tests]

\* Every combination of hooks with up to two tests, and two-file lists.
HookLists ==
    {<<File("d1", h, ts)>> : h \in SUBSET HookNames,
                             ts \in {<< >>, <<"t1">>, <<"t1", "t2">>}}
    \cup {<<File("d1", h, <<"t1">>), File("d2", AllHooks, <<"t2">>)>> :
             h \in {{}, {"before_all"}, {"after_all"}, {"before_each", "after_each"}}}
    \cup {<< >>}

\* Files for the runs in which user code forks and removes directories.
ForkLists ==
    {<<File("d1", {"after_each"}, <<"t1">>), File("d2", {}, <<"t1">>)>>,
     <<File("d1", {"before_all", "after_all"}, << >>)>>,
     <<File("d1", {}, << >>)>>}

KidSymmetry == Permutations(Kids)
=============================================================================
