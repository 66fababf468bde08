------------------------------ MODULE MCFinder ------------------------------
(* Instances of Finder for TLC: small trees below and beside the directory *)
(* the command is started in.                                              *)
EXTENDS Finder, TLC

d == <<"/", "b">>
At(name) == d \o <<"/">> \o name
Tree(dirs, regular) == [p \in dirs \cup regular |-> IF p \in dirs THEN "dir" ELSE "file"]

Start == d
NoLinks == << >>

\* Directories, test files, a dotfile, a helper, a link to a file, one to a
\* directory, and one to the directory it is in.
WideTree ==
    Tree({d, At(<<"s">>), At(<<"u">>), At(<<"v">>)},
         {At(<<"s", "/", "a", "T">>), At(<<"u", "/", "a", "T">>),
          At(<<"v", "/", "a", "T">>),
          At(<<"s", "/", "h", "L">>), At(<<"s", "/", ".", "T">>)})
WideLinks ==
    At(<<"s", "/", "k", "T">>) :> At(<<"u", "/", "a", "T">>)
    @@ At(<<"s", "/", "l">>) :> At(<<"u">>)
    @@ At(<<"v", "/", "k">>) :> At(<<"v">>)
WideArgs ==
    {<<<<"s">>, <<"u">>>>, <<<<"u">>>>, <<At(<<"s">>)>>, <<<<"s">>, At(<<"s">>)>>,
     <<<<"s", "/", "h", "L">>, <<"s">>>>, <<<<"x">>>>, <<<<"v">>>>}
WideRemovable == {At(<<"s", "/", "a", "T">>), At(<<"u", "/", "a", "T">>), At(<<"u">>)}

\* The theorems about Finder are about this tree.
ASSUME WideAssumption == Type = WideTree => NothingBeside /\ FewLinks

\* A directory beside the one the command is started in, whose name begins
\* with the same letters.
SideTree ==
    Tree({d, d \o <<"c">>, At(<<"c">>)},
         {d \o <<"c", "/", "a", "T">>, At(<<"c", "/", "a", "T">>)})
SideArgs == {<<d \o <<"c">>>>}
=============================================================================
