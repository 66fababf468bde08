----------------------------- MODULE MCCommand -----------------------------
(* Instances of Command for TLC: two test files in two directories.        *)
EXTENDS Command

GivenFiles == <<1, 2>>
TwoDirs == [x \in Dirs \X File |-> IF x[1] = Root \/ x[2] = 1 THEN x[2] ELSE 0]
FileDirs == [f \in File |-> IF f = 1 THEN "d1" ELSE "d2"]
Choices == {{}, {"t1"}}
=============================================================================
