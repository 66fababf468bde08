\* The command from block() to its exit status.
CONSTANTS
    Main = main
    File = {1, 2}
    Given <- GivenFiles
    Name = {"before_all", "t1", "t2"}
    Line = {1, 2}
    MaxFuncs = 3
    Resolve <- TwoDirs
    Dirs = {"root", "d1", "d2"}
    Root = "root"
    Removable = {"d2"}
    DirOf <- FileDirs
    Selections <- Choices
SPECIFICATION FairSpec
INVARIANTS
    ListComplete
    ExitZeroSound
    FailureHasCause
    LoadErrorsShown
    NoRunWhileLoading
PROPERTY CommandEnds
